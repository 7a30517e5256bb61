------------------------- MODULE MCProcessRegistry --------------------------
(* Small instances of the process registry for TLC.                         *)
EXTENDS ProcessRegistry
=============================================================================
