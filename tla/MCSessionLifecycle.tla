------------------------ MODULE MCSessionLifecycle --------------------------
(* Small instances of the life of a session for TLC.                        *)
EXTENDS SessionLifecycle
=============================================================================
