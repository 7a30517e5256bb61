------------------------- MODULE MCSyntheticMounts -------------------------
(* Instances of SyntheticMounts for TLC: two sessions of a workspace,        *)
(* one or two protected names.                                              *)
EXTENDS SyntheticMounts, TLC

Sym == Permutations(Daemon) \union Permutations(Ino)
============================================================================
