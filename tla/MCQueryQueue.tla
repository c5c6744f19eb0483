---------------------------- MODULE MCQueryQueue ----------------------------
(* Instances of QueryQueue for TLC: the sets come from the .cfg files.      *)
EXTENDS QueryQueue
==============================================================================
