----------------------------- MODULE MCEmissMain -----------------------------
(* Instances of EmissMain for TLC.                                           *)
EXTENDS EmissMain
==============================================================================
