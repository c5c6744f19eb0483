--------------------------- MODULE MCSendPollLoop ---------------------------
(* Instances of SendPollLoop for TLC.                                       *)
EXTENDS SendPollLoop
==============================================================================
