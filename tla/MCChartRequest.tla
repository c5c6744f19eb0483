---------------------------- MODULE MCChartRequest ----------------------------
(* Instances of ChartRequest for TLC.                                         *)
EXTENDS ChartRequest
===============================================================================
