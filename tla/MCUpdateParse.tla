----------------------------- MODULE MCUpdateParse -----------------------------
(* An instance of UpdateParse for TLC: two countries, one year out of the       *)
(* program's range and two in it; a row without a country at the end of CO2E.   *)
EXTENDS UpdateParse

MCRows    == [f \in Files |-> IF f = CO2E THEN 3 ELSE 2]
MCLastCol == [f \in Files |-> IF f = Codes THEN 4 ELSE IF f = Meta THEN 4 ELSE 6]
MCHeader  == [c \in 0..4 |-> CASE c = 1 -> "iso_a3" [] c = 2 -> "independency"
                               [] c = 3 -> "iso_a2" [] OTHER -> "other"]
MCYearCols == {5, 6}

(* Each of these cells may be empty: a status of independency, a region, a note  *)
(* (quoted), and values.  The row without a country has no values.              *)
MCOptional == {<<Codes, 2, 2>>, <<Meta, 1, 1>>, <<Meta, 2, 3>>,
               <<CO2E, 1, 5>>, <<CO2E, 2, 6>>, <<POPT, 1, 6>>}
MCEmpty == {CO2E} \X {3} \X (4..6)
MCIgnored == ({CO2E, Meta, POPT} \X {0} \X (0..3)) \cup ({CO2E, POPT} \X (1..2) \X (2..3))
             \cup ({CO2E} \X {3} \X (0..3))

ASSUME FilesComplete
===============================================================================
