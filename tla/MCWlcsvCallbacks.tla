--------------------------- MODULE MCWlcsvCallbacks ---------------------------
(* An instance of WlcsvCallbacks for TLC: a keyword, two rows and three  *)
(* columns; the keyword and a column are for a single match.                    *)
EXTENDS WlcsvCallbacks

Callback(kind, number, single) == [by |-> kind, at |-> number, once |-> single]

MCEntries ==
    {Callback("KEYWORD", 1, TRUE),
     Callback("ROW", 0, FALSE), Callback("ROW", 1, FALSE),
     Callback("COLUMN", 0, FALSE), Callback("COLUMN", 1, TRUE),
     Callback("COLUMN", 2, FALSE)}
===============================================================================
