----------------------------- MODULE CallbackSet -----------------------------
(***************************************************************************)
(* What src/include/wlcsv.h and src/doc/wlcsv_api.md promise of the csv    *)
(* reader's callbacks: a callback has an identifier, it can be enabled and *)
(* disabled by it, and a field goes to the first enabled callback that     *)
(* matches it, by text, then by row, then by column, or else to the        *)
(* default one.  Identifiers are ordered by kind and within a kind by what *)
(* they match.  WlcsvCallbacks.tla, the table and skip list of             *)
(* src/src/wlcsv.c, is shown to implement it.                              *)
(***************************************************************************)
EXTENDS Integers, FiniteSetsExt

CONSTANTS Ids,        \* identifiers of callbacks, positive numbers
          Entries,    \* callbacks: kind of match, what to match, whether only once
          Texts,      \* contents of a field
          NULL

VARIABLES callback,   \* the callback with an identifier, or NULL
          enabled,    \* identifiers of the enabled ones
          row, col,
          place,      \* out of a file, at a row's next field, in a call, in the
                      \* end-of-row callback
          called      \* the identifier of the callback in a call; 0 is the default

setVars == <<callback, enabled>>
vars    == <<setVars, row, col, place, called>>

Init ==
    /\ callback = [i \in Ids |-> NULL] /\ enabled = {}
    /\ row = 0 /\ col = 0 /\ place = "out" /\ called = 0

(* The user's operations, before or between files or in a callback.         *)
Enlist(i, e) ==
    /\ callback[i] = NULL
    /\ callback' = [callback EXCEPT ![i] = e]
    /\ enabled' = enabled \cup {i}

Toggle(i) ==
    /\ callback[i] # NULL
    /\ enabled' = IF i \in enabled THEN enabled \ {i} ELSE enabled \cup {i}
    /\ UNCHANGED callback

Clear(S) ==
    /\ callback' = [i \in Ids |-> IF i \in S THEN NULL ELSE callback[i]]
    /\ enabled' = enabled \ S

UserStep ==
    /\ place \in {"out", "call", "eor"}
    /\ \/ \E i \in Ids : Toggle(i) \/ Clear({i}) \/ \E e \in Entries : Enlist(i, e)
       \/ Clear(Ids)
    /\ UNCHANGED <<row, col, place, called>>

Matches(e, text) ==
    \/ e.by \in {"KEYWORD", "REGEX"} /\ e.at = text
    \/ e.by = "ROW" /\ e.at = row
    \/ e.by = "COLUMN" /\ e.at = col

(* A field goes to the first enabled callback that matches it; a callback   *)
(* for a single match is disabled then.                                    *)
Field(text) ==
    LET hits  == {i \in enabled : Matches(callback[i], text)}
        first == IF hits = {} THEN 0 ELSE Min(hits)
    IN  /\ place = "row" /\ place' = "call" /\ called' = first
        /\ enabled' = enabled \ {i \in hits : i = first /\ callback[i].once}
        /\ UNCHANGED <<callback, row, col>>

(* A ROW callback is disabled after its row.                                *)
Expire(i) ==
    /\ place = "row" /\ i \in enabled
    /\ callback[i].by = "ROW" /\ callback[i].at < row
    /\ enabled' = enabled \ {i}
    /\ UNCHANGED <<callback, row, col, place, called>>

Move(from, to, r, c) ==
    /\ place = from /\ place' = to
    /\ row' = r /\ col' = c /\ called' = 0
    /\ UNCHANGED setVars

Next ==
    \/ UserStep
    \/ \E t \in Texts : Field(t)
    \/ \E i \in Ids : Expire(i)
    \/ Move("out", "row", 0, 0)
    \/ Move("row", "row", row, col + 1)
    \/ Move("call", "row", row, col + 1)
    \/ Move("row", "eor", row, col)
    \/ Move("eor", "row", row + 1, 0)
    \/ Move("row", "out", row, col)

Spec == Init /\ [][Next]_vars
==============================================================================
