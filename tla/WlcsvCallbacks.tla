---------------------------- MODULE WlcsvCallbacks ----------------------------
(***************************************************************************)
(* The callbacks of src/src/wlcsv.c: a table with a region of slots for    *)
(* each kind of match, and tbl_idx_skip, which chains the enabled ones.    *)
(* skip[0] is the first enabled slot, skip[i] the one after i, END after   *)
(* the last; 0 means disabled.  tbl_offs_col is where the search for a     *)
(* column callback begins in the current row.  The chain is edited by the  *)
(* search, and by callbacks in the middle of a row.                        *)
(*                                                                         *)
(* Operations on the table are actions on tbl, skip and offs only, for a   *)
(* user to compose with his own: here one that calls whatever is legal.    *)
(* The code checks neither capacity nor order: enlisting in front of       *)
(* others shifts them away from their identifiers and slots of the chain.  *)
(* The user here enlists as Appends says.  Texts are numbered in the order  *)
(* of strcmp(), and a keyword or a pattern matches one text; with several  *)
(* keywords the search would go on to use keywords as patterns, hence the  *)
(* assumption.                                                             *)
(***************************************************************************)
EXTENDS Integers, FiniteSetsExt

CONSTANTS NKey, NRgx, NRow, NCol,   \* slots of each kind, wlcsv_init()
          Entries, Texts,
          MaxRow, MaxCol,           \* bounds on the rows and columns of a file
          END,                      \* UINT8_MAX
          NULL

WLCSV_NCALLBACKS_MAX == 16
Kinds == {"KEYWORD", "REGEX", "ROW", "COLUMN"}

(* wlcsv_init() also accepts a full table: callbacks_eor() then reads behind *)
(* tbl_idx_skip, and what it finds is left out.                             *)
ASSUME CsvAssumption ==
    /\ NKey \in 0..1 /\ NRgx \in 0..1 /\ NRow \in Nat /\ NCol \in Nat
    /\ MaxRow \in Nat /\ MaxCol \in Nat /\ NULL \notin Entries
    /\ 1 + NKey + NRgx + NRow + NCol < WLCSV_NCALLBACKS_MAX
    /\ END \in Nat /\ END >= WLCSV_NCALLBACKS_MAX
    /\ \A e \in Entries : e.by \in Kinds /\ e.at \in Nat /\ e.once \in BOOLEAN

VARIABLES tbl,          \* callbacks.tbl
          skip,         \* callbacks.tbl_idx_skip
          offs,         \* callbacks.tbl_offs_col
          row, col,     \* state.row, state.col
          place,        \* where the reader is, see CallbackSet; "search" goes
                        \* through the chain, "columns" from offs
          at,           \* the search's index, then the slot being called
          field         \* the field being searched for

tableVars  == <<tbl, skip, offs>>
readerVars == <<row, col, place, at, field>>
vars       == <<tableVars, readerVars>>

RgxStart == 1 + NKey
RowStart == RgxStart + NRgx
ColStart == RowStart + NRow
Length   == ColStart + NCol
Slots    == 0..Length            \* with the place after the last, which is read
Ids      == 1..(Length - 1)
Start(by) == CASE by = "KEYWORD" -> 1
               [] by = "REGEX" -> RgxStart
               [] by = "ROW" -> RowStart
               [] by = "COLUMN" -> ColStart
Bound(by) == CASE by = "KEYWORD" -> RgxStart
               [] by = "REGEX" -> RowStart
               [] by = "ROW" -> ColStart
               [] by = "COLUMN" -> Length
DefaultEntry == [by |-> "DEFAULT", at |-> 0, once |-> FALSE]
Enabled == {i \in Ids : skip[i] # 0}

Init ==
    /\ tbl = [i \in Slots |-> IF i = 0 THEN DefaultEntry ELSE NULL]
    /\ skip = [i \in Slots |-> IF i = 0 THEN END ELSE 0]
    /\ offs = ColStart
    /\ row = 0 /\ col = 0 /\ place = "out" /\ at = 0 /\ field = NULL

-----------------------------------------------------------------------------
(* The table                                                                *)

(* Where callbacks_toggle() leaves the chain: the first link that does not   *)
(* lead to a slot before i.                                                 *)
Before(i) ==
    CHOOSE j \in Slots : (j = 0 \/ (j < i /\ skip[j] # 0)) /\ skip[j] >= i

(* Mutant of Relinked: the slot in front is not led past the disabled one.   *)
RelinkedOne(i) ==
    IF skip[i] # 0 THEN [skip EXCEPT ![i] = 0]
                   ELSE [skip EXCEPT ![Before(i)] = i, ![i] = skip[Before(i)]]

(* The chain after a toggle of slot i.                                      *)
Relinked(i) ==
    IF skip[i] # 0 THEN [skip EXCEPT ![Before(i)] = skip[i], ![i] = 0]
                   ELSE [skip EXCEPT ![Before(i)] = i, ![i] = skip[Before(i)]]

(* Mutant of ToggleIn: columns enabled in the middle of a row are forgotten. *)
ToggleInChain(t, i) == skip' = Relinked(i) /\ UNCHANGED offs

(* Mutant of ToggleIn: the kind of callback is not looked at.               *)
ToggleInAnyKind(t, i) ==
    /\ skip' = Relinked(i)
    /\ offs' = CASE skip[i] # 0 /\ i = offs -> skip[i]
                 [] skip[i] = 0 /\ i < offs -> i
                 [] OTHER -> offs

(* callbacks_toggle() on a table t.                                         *)
ToggleIn(t, i) ==
    /\ skip' = Relinked(i)
    /\ offs' = CASE t[i].by = "COLUMN" /\ skip[i] # 0 /\ i = offs -> skip[i]
                 [] t[i].by = "COLUMN" /\ skip[i] = 0 /\ i < offs -> i
                 [] OTHER -> offs

(* wlcsv_callbacks_toggle(): a slot without a callback is refused.           *)
Toggle(i) == tbl[i] # NULL /\ ToggleIn(tbl, i) /\ UNCHANGED tbl

(* callbacks_enlist(): the slot for e, and where the entries from there on   *)
(* are shifted to.                                                          *)
SlotFor(e) ==
    Min({k \in Slots : k >= Start(e.by) /\ (tbl[k] = NULL \/ tbl[k].at >= e.at)})

Enlist(e) ==
    LET i == SlotFor(e)
        j == Min({k \in Slots : k >= i /\ tbl[k] = NULL})
    IN  /\ tbl' = [k \in Slots |-> IF k = i THEN e
                                   ELSE IF k \in i..j THEN tbl[k - 1] ELSE tbl[k]]
        /\ ToggleIn(tbl', i)

(* What a user must see to: e fits behind the callbacks of its kind.         *)
Appends(e) ==
    LET i == SlotFor(e)
    IN  i < Bound(e.by) /\ \A k \in i..(Bound(e.by) - 1) : tbl[k] = NULL

ClearWith(i, disable) ==
    /\ tbl[i] # NULL
    /\ tbl' = [tbl EXCEPT ![i] = NULL]
    /\ IF disable THEN ToggleIn(tbl, i) ELSE UNCHANGED <<skip, offs>>

(* Mutant of Clear: an enabled callback stays in the chain.                  *)
ClearChained(i) == ClearWith(i, FALSE)

(* wlcsv_callbacks_clear()                                                  *)
Clear(i) == ClearWith(i, skip[i] # 0)

(* wlcsv_callbacks_clear_all(): all but the default callback; offs stays.    *)
ClearAll ==
    /\ tbl' = [i \in Slots |-> IF i = 0 THEN tbl[i] ELSE NULL]
    /\ skip' = [i \in Slots |-> IF i = 0 THEN END ELSE 0]
    /\ UNCHANGED offs

-----------------------------------------------------------------------------
(* The reader                                                               *)

Move(from, to, r, c) ==
    /\ place = from /\ place' = to
    /\ row' = r /\ col' = c /\ at' = 0 /\ field' = NULL

(* wlcsv_file_read()                                                        *)
StartFile == Move("out", "row", 0, 0) /\ UNCHANGED tableVars
EndFile   == Move("row", "out", row, col) /\ col = 0 /\ UNCHANGED tableVars

(* callbacks_forward(): a field is searched for, unless it is empty and      *)
(* empty ones are ignored, or it matches ignore_regex.                      *)
Field(text) ==
    /\ place = "row" /\ place' = "search"
    /\ row <= MaxRow /\ col <= MaxCol
    /\ at' = skip[0] /\ field' = text
    /\ UNCHANGED <<tableVars, row, col>>

SkipField ==
    /\ Move("row", "row", row, col + 1)
    /\ row <= MaxRow /\ col <= MaxCol
    /\ UNCHANGED tableVars

(* callbacks_search() comes to a match, to the next slot, or to the columns. *)
Hit ==
    /\ place' = "call" /\ UNCHANGED <<tbl, at>>
    /\ skip' = IF tbl[at].once THEN Relinked(at) ELSE skip

GoTo(p, i) == place' = p /\ at' = i

SearchText ==
    /\ place = "search" /\ at < RowStart
    /\ IF tbl[at].at = field
         THEN Hit /\ UNCHANGED offs
         ELSE GoTo("search", skip[at]) /\ UNCHANGED tableVars
    /\ UNCHANGED <<row, col, field>>

SearchRow ==
    /\ place = "search" /\ at \in RowStart..(ColStart - 1)
    /\ \/ tbl[at].at = row /\ Hit /\ UNCHANGED offs
       \/ tbl[at].at > row /\ GoTo("search", skip[at]) /\ UNCHANGED tableVars
       \/ tbl[at].at < row /\ GoTo("search", skip[at]) /\ Toggle(at)
    /\ UNCHANGED <<row, col, field>>

SearchColumns ==
    /\ place = "search" /\ at >= ColStart
    /\ GoTo("columns", offs)
    /\ UNCHANGED <<tableVars, row, col, field>>

SearchColumnThen(next) ==
    /\ place = "columns" /\ at # END
    /\ \/ tbl[at] = NULL /\ GoTo("crash", at) /\ UNCHANGED tableVars
       \/ /\ tbl[at] # NULL /\ tbl[at].at > col
          /\ GoTo("columns", next) /\ UNCHANGED tableVars
       \/ /\ tbl[at] # NULL /\ tbl[at].at < col
          /\ GoTo("columns", skip[at]) /\ offs' = skip[at] /\ UNCHANGED <<tbl, skip>>
       \/ tbl[at] # NULL /\ tbl[at].at = col /\ Hit /\ offs' = skip[at]
    /\ UNCHANGED <<row, col, field>>

(* Mutant of SearchColumn: a column that is still to come is not stepped over. *)
SearchColumnWaiting == SearchColumnThen(at)

(* A column that has been reached is not looked at again in this row.  A     *)
(* slot without an entry is read all the same.                              *)
SearchColumn == SearchColumnThen(skip[at])

(* Nothing matches: the default callback, if there is one.                   *)
SearchFails ==
    /\ place = "columns" /\ at = END
    /\ GoTo("call", 0)
    /\ UNCHANGED <<tableVars, row, col, field>>

Search == SearchText \/ SearchRow \/ SearchColumns \/ SearchColumn \/ SearchFails

Return == Move("call", "row", row, col + 1)

(* callbacks_eor(), before the end-of-row callback: the first enabled column *)
(* of the next row.  And after it.                                          *)
FirstColumn ==
    LET columns == {i \in Enabled : i >= ColStart}
    IN  IF columns = {} THEN END ELSE Min(columns)

(* Mutant of EndRow: the columns of this row stay behind.                    *)
EndRowBehind == Move("row", "eor", row, col) /\ row <= MaxRow /\ UNCHANGED tableVars

EndRow ==
    /\ Move("row", "eor", row, col) /\ row <= MaxRow
    /\ offs' = FirstColumn
    /\ UNCHANGED <<tbl, skip>>

EorReturn == Move("eor", "row", row + 1, 0)

-----------------------------------------------------------------------------
(* A user who calls whatever is legal, in callbacks or not                   *)

UserStep ==
    /\ place \in {"out", "call", "eor"}
    /\ \/ \E e \in Entries : Appends(e) /\ Enlist(e)
       \/ \E i \in Ids : Toggle(i) \/ Clear(i)
       \/ ClearAll
    /\ UNCHANGED readerVars

Next ==
    \/ UserStep \/ Search \/ StartFile \/ EndFile \/ SkipField \/ EndRow
    \/ \E t \in Texts : Field(t)
    \/ (Return \/ EorReturn) /\ UNCHANGED tableVars

Spec == Init /\ [][Next]_vars

(* A search is straight-line code.                                          *)
FairSpec == Spec /\ WF_vars(Search)
-----------------------------------------------------------------------------
(* Properties                                                               *)

Places == {"out", "row", "search", "columns", "call", "eor", "crash"}

TypeOK ==
    /\ tbl \in [Slots -> Entries \cup {DefaultEntry, NULL}]
    /\ skip \in [Slots -> Slots \cup {END}]
    /\ offs \in ColStart..Length \cup {END}
    /\ row \in 0..(MaxRow + 1) /\ col \in 0..(MaxCol + 1)
    /\ place \in Places
    /\ at \in Slots \cup {END} /\ field \in Texts \cup {NULL}

Following(i) == {k \in Enabled : k > i}
IsNext(i, n) == IF Following(i) = {} THEN n = END
                ELSE n \in Following(i) /\ \A k \in Following(i) : n <= k

(* The chain leads from each enabled slot to the next enabled one, whichever *)
(* were toggled, enlisted and cleared in whatever order, also while a row is *)
(* being searched; and what is enabled has an entry (wlcsv.c:133, 155).      *)
ChainSound ==
    /\ \A i \in Enabled \cup {0} : IsNext(i, skip[i])
    /\ \A i \in Enabled : tbl[i] # NULL

(* The column the reader has still to search for: in an end-of-row callback   *)
(* that is the first of the next row, in a call the one behind the field.    *)
NextCol == CASE place = "eor" -> 0 [] place = "call" -> col + 1 [] OTHER -> col

Columns == {i \in Ids : i >= ColStart /\ tbl[i] # NULL}

(* tbl_offs_col never leads past an enabled column callback that the row has *)
(* still to reach, nor to a disabled one (wlcsv.c:143, 191, 305); an absent  *)
(* entry is read only if there is no column callback at all.                 *)
ColumnsToCome ==
    /\ Columns # {} => offs \in (Columns \cap Enabled) \cup {END}
    /\ \A i \in Columns \cap Enabled : tbl[i].at >= NextCol => i >= offs
    /\ place = "crash" => Columns = {}

Promised ==
    INSTANCE CallbackSet WITH
        callback <- [i \in Ids |-> tbl[i]],
        enabled  <- Enabled,
        place    <- IF place \in {"search", "columns", "crash"} THEN "row" ELSE place,
        called   <- IF place = "call" THEN at ELSE 0

(* The search, with its skip list, gives each field to the callback that      *)
(* wlcsv.h promises: the first enabled one that matches, else the default.   *)
ImplementsCallbackSet == Promised!Spec

(* The search of a field comes to an end, in a call or at an absent entry     *)
(* (the loops of wlcsv.c:166-198 follow the chain until it ends).            *)
SearchEnds == place = "search" ~> place \in {"call", "crash"}
===============================================================================
