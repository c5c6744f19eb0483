--------------------------- MODULE UpdateParseProofs ---------------------------
(***************************************************************************)
(* Proofs about UpdateParse, for files of any size.                        *)
(***************************************************************************)
EXTENDS UpdateParse, TLAPS

MaxRows == Max({Rows[f] : f \in Files})
MaxCols == Max({LastCol[f] : f \in Files})

Reader == INSTANCE WlcsvCallbacksProofs WITH
              NKey <- 1, NRgx <- 0, NRow <- 3, NCol <- 4, END <- 255,
              Texts <- {"cell"},
              MaxRow <- MaxRows, MaxCol <- MaxCols

-----------------------------------------------------------------------------
(* The sizes of the files, and the assumptions of the reader *)

LEMMA FilesAre ==
    /\ Files = {0, 1, 2, 3} /\ DataFiles = {1, 3}
    /\ Codes = 0 /\ CO2E = 1 /\ Meta = 2 /\ POPT = 3
BY DEF Files, DataFiles, Codes, CO2E, Meta, POPT

LEMMA MaxOfFiles ==
    ASSUME NEW n, n \in [Files -> Nat]
    PROVE  /\ Max({n[f] : f \in Files}) \in Nat
           /\ \A g \in Files : n[g] <= Max({n[f] : f \in Files})
<1> DEFINE S == {n[f] : f \in Files}
<1>1. /\ n[0] \in Nat /\ n[1] \in Nat /\ n[2] \in Nat /\ n[3] \in Nat
      /\ S = {n[0], n[1], n[2], n[3]}
    BY FilesAre
<1>2. \E x \in S : \A y \in S : y <= x
    BY <1>1
<1>3. Max(S) \in S /\ \A y \in S : y <= Max(S)
    BY <1>2 DEF Max
<1> QED
    BY <1>1, <1>3

LEMMA Sizes ==
    /\ MaxRows \in Nat /\ MaxCols \in Nat
    /\ \A f \in Files : /\ Rows[f] \in Nat /\ Rows[f] <= MaxRows
                        /\ LastCol[f] \in Nat /\ LastCol[f] <= MaxCols
<1>1. Rows \in [Files -> Nat] /\ LastCol \in [Files -> Nat]
    BY UpdateAssumption
<1> QED
    BY <1>1, MaxOfFiles DEF MaxRows, MaxCols

LEMMA CountriesAre ==
    /\ Countries \subseteq Nat \ {0}
    /\ \A f \in Files : \A r \in Nat : 1 <= r /\ r <= Rows[f] => r \in Countries
<1>1. Countries = 1..MaxRows
    BY DEF Countries, MaxRows
<1> QED
    BY <1>1, Sizes

LEMMA EntriesAre ==
    \A e \in Entries :
        /\ e.by \in {"ROW", "COLUMN"} /\ e.at \in Nat /\ e.once = FALSE
        /\ e.by = "ROW" => e.at = 0 /\ e \in {HeaderCallback, YearCallback}
<1>1. \A c \in DOMAIN CodesHeader : c \in Nat
    BY UpdateAssumption, Sizes, FilesAre
<1> QED
    BY <1>1 DEF Entries, HeaderCallback, YearCallback, CountryCallback, CodeCallback, Callback

LEMMA ReaderAssumption == Reader!CsvAssumption
<1>1. NULL \notin Entries
    BY EntriesAssumption
<1>2. MaxRows \in Nat /\ MaxCols \in Nat
    BY Sizes
<1>3. \A e \in Entries : e.by \in Reader!Kinds /\ e.at \in Nat /\ e.once \in BOOLEAN
    BY EntriesAre DEF Reader!Kinds
<1> QED
    BY <1>1, <1>2, <1>3 DEF Reader!CsvAssumption, Reader!WLCSV_NCALLBACKS_MAX

LEMMA ReaderLayout ==
    /\ Csv!RowStart = 2 /\ Csv!ColStart = 5 /\ Csv!Length = 9
    /\ Csv!Slots = 0..9 /\ Csv!Ids = 1..8
    /\ Reader!RowStart = 2 /\ Reader!ColStart = 5 /\ Reader!Length = 9
    /\ Reader!Slots = 0..9 /\ Reader!Ids = 1..8
BY DEF Csv!RowStart, Csv!ColStart, Csv!Length, Csv!Slots, Csv!Ids, Csv!RgxStart,
       Reader!RowStart, Reader!ColStart, Reader!Length, Reader!Slots, Reader!Ids,
       Reader!RgxStart

-----------------------------------------------------------------------------
(* The reader of the update is the reader that is proved about *)

LEMMA SameMin == \A S : Csv!Min(S) = Min(S) /\ Reader!Min(S) = Min(S)
BY DEF Csv!Min, Reader!Min, Min

LEMMA SameTable ==
    /\ \A e : Csv!SlotFor(e) = Reader!SlotFor(e) /\ (Csv!Enlist(e) <=> Reader!Enlist(e))
    /\ \A i : (Csv!Toggle(i) <=> Reader!Toggle(i)) /\ (Csv!Clear(i) <=> Reader!Clear(i))
    /\ Csv!ClearAll <=> Reader!ClearAll
    /\ \A i : Csv!Relinked(i) = Reader!Relinked(i)
<1> USE ReaderLayout
<1>1. \A i : Csv!Before(i) = Reader!Before(i)
    BY DEF Csv!Before, Reader!Before
<1>2. \A i : Csv!Relinked(i) = Reader!Relinked(i)
    BY <1>1 DEF Csv!Relinked, Reader!Relinked
<1>3. \A t, i : Csv!ToggleIn(t, i) <=> Reader!ToggleIn(t, i)
    BY <1>2 DEF Csv!ToggleIn, Reader!ToggleIn
<1>4. \A by : Csv!Start(by) = Reader!Start(by)
    BY DEF Csv!Start, Reader!Start, Csv!RgxStart, Reader!RgxStart
<1>5. \A e : Csv!SlotFor(e) = Reader!SlotFor(e)
  <2> TAKE e
  <2> DEFINE S(slots, start) ==
                 {k \in slots : k >= start /\ (tbl[k] = NULL \/ tbl[k].at >= e.at)}
  <2>1. /\ Csv!SlotFor(e) = Min(S(Csv!Slots, Csv!Start(e.by)))
        /\ Reader!SlotFor(e) = Min(S(Reader!Slots, Reader!Start(e.by)))
      BY SameMin DEF Csv!SlotFor, Reader!SlotFor
  <2> HIDE DEF S
  <2> QED
      BY <1>4, <2>1
<1>6. \A e : Csv!Enlist(e) <=> Reader!Enlist(e)
  <2> TAKE e
  <2> DEFINE i == Csv!SlotFor(e)
             F(slots, n) == LET j == Min({k \in slots : k >= n /\ tbl[k] = NULL})
                            IN  [k \in slots |-> IF k = n THEN e
                                                 ELSE IF k \in n..j THEN tbl[k - 1]
                                                 ELSE tbl[k]]
  <2>1. Csv!Enlist(e) <=> tbl' = F(Csv!Slots, Csv!SlotFor(e)) /\ Csv!ToggleIn(tbl', i)
      BY SameMin DEF Csv!Enlist
  <2>2. Reader!Enlist(e) <=>
            /\ tbl' = F(Reader!Slots, Reader!SlotFor(e))
            /\ Reader!ToggleIn(tbl', Reader!SlotFor(e))
      BY SameMin DEF Reader!Enlist
  <2> HIDE DEF F
  <2> QED
      BY <1>3, <1>5, <2>1, <2>2
<1>7. \A i : (Csv!Toggle(i) <=> Reader!Toggle(i)) /\ (Csv!Clear(i) <=> Reader!Clear(i))
    BY <1>3 DEF Csv!Toggle, Reader!Toggle, Csv!Clear, Reader!Clear, Csv!ClearWith,
                Reader!ClearWith
<1>8. Csv!ClearAll <=> Reader!ClearAll
    BY DEF Csv!ClearAll, Reader!ClearAll
<1> QED
    BY <1>2, <1>5, <1>6, <1>7, <1>8

LEMMA SameSearch == Csv!Search <=> Reader!Search
<1> USE SameTable, ReaderLayout DEF Csv!Hit, Reader!Hit, Csv!GoTo, Reader!GoTo, Csv!tableVars, Reader!tableVars
<1>1. Csv!SearchText <=> Reader!SearchText
    BY DEF Csv!SearchText, Reader!SearchText
<1>2. Csv!SearchRow <=> Reader!SearchRow
    BY DEF Csv!SearchRow, Reader!SearchRow
<1>3. Csv!SearchColumns <=> Reader!SearchColumns
    BY DEF Csv!SearchColumns, Reader!SearchColumns
<1>4. Csv!SearchColumn <=> Reader!SearchColumn
    BY DEF Csv!SearchColumn, Reader!SearchColumn, Csv!SearchColumnThen,
           Reader!SearchColumnThen
<1>5. Csv!SearchFails <=> Reader!SearchFails
    BY DEF Csv!SearchFails, Reader!SearchFails
<1> QED
    BY <1>1, <1>2, <1>3, <1>4, <1>5 DEF Csv!Search, Reader!Search

LEMMA SameReader ==
    /\ Csv!Init <=> Reader!Init
    /\ Csv!StartFile <=> Reader!StartFile
    /\ Csv!EndFile <=> Reader!EndFile
    /\ \A t : Csv!Field(t) <=> Reader!Field(t)
    /\ Csv!SkipField <=> Reader!SkipField
    /\ Csv!EndRow <=> Reader!EndRow
    /\ Csv!Return <=> Reader!Return
    /\ Csv!EorReturn <=> Reader!EorReturn
    /\ tableVars = Reader!tableVars
<1> USE ReaderLayout DEF Csv!Move, Reader!Move, Csv!tableVars, Reader!tableVars, tableVars,
                          MaxRows, MaxCols
<1>1. Csv!Init <=> Reader!Init
    BY DEF Csv!Init, Reader!Init, Csv!DefaultEntry, Reader!DefaultEntry
<1>2. /\ Csv!StartFile <=> Reader!StartFile
      /\ Csv!EndFile <=> Reader!EndFile
      /\ \A t : Csv!Field(t) <=> Reader!Field(t)
    BY DEF Csv!StartFile, Reader!StartFile, Csv!EndFile, Reader!EndFile, Csv!Field,
           Reader!Field
<1>3. /\ Csv!SkipField <=> Reader!SkipField
      /\ Csv!Return <=> Reader!Return
      /\ Csv!EorReturn <=> Reader!EorReturn
    BY DEF Csv!SkipField, Reader!SkipField, Csv!Return, Reader!Return, Csv!EorReturn,
           Reader!EorReturn
<1>4. Csv!EndRow <=> Reader!EndRow
  <2>1. Csv!Enabled = Reader!Enabled
      BY DEF Csv!Enabled, Reader!Enabled
  <2> DEFINE F(E, n) == LET columns == {i \in E : i >= n}
                        IN  IF columns = {} THEN 255 ELSE Min(columns)
  <2>2. /\ Csv!FirstColumn = F(Csv!Enabled, Csv!ColStart)
        /\ Reader!FirstColumn = F(Reader!Enabled, Reader!ColStart)
      BY SameMin DEF Csv!FirstColumn, Reader!FirstColumn
  <2> HIDE DEF F
  <2>3. Csv!FirstColumn = Reader!FirstColumn
      BY <2>1, <2>2
  <2> QED
      BY <2>3 DEF Csv!EndRow, Reader!EndRow
<1> QED
    BY <1>1, <1>2, <1>3, <1>4 DEF Csv!tableVars, Reader!tableVars, tableVars

-----------------------------------------------------------------------------
(* What the operations do to the table *)

LEMMA ReaderFacts ==
    ASSUME Reader!SafeInv
    PROVE  /\ tbl \in [0..9 -> Entries \cup {Reader!DefaultEntry, NULL}]
           /\ skip \in [0..9 -> 0..9 \cup {255}]
           /\ place \in Reader!Places /\ row \in Nat /\ col \in Nat
           /\ at \in 0..9 \cup {255}
           /\ \A i \in 1..8 : skip[i] # 0 => tbl[i] # NULL
           /\ \A i \in 1..8 : tbl[i] # NULL =>
                 tbl[i] \in Entries /\ (tbl[i].by = "ROW" <=> i < 5)
           /\ skip[0] # 0
<1>1. /\ Reader!TypeOK /\ Reader!TableInv /\ Reader!ChainSound
    BY DEF Reader!SafeInv
<1>2. /\ tbl \in [0..9 -> Entries \cup {Reader!DefaultEntry, NULL}]
      /\ skip \in [0..9 -> 0..9 \cup {255}]
      /\ place \in Reader!Places /\ row \in Nat /\ col \in Nat
      /\ at \in 0..9 \cup {255}
    BY <1>1, ReaderLayout, Sizes DEF Reader!TypeOK
<1>3. \A i \in 1..8 : skip[i] # 0 => tbl[i] # NULL
    BY <1>1, ReaderLayout DEF Reader!ChainSound, Reader!Enabled
<1>4. ASSUME NEW i \in 1..8, tbl[i] # NULL
      PROVE  tbl[i] \in Entries /\ (tbl[i].by = "ROW" <=> i < 5)
  <2>1. tbl[i] \in Entries /\ (i >= 5 <=> tbl[i].by = "COLUMN")
      BY <1>1, <1>4, ReaderLayout, ReaderAssumption, Reader!ColumnFacts
  <2> QED
      BY <2>1, EntriesAre
<1>5. skip[0] # 0
  <2>1. skip[0] > 0
      BY <1>1, ReaderAssumption, Reader!NextFacts
  <2> QED
      BY <1>2, <2>1
<1> QED
    BY <1>2, <1>3, <1>4, <1>5

First(e) == IF e.by = "ROW" THEN 2 ELSE 5
Past(e)  == IF e.by = "ROW" THEN 5 ELSE 9

LEMMA RegionIs ==
    \A e \in Entries : Reader!Start(e.by) = First(e) /\ Reader!Bound(e.by) = Past(e)
<1> SUFFICES ASSUME NEW e \in Entries
             PROVE  Reader!Start(e.by) = First(e) /\ Reader!Bound(e.by) = Past(e)
    OBVIOUS
<1>1. e.by = "ROW" \/ e.by = "COLUMN"
    BY EntriesAre
<1> QED
    BY <1>1, ReaderLayout DEF Reader!Start, Reader!Bound, First, Past

(* A callback is enlisted into the slot s, behind others of its kind.         *)
LEMMA EnlistEffect ==
    ASSUME Reader!SafeInv, NEW e \in Entries, Csv!Enlist(e),
           NEW s \in 1..8, First(e) <= s, s < Past(e),
           \A k \in 1..8 : First(e) <= k /\ k < s => tbl[k] # NULL /\ tbl[k].at < e.at,
           \A k \in 1..8 : s <= k /\ k < Past(e) => tbl[k] = NULL,
           place \in {"out", "call", "eor"}, UNCHANGED readerVars
    PROVE  /\ Csv!SlotFor(e) = s
           /\ tbl' = [tbl EXCEPT ![s] = e]
           /\ \A i \in 1..8 : skip'[i] # 0 <=> (skip[i] # 0 \/ i = s)
           /\ Reader!SafeInv'
<1>1. /\ tbl \in [0..9 -> Entries \cup {Reader!DefaultEntry, NULL}]
      /\ First(e) \in {2, 5} /\ Past(e) \in {5, 9} /\ s \in Nat
    BY ReaderFacts DEF First, Past
<1>2. Reader!SlotFor(e) = s
  <2> DEFINE S == {k \in 0..9 : k >= First(e) /\ (tbl[k] = NULL \/ tbl[k].at >= e.at)}
  <2>1. Reader!SlotFor(e) = Min(S)
      BY SameMin, RegionIs, ReaderLayout DEF Reader!SlotFor
  <2>2. s \in S
      BY <1>1
  <2>3. e.at \in Nat /\ \A k \in 1..8 : tbl[k] # NULL => tbl[k].at \in Nat
      BY ReaderFacts, EntriesAre
  <2>4. \A k \in S : s <= k
    <3> SUFFICES ASSUME NEW k \in 0..9, k >= First(e), k < s
                 PROVE  ~ (tbl[k] = NULL \/ tbl[k].at >= e.at)
        BY <1>1
    <3> QED
        BY <1>1, <2>3
  <2>5. \A x \in S : (\A k \in S : x <= k) => x = s
      BY <2>2, <2>4
  <2> HIDE DEF S
  <2> QED
      BY <2>1, <2>2, <2>4, <2>5 DEF Min
<1>3. Reader!Appends(e)
  <2>1. Reader!Bound(e.by) = Past(e)
      BY RegionIs
  <2>2. s < Past(e) /\ \A k \in s..(Past(e) - 1) : tbl[k] = NULL
      BY <1>1
  <2> QED
      BY <1>2, <2>1, <2>2 DEF Reader!Appends
<1>4. Reader!Enlist(e)
    BY SameTable
<1>5. tbl' = [tbl EXCEPT ![s] = e]
    BY <1>2, <1>3, <1>4, ReaderAssumption, Reader!EnlistsBehind
<1>6. Reader!Enabled' = Reader!Enabled \cup {s}
    BY <1>2, <1>3, <1>4, ReaderAssumption, Reader!EnlistKeeps
<1>7. \A i \in 1..8 : skip'[i] # 0 <=> (skip[i] # 0 \/ i = s)
    BY <1>6, ReaderLayout DEF Reader!Enabled
<1>8. Reader!UserStep
    BY <1>3, <1>4 DEF Reader!UserStep, readerVars, Reader!readerVars
<1>9. Reader!SafeInv'
    BY <1>8, ReaderAssumption, Reader!UserSafe
<1> QED
    BY <1>2, <1>5, <1>7, <1>9, SameTable

LEMMA ClearEffect ==
    ASSUME Reader!SafeInv, NEW s \in 1..8, Csv!Clear(s),
           place = "out", UNCHANGED readerVars
    PROVE  /\ tbl' = [tbl EXCEPT ![s] = NULL]
           /\ \A i \in 1..8 : skip'[i] # 0 <=> (skip[i] # 0 /\ i # s)
           /\ Reader!SafeInv'
<1>1. s \in Reader!Ids /\ Reader!Clear(s)
    BY SameTable, ReaderLayout
<1>2. tbl' = [tbl EXCEPT ![s] = NULL] /\ Reader!Enabled' = Reader!Enabled \ {s}
    BY <1>1, ReaderAssumption, Reader!ClearKeeps
<1>3. Reader!UserStep
    BY <1>1 DEF Reader!UserStep, readerVars, Reader!readerVars
<1>4. Reader!SafeInv'
    BY <1>3, ReaderAssumption, Reader!UserSafe
<1>5. \A i \in 1..8 : skip'[i] # 0 <=> (skip[i] # 0 /\ i # s)
    BY <1>2, ReaderLayout DEF Reader!Enabled
<1> QED
    BY <1>2, <1>4, <1>5

LEMMA ClearAllEffect ==
    ASSUME Reader!SafeInv, Csv!ClearAll, place = "out", UNCHANGED readerVars
    PROVE  /\ tbl'[0] = tbl[0]
           /\ \A i \in 1..8 : tbl'[i] = NULL /\ skip'[i] = 0
           /\ Reader!SafeInv'
<1>1. Reader!ClearAll
    BY SameTable
<1>2. Reader!UserStep
    BY <1>1 DEF Reader!UserStep, readerVars, Reader!readerVars
<1>3. Reader!SafeInv'
    BY <1>2, ReaderAssumption, Reader!UserSafe
<1>4. tbl'[0] = tbl[0] /\ \A i \in 1..8 : tbl'[i] = NULL /\ skip'[i] = 0
    BY <1>1, ReaderLayout DEF Reader!ClearAll
<1> QED
    BY <1>3, <1>4

(* The callback of a call switches a callback off or on, and returns.         *)
LEMMA ToggleReturnEffect ==
    ASSUME Reader!SafeInv, NEW s \in 1..8, Csv!Toggle(s), Csv!Return
    PROVE  /\ tbl' = tbl
           /\ \A i \in 1..8 : i # s => (skip'[i] # 0 <=> skip[i] # 0)
           /\ skip'[s] # 0 <=> skip[s] = 0
           /\ Reader!SafeInv'
<1>1. s \in Reader!Ids /\ Reader!Toggle(s) /\ Reader!Return
    BY SameTable, SameReader, ReaderLayout
<1> PICK n : n = col + 1
    OBVIOUS
<1>2. /\ Reader!TableOK' /\ (Reader!ToCome(n) => Reader!ToCome(n)')
      /\ Reader!Enabled' = IF s \in Reader!Enabled THEN Reader!Enabled \ {s}
                                                   ELSE Reader!Enabled \cup {s}
    BY <1>1, ReaderAssumption, Reader!ToggleKeeps
<1>3. tbl' = tbl
    BY <1>1 DEF Reader!Toggle
<1>4. /\ place = "call" /\ place' = "row" /\ row' = row /\ col' = col + 1
      /\ at' = 0 /\ field' = NULL
    BY <1>1 DEF Reader!Return, Reader!Move
<1>5. /\ Reader!ToCome(Reader!NextCol) /\ Reader!ReaderOK /\ Reader!SearchInv
    BY ReaderAssumption, Reader!SafeParts
<1>6. Reader!ToCome(Reader!NextCol)'
  <2>1. Reader!NextCol = n /\ Reader!NextCol' = n
      BY <1>4 DEF Reader!NextCol
  <2>2. Reader!ToCome(n)'
      BY <1>2, <1>5, <2>1
  <2> QED
      BY <2>1, <2>2 DEF Reader!ToCome
<1>7. Reader!ReaderOK' /\ Reader!SearchInv' /\ place' # "crash"
    BY <1>4, <1>5, Sizes, ReaderLayout
    DEF Reader!ReaderOK, Reader!SearchInv, Reader!Places
<1>8. Reader!SafeInv'
    BY <1>2, <1>6, <1>7, ReaderAssumption, Reader!SafePartsNext
<1> QED
    BY <1>2, <1>3, <1>8, ReaderLayout DEF Reader!Enabled

-----------------------------------------------------------------------------
(* What the reader's steps do *)

On(i) == skip[i] # 0

Matches(i) == \/ tbl[i].by = "ROW" /\ tbl[i].at = row
              \/ tbl[i].by = "COLUMN" /\ tbl[i].at = col

(* A call goes to a callback that matches the cell, and to the default one      *)
(* only if no enabled one does.                                             *)
CallInv ==
    place = "call" =>
        IF at = 0 THEN \A i \in 1..8 : On(i) => ~ Matches(i)
                  ELSE at \in 1..8 /\ tbl[at] # NULL /\ Matches(at)

LEMMA MoveEffect ==
    ASSUME Reader!SafeInv, UNCHANGED tableVars,
           \/ Csv!StartFile \/ Csv!EndFile \/ Csv!SkipField \/ Csv!Return \/ Csv!EorReturn
    PROVE  Reader!SafeInv' /\ CallInv'
<1>1. /\ UNCHANGED Reader!tableVars
      /\ \/ Reader!StartFile \/ Reader!EndFile \/ Reader!SkipField \/ Reader!Return
         \/ Reader!EorReturn
    BY SameReader DEF tableVars, Reader!tableVars
<1>2. Reader!SafeInv'
    BY <1>1, ReaderAssumption, Reader!ReaderSafe
<1>3. place' # "call"
    BY <1>1 DEF Reader!StartFile, Reader!EndFile, Reader!SkipField, Reader!Return,
                Reader!EorReturn, Reader!Move
<1> QED
    BY <1>2, <1>3 DEF CallInv

LEMMA FieldEffect ==
    ASSUME Reader!SafeInv, Csv!Field("cell")
    PROVE  Reader!SafeInv' /\ CallInv'
<1>1. Reader!Field("cell")
    BY SameReader
<1>2. Reader!SafeInv'
    BY <1>1, ReaderAssumption, Reader!FieldSafe
<1>3. place' # "call"
    BY <1>1 DEF Reader!Field
<1> QED
    BY <1>2, <1>3 DEF CallInv

LEMMA EndRowEffect ==
    ASSUME Reader!SafeInv, Csv!EndRow
    PROVE  Reader!SafeInv' /\ CallInv'
<1>1. Reader!EndRow
    BY SameReader
<1>2. Reader!SafeInv'
    BY <1>1, ReaderAssumption, Reader!EndRowSafe
<1>3. place' # "call"
    BY <1>1 DEF Reader!EndRow, Reader!Move
<1> QED
    BY <1>2, <1>3 DEF CallInv

LEMMA SearchEffect ==
    ASSUME Reader!SafeInv, Csv!Search
    PROVE  /\ Reader!SafeInv' /\ CallInv'
           /\ tbl' = tbl /\ row' = row /\ col' = col
           /\ place \in {"search", "columns"}
           /\ place' \in {"search", "columns", "call", "crash"}
           /\ \A i \in 1..8 : skip'[i] # 0 => skip[i] # 0
           /\ \A i \in 1..8 : skip[i] # 0 /\ skip'[i] = 0 => i < 5 /\ tbl[i].at < row
           /\ place' = "call" /\ at' # 0 => skip[at'] # 0
<1>1. Reader!Search
    BY SameSearch
<1>2. Reader!SafeInv'
    BY <1>1, ReaderAssumption, Reader!SearchSafe
<1>3. /\ tbl' = tbl /\ row' = row /\ col' = col /\ field' = field
      /\ place \in {"search", "columns"}
      /\ place' \in {"search", "columns", "call", "crash"}
      /\ Reader!Enabled' \subseteq Reader!Enabled
      /\ \A k \in Reader!Enabled \ Reader!Enabled' :
             tbl[k].once \/ (tbl[k].by = "ROW" /\ tbl[k].at < row)
      /\ place' = "call" =>
            IF at' = 0
              THEN \A k \in Reader!Enabled' : ~ Reader!Promised!Matches(tbl[k], field)
              ELSE /\ at' \in Reader!Ids /\ at' \in Reader!Enabled
                   /\ tbl[at'] # NULL
                   /\ Reader!Promised!Matches(tbl[at'], field)
    BY <1>1, ReaderAssumption, Reader!SearchFinds
<1>4. \A i \in 1..8 : skip'[i] # 0 => skip[i] # 0
    BY <1>3, ReaderLayout DEF Reader!Enabled
<1>5. \A i \in 1..8 : tbl[i] # NULL => tbl[i].by \in {"ROW", "COLUMN"} /\ tbl[i].once = FALSE
                                       /\ (tbl[i].by = "ROW" <=> i < 5)
    BY ReaderFacts, EntriesAre
<1>6. ASSUME NEW i \in 1..8, skip[i] # 0, skip'[i] = 0
      PROVE  i < 5 /\ tbl[i].at < row
  <2>1. i \in Reader!Enabled \ Reader!Enabled'
      BY <1>6, ReaderLayout DEF Reader!Enabled
  <2>2. tbl[i] # NULL
      BY <1>6, ReaderFacts
  <2> QED
      BY <1>3, <1>5, <2>1, <2>2
<1>7. CallInv'
  <2> SUFFICES ASSUME place' = "call"
               PROVE  IF at' = 0
                        THEN \A i \in 1..8 : skip'[i] # 0 =>
                                 ~ \/ tbl[i].by = "ROW" /\ tbl[i].at = row
                                   \/ tbl[i].by = "COLUMN" /\ tbl[i].at = col
                        ELSE /\ at' \in 1..8 /\ tbl[at'] # NULL
                             /\ \/ tbl[at'].by = "ROW" /\ tbl[at'].at = row
                                \/ tbl[at'].by = "COLUMN" /\ tbl[at'].at = col
      BY <1>3 DEF CallInv, On, Matches
  <2>1. CASE at' = 0
      BY <1>3, <2>1, ReaderLayout DEF Reader!Enabled, Reader!Promised!Matches
  <2>2. CASE at' # 0
      BY <1>3, <1>5, <2>2, ReaderLayout DEF Reader!Promised!Matches
  <2> QED
      BY <2>1, <2>2
<1>8. place' = "call" /\ at' # 0 => skip[at'] # 0
    BY <1>3 DEF Reader!Enabled
<1> QED
    BY <1>2, <1>3, <1>4, <1>6, <1>7, <1>8

-----------------------------------------------------------------------------
(* The invariant: where the walk stands, and what is registered *)

(* The default entry was cleared with the metadata's absent column: no file is *)
(* read any more.  Otherwise the reader is sound.                           *)
Broken == tbl[0] = NULL

StandInv ==
    /\ file \in Files /\ row \in Nat /\ col \in Nat
    /\ phase \in {"begin", "open", "reading", "read", "year", "clear_year", "wait",
                  "record", "recorded", "failed", "crash", "loop"}
    /\ phase = "reading" <=> place # "out"
    /\ phase \in {"begin", "year"} => file = Codes
    /\ file = Codes => phase \in {"begin", "open", "reading", "read", "year"}
    /\ phase = "reading" =>
          /\ row <= Rows[file] + 1 /\ col <= LastCol[file] + 1
          /\ row > Rows[file] => place = "row" /\ col = 0
          /\ place \in {"search", "columns", "call"} => col <= LastCol[file]
          /\ place = "eor" => col = LastCol[file] + 1
    /\ IF Broken THEN \/ file = Meta /\ phase \in {"clear_year", "loop", "wait"}
                      \/ file = POPT /\ phase \in {"open", "crash"}
                 ELSE Reader!SafeInv

SetInv ==
    /\ file = Codes => default_callback = "none" /\ eor_callback = "none"
    /\ file # Codes /\ phase = "reading" =>
          /\ default_callback = "data"
          /\ eor_callback = IF row = 0 THEN "wait" ELSE "flush"
    /\ ignore_empty <=> ~ (file = Meta /\ phase \in {"reading", "read"})

(* The header's callback is in slot 2.  It registers the three columns as it    *)
(* comes to them, from the first column slot on.                            *)
InCodes == file = Codes /\ phase \in {"open", "reading", "read"}

HeaderShape ==
    /\ tbl[2] = HeaderCallback /\ callback_ids[5] = 0
    /\ On(2) => callback_ids[0] = 2
    /\ place = "call" /\ at = 2 => On(2)
    /\ \A k \in 1..3 : callback_ids[k] # 0 =>
          /\ callback_ids[k] \in 5..7
          /\ \E c \in DOMAIN CodesHeader :
                /\ tbl[callback_ids[k]] = CodeCallback(c)
                /\ CodesHeader[c] \in Details /\ IdOf(CodesHeader[c]) = k
          /\ \A l \in 1..3 : callback_ids[k] = callback_ids[l] => k = l
    /\ \A i \in 5..7 : tbl[i] # NULL =>
          /\ \E k \in 1..3 : callback_ids[k] = i
          /\ i > 5 => tbl[i - 1] # NULL
          /\ phase # "open"
          /\ phase = "reading" /\ row = 0 =>
                tbl[i].at < col \/ (place = "call" /\ at = 2 /\ tbl[i].at = col)

(* The years' callback is in slot 2 and those of the first columns are in 5 to  *)
(* 7, as far as they are registered, and enabled.                           *)
DataShape ==
    /\ callback_ids[3] = 0
    /\ callback_ids[1] \in {0, 5} /\ callback_ids[2] \in {0, 6} /\ callback_ids[5] \in {0, 7}
    /\ callback_ids[2] # 0 => callback_ids[1] # 0
    /\ callback_ids[5] # 0 => /\ callback_ids[2] # 0
                              /\ file = Meta /\ phase \in {"reading", "read"}
    /\ tbl[2] = IF callback_ids[0] = 0 THEN NULL ELSE YearCallback
    /\ tbl[5] = IF callback_ids[1] = 0 THEN NULL ELSE CountryCallback(0)
    /\ tbl[6] = IF callback_ids[2] = 0 THEN NULL ELSE CountryCallback(1)
    /\ tbl[7] = IF callback_ids[5] = 0 THEN NULL ELSE CountryCallback(2)
    /\ ~ Broken => \A i \in 5..7 : tbl[i] # NULL => On(i)
    /\ file = Codes => callback_ids[0] = 0 /\ callback_ids[1] = 0
    /\ phase = "reading" /\ row > 0 =>
          /\ callback_ids[1] # 0 /\ callback_ids[2] # 0
          /\ file = Meta => callback_ids[5] # 0
    /\ file = CO2E /\ (phase = "open" \/ (phase = "reading" /\ row = 0)) =>
          callback_ids[0] = 2 /\ On(2)

ShapeInv ==
    /\ tbl \in [0..9 -> Entries \cup {Reader!DefaultEntry, NULL}]
    /\ tbl[1] = NULL /\ tbl[3] = NULL /\ tbl[4] = NULL /\ tbl[8] = NULL
    /\ callback_ids \in [0..5 -> {0, 2, 5, 6, 7}]
    /\ callback_ids[0] \in {0, 2} /\ callback_ids[4] = 0
    /\ IF InCodes THEN HeaderShape ELSE DataShape

CtrlInv == StandInv /\ SetInv /\ ShapeInv /\ CallInv

-----------------------------------------------------------------------------
(* Where the walk stands: from file to file *)

LEMMA CtrlFacts ==
    ASSUME CtrlInv
    PROVE  /\ StandInv /\ SetInv /\ ShapeInv /\ CallInv
           /\ ~ Broken => Reader!SafeInv
           /\ file \in {0, 1, 2, 3} /\ Rows[file] \in Nat /\ LastCol[file] \in Nat
           /\ 0 \in DOMAIN Rows
BY FilesAre, Sizes, UpdateAssumption DEF CtrlInv, StandInv

LEMMA CtrlInit == Init => CtrlInv
<1> SUFFICES ASSUME Init
             PROVE  CtrlInv
    OBVIOUS
<1>1. Reader!Init
    BY SameReader DEF Init
<1>2. Reader!SafeInv
    BY <1>1, ReaderAssumption, Reader!SafeInit
<1>3. /\ tbl = [i \in 0..9 |-> IF i = 0 THEN Reader!DefaultEntry ELSE NULL]
      /\ row = 0 /\ col = 0 /\ place = "out" /\ at = 0
    BY <1>1, ReaderLayout DEF Reader!Init
<1>4. tbl[0] # NULL
  <2>1. Reader!DefaultEntry = Csv!DefaultEntry
      BY DEF Reader!DefaultEntry, Csv!DefaultEntry
  <2> QED
      BY <1>3, <2>1, EntriesAssumption
<1>5. StandInv
    BY <1>2, <1>3, <1>4, FilesAre DEF StandInv, Init, Broken
<1>6. SetInv
    BY FilesAre DEF SetInv, Init
<1>7. ShapeInv
    BY <1>3, FilesAre DEF ShapeInv, DataShape, Init, InCodes, Broken
<1> QED
    BY <1>3, <1>5, <1>6, <1>7 DEF CtrlInv, CallInv

LEMMA CtrlBegin ==
    ASSUME CtrlInv, Begin
    PROVE  CtrlInv'
<1> USE CtrlFacts, FilesAre
<1>1. /\ phase = "begin" /\ phase' = "open" /\ file = 0 /\ file' = 0 /\ place = "out"
      /\ Csv!Enlist(HeaderCallback)
      /\ callback_ids' = [callback_ids EXCEPT ![0] = Csv!SlotFor(HeaderCallback)]
      /\ UNCHANGED <<readerVars, setVars>> /\ UNCHANGED readerVars
    BY DEF Begin, Register, StandInv
<1>2. /\ ~ Broken /\ Reader!SafeInv
      /\ callback_ids[0] = 0 /\ callback_ids[1] = 0 /\ callback_ids[2] = 0
      /\ callback_ids[3] = 0 /\ callback_ids[4] = 0 /\ callback_ids[5] = 0
      /\ tbl \in [0..9 -> Entries \cup {Reader!DefaultEntry, NULL}]
      /\ \A i \in 1..8 : tbl[i] = NULL
    BY <1>1 DEF StandInv, ShapeInv, DataShape, InCodes
<1>3. HeaderCallback \in Entries /\ First(HeaderCallback) = 2 /\ Past(HeaderCallback) = 5
    BY DEF HeaderCallback, Callback, Entries, First, Past
<1>4. /\ Csv!SlotFor(HeaderCallback) = 2
      /\ tbl' = [tbl EXCEPT ![2] = HeaderCallback]
      /\ Reader!SafeInv'
  <2> DEFINE e == HeaderCallback
  <2>1. /\ e \in Entries /\ Csv!Enlist(e) /\ First(e) <= 2 /\ 2 < Past(e)
        /\ \A k \in 1..8 : First(e) <= k /\ k < 2 => tbl[k] # NULL /\ tbl[k].at < e.at
        /\ \A k \in 1..8 : 2 <= k /\ k < Past(e) => tbl[k] = NULL
        /\ place \in {"out", "call", "eor"} /\ UNCHANGED readerVars
      BY <1>1, <1>2, <1>3
  <2> HIDE DEF e
  <2>2. 2 \in 1..8
      OBVIOUS
  <2>3. Csv!SlotFor(e) = 2 /\ tbl' = [tbl EXCEPT ![2] = e] /\ Reader!SafeInv'
      BY <1>2, <2>1, <2>2, EnlistEffect
  <2> QED
      BY <2>3 DEF e
<1>5. row' = row /\ col' = col /\ place' = place /\ at' = at
    BY <1>1 DEF readerVars
<1>6. StandInv'
    BY <1>1, <1>2, <1>4, <1>5 DEF StandInv, Broken
<1>7. SetInv'
    BY <1>1, <1>5 DEF SetInv, setVars
<1>8. ShapeInv'
    BY <1>1, <1>2, <1>3, <1>4, <1>5 DEF ShapeInv, HeaderShape, InCodes
<1> QED
    BY <1>1, <1>5, <1>6, <1>7, <1>8 DEF CtrlInv, CallInv

LEMMA ReadFileEffect ==
    ASSUME CtrlInv, ~ Broken, phase = "open", ReadFile
    PROVE  /\ tbl' = tbl /\ skip' = skip /\ Reader!SafeInv' /\ CallInv'
           /\ row' \in Nat /\ col' \in Nat
           /\ \/ phase' = "read" /\ place' = "out"
              \/ phase' = "reading" /\ place' = "row" /\ row' = 0 /\ col' = 0
<1> USE CtrlFacts
<1>1. CASE Csv!StartFile /\ phase' = "reading"
  <2>1. UNCHANGED tableVars /\ row' = 0 /\ col' = 0 /\ place' = "row"
      BY <1>1 DEF Csv!StartFile, Csv!Move, Csv!tableVars, tableVars
  <2>2. Reader!SafeInv' /\ CallInv'
      BY <1>1, <2>1, MoveEffect
  <2> QED
      BY <1>1, <2>1, <2>2 DEF tableVars
<1>2. CASE phase' = "read" /\ UNCHANGED <<tableVars, readerVars>>
  <2>1. UNCHANGED <<Reader!tableVars, Reader!readerVars>>
      BY <1>2 DEF tableVars, readerVars, Reader!tableVars, Reader!readerVars
  <2>2. Reader!SafeInv'
      BY <2>1, ReaderAssumption, Reader!SafeStutters DEF Reader!vars
  <2>3. place = "out" /\ row \in Nat /\ col \in Nat
      BY DEF StandInv
  <2> QED
      BY <1>2, <2>2, <2>3 DEF tableVars, readerVars, CallInv
<1> QED
    BY <1>1, <1>2 DEF ReadFile

LEMMA CtrlOpenCodes ==
    ASSUME CtrlInv, OpenCodes
    PROVE  CtrlInv'
<1> USE CtrlFacts, FilesAre
<1>1. /\ phase = "open" /\ file = 0 /\ file' = 0 /\ ReadFile
      /\ UNCHANGED <<setVars, callback_ids>>
    BY DEF OpenCodes
<1>2. ~ Broken /\ Reader!SafeInv
    BY <1>1 DEF StandInv
<1>3. /\ tbl' = tbl /\ skip' = skip /\ Reader!SafeInv' /\ CallInv'
      /\ row' \in Nat /\ col' \in Nat
      /\ \/ phase' = "read" /\ place' = "out"
         \/ phase' = "reading" /\ place' = "row" /\ row' = 0 /\ col' = 0
    BY <1>1, <1>2, ReadFileEffect
<1>4. StandInv'
    BY <1>1, <1>2, <1>3 DEF StandInv, Broken
<1>5. SetInv'
    BY <1>1 DEF SetInv, setVars
<1>6. ShapeInv'
    BY <1>1, <1>3 DEF ShapeInv, HeaderShape, InCodes, On
<1> QED
    BY <1>3, <1>4, <1>5, <1>6 DEF CtrlInv

LEMMA CtrlOpenData ==
    ASSUME CtrlInv, OpenData
    PROVE  CtrlInv'
<1> USE CtrlFacts, FilesAre
<1>1. /\ phase = "open" /\ file \in {1, 3} /\ ~ Broken /\ Reader!SafeInv
      /\ eor_callback' = "wait" /\ default_callback' = "data"
      /\ ignore_empty' = ignore_empty /\ callback_ids' = callback_ids
    BY DEF OpenData, Broken
<1>2. CASE ReadFile /\ UNCHANGED file
  <2>1. /\ tbl' = tbl /\ skip' = skip /\ Reader!SafeInv' /\ CallInv'
        /\ row' \in Nat /\ col' \in Nat
        /\ \/ phase' = "read" /\ place' = "out"
           \/ phase' = "reading" /\ place' = "row" /\ row' = 0 /\ col' = 0
      BY <1>1, <1>2, ReadFileEffect
  <2>2. StandInv'
      BY <1>1, <1>2, <2>1 DEF StandInv, Broken
  <2>3. SetInv'
      BY <1>1, <1>2, <2>1 DEF SetInv
  <2>4. ShapeInv'
      BY <1>1, <1>2, <2>1 DEF ShapeInv, DataShape, InCodes, On, Broken
  <2> QED
      BY <2>1, <2>2, <2>3, <2>4 DEF CtrlInv
<1>3. CASE NextFile /\ UNCHANGED <<tableVars, readerVars>>
  <2>1. /\ UNCHANGED <<Reader!tableVars, Reader!readerVars>>
        /\ tbl' = tbl /\ skip' = skip /\ row' = row /\ col' = col /\ place' = place
        /\ place = "out"
      BY <1>1, <1>3
      DEF tableVars, readerVars, Reader!tableVars, Reader!readerVars, StandInv
  <2>2. Reader!SafeInv'
      BY <1>1, <2>1, ReaderAssumption, Reader!SafeStutters DEF Reader!vars
  <2>3. \/ file = 1 /\ file' = 2 /\ phase' = "open"
        \/ file = 3 /\ file' = 3 /\ phase' = "record"
      BY <1>1, <1>3 DEF NextFile
  <2>4. StandInv'
      BY <1>1, <2>1, <2>2, <2>3 DEF StandInv, Broken
  <2>5. SetInv'
      BY <1>1, <2>3 DEF SetInv
  <2>6. ShapeInv'
      BY <1>1, <2>1, <2>3 DEF ShapeInv, DataShape, InCodes, On, Broken
  <2> QED
      BY <2>1, <2>4, <2>5, <2>6 DEF CtrlInv, CallInv
<1> QED
    BY <1>2, <1>3 DEF OpenData

LEMMA CtrlOpenMeta ==
    ASSUME CtrlInv, OpenMeta
    PROVE  CtrlInv'
<1> USE CtrlFacts, FilesAre
<1>1. /\ phase = "open" /\ file = 2 /\ file' = 2 /\ ~ Broken /\ Reader!SafeInv
      /\ eor_callback' = "wait" /\ default_callback' = "data"
      /\ ignore_empty' = ~ ignore_empty /\ callback_ids' = callback_ids /\ ReadFile
    BY DEF OpenMeta, Broken
<1>2. /\ tbl' = tbl /\ skip' = skip /\ Reader!SafeInv' /\ CallInv'
      /\ row' \in Nat /\ col' \in Nat
      /\ \/ phase' = "read" /\ place' = "out"
         \/ phase' = "reading" /\ place' = "row" /\ row' = 0 /\ col' = 0
    BY <1>1, ReadFileEffect
<1>3. StandInv'
    BY <1>1, <1>2 DEF StandInv, Broken
<1>4. SetInv'
  <2>1. ignore_empty
      BY <1>1 DEF SetInv
  <2>2. ~ ignore_empty'
      BY <1>1, <2>1, Zenon
  <2> QED
      BY <1>1, <1>2, <2>2 DEF SetInv
<1>5. ShapeInv'
    BY <1>1, <1>2 DEF ShapeInv, DataShape, InCodes, On, Broken
<1> QED
    BY <1>2, <1>3, <1>4, <1>5 DEF CtrlInv

(* The steps between files that leave the callbacks alone.                   *)
LEMMA CtrlBetween ==
    ASSUME CtrlInv, OpenCrashes \/ AfterData \/ Wait \/ Record
    PROVE  CtrlInv'
<1> USE CtrlFacts, FilesAre
<1>1. /\ UNCHANGED <<tableVars, readerVars, setVars, callback_ids>>
      /\ file # 0 /\ phase # "reading" /\ phase' # "reading"
      /\ \/ phase = "open" /\ phase' = "crash" /\ file' = file /\ Broken
         \/ phase = "read" /\ phase' = "clear_year" /\ file' = file /\ file # 2
         \/ phase = "wait" /\ phase' = "open" /\ file' = file + 1 /\ file < 3
         \/ phase = "wait" /\ phase' = "record" /\ file' = file /\ file = 3
         \/ phase = "record" /\ phase' \in {"recorded", "failed"} /\ file' = file
    BY DEF OpenCrashes, AfterData, Wait, WaitWhen, NextFile, Record, StandInv, Broken
<1>2. /\ tbl' = tbl /\ skip' = skip /\ row' = row /\ col' = col /\ place' = place
      /\ place = "out" /\ at' = at
      /\ UNCHANGED <<Reader!tableVars, Reader!readerVars>>
    BY <1>1 DEF tableVars, readerVars, Reader!tableVars, Reader!readerVars, StandInv
<1>3. ~ Broken => Reader!SafeInv'
    BY <1>2, ReaderAssumption, Reader!SafeStutters DEF Reader!vars
<1>4. StandInv'
    BY <1>1, <1>2, <1>3 DEF StandInv, Broken
<1>5. SetInv'
    BY <1>1 DEF SetInv, setVars
<1>6. ShapeInv'
    BY <1>1, <1>2 DEF ShapeInv, DataShape, InCodes, On, Broken
<1> QED
    BY <1>2, <1>4, <1>5, <1>6 DEF CtrlInv, CallInv

LEMMA CtrlAfterCodes ==
    ASSUME CtrlInv, AfterCodes
    PROVE  CtrlInv'
<1> USE CtrlFacts, FilesAre
<1>1. /\ phase = "read" /\ file = 0 /\ phase' = "year" /\ file' = 0 /\ Csv!ClearAll
      /\ callback_ids' = [k \in 0..5 |-> 0] /\ UNCHANGED setVars /\ UNCHANGED readerVars
      /\ ~ Broken /\ place = "out"
    BY DEF AfterCodes, StandInv
<1>2. /\ tbl'[0] = tbl[0]
      /\ \A i \in 1..8 : tbl'[i] = NULL /\ skip'[i] = 0
      /\ Reader!SafeInv'
    BY <1>1, ClearAllEffect
<1>3. row' = row /\ col' = col /\ place' = place /\ at' = at
    BY <1>1 DEF readerVars
<1>4. StandInv'
    BY <1>1, <1>2, <1>3 DEF StandInv, Broken
<1>5. SetInv'
    BY <1>1 DEF SetInv, setVars
<1>6. tbl' \in [0..9 -> Entries \cup {Reader!DefaultEntry, NULL}]
    BY <1>1, ReaderLayout DEF Csv!ClearAll, ShapeInv
<1>7. ShapeInv'
    BY <1>1, <1>2, <1>6 DEF ShapeInv, DataShape, InCodes
<1> QED
    BY <1>1, <1>3, <1>4, <1>5, <1>7 DEF CtrlInv, CallInv

LEMMA CtrlRegisterYear ==
    ASSUME CtrlInv, RegisterYear
    PROVE  CtrlInv'
<1> USE CtrlFacts, FilesAre
<1>1. /\ phase = "year" /\ phase' = "open" /\ file = 0 /\ file' = 1 /\ place = "out"
      /\ Csv!Enlist(YearCallback)
      /\ callback_ids' = [callback_ids EXCEPT ![0] = Csv!SlotFor(YearCallback)]
      /\ UNCHANGED setVars /\ UNCHANGED readerVars
    BY DEF RegisterYear, Register, StandInv
<1>2. /\ ~ Broken /\ Reader!SafeInv
      /\ callback_ids[0] = 0 /\ callback_ids[1] = 0 /\ callback_ids[2] = 0
      /\ callback_ids[3] = 0 /\ callback_ids[4] = 0 /\ callback_ids[5] = 0
      /\ tbl \in [0..9 -> Entries \cup {Reader!DefaultEntry, NULL}]
      /\ \A i \in 1..8 : tbl[i] = NULL
    BY <1>1 DEF StandInv, ShapeInv, DataShape, InCodes
<1>3. YearCallback \in Entries /\ First(YearCallback) = 2 /\ Past(YearCallback) = 5
    BY DEF YearCallback, Callback, Entries, First, Past
<1>4. /\ Csv!SlotFor(YearCallback) = 2
      /\ tbl' = [tbl EXCEPT ![2] = YearCallback]
      /\ skip'[2] # 0
      /\ Reader!SafeInv'
  <2> DEFINE e == YearCallback
  <2>1. /\ e \in Entries /\ Csv!Enlist(e) /\ First(e) <= 2 /\ 2 < Past(e)
        /\ \A k \in 1..8 : First(e) <= k /\ k < 2 => tbl[k] # NULL /\ tbl[k].at < e.at
        /\ \A k \in 1..8 : 2 <= k /\ k < Past(e) => tbl[k] = NULL
        /\ place \in {"out", "call", "eor"} /\ UNCHANGED readerVars
      BY <1>1, <1>2, <1>3
  <2> HIDE DEF e
  <2>2. 2 \in 1..8
      OBVIOUS
  <2>3. /\ Csv!SlotFor(e) = 2 /\ tbl' = [tbl EXCEPT ![2] = e] /\ Reader!SafeInv'
        /\ \A i \in 1..8 : skip'[i] # 0 <=> (skip[i] # 0 \/ i = 2)
      BY <1>2, <2>1, <2>2, EnlistEffect
  <2> QED
      BY <2>2, <2>3 DEF e
<1>5. row' = row /\ col' = col /\ place' = place /\ at' = at
    BY <1>1 DEF readerVars
<1>6. StandInv'
    BY <1>1, <1>2, <1>4, <1>5 DEF StandInv, Broken
<1>7. SetInv'
    BY <1>1, <1>5 DEF SetInv, setVars
<1>8. ShapeInv'
    BY <1>1, <1>2, <1>3, <1>4, <1>5 DEF ShapeInv, DataShape, InCodes, On
<1> QED
    BY <1>1, <1>5, <1>6, <1>7, <1>8 DEF CtrlInv, CallInv

LEMMA CtrlAfterMeta ==
    ASSUME CtrlInv, AfterMeta
    PROVE  CtrlInv'
<1> USE CtrlFacts, FilesAre
<1>1. /\ phase = "read" /\ file = 2 /\ phase' = "clear_year" /\ file' = 2
      /\ Csv!Clear(callback_ids[5])
      /\ callback_ids' = [callback_ids EXCEPT ![5] = 0]
      /\ ignore_empty' = ~ ignore_empty
      /\ eor_callback' = eor_callback /\ default_callback' = default_callback
      /\ UNCHANGED readerVars
      /\ ~ Broken /\ Reader!SafeInv /\ place = "out"
    BY DEF AfterMeta, AfterMetaClearing, SetId, StandInv
<1>2. row' = row /\ col' = col /\ place' = place /\ at' = at
    BY <1>1 DEF readerVars
<1>3. SetInv'
    BY <1>1 DEF SetInv
<1>4. CASE callback_ids[5] = 0
  <2>1. tbl' = [tbl EXCEPT ![0] = NULL]
      BY <1>1, <1>4 DEF Csv!Clear, Csv!ClearWith
  <2>2. ShapeInv'
      BY <1>1, <1>2, <1>4, <2>1 DEF ShapeInv, DataShape, InCodes, Broken
  <2>3. tbl'[0] = NULL
      BY <2>1 DEF ShapeInv
  <2>4. StandInv'
      BY <1>1, <1>2, <2>3 DEF StandInv, Broken
  <2> QED
      BY <1>1, <1>2, <1>3, <2>2, <2>4 DEF CtrlInv, CallInv
<1>5. CASE callback_ids[5] = 7
  <2>1. /\ tbl' = [tbl EXCEPT ![7] = NULL]
        /\ \A i \in 1..8 : skip'[i] # 0 <=> (skip[i] # 0 /\ i # 7)
        /\ Reader!SafeInv'
      BY <1>1, <1>5, ClearEffect
  <2>2. ShapeInv'
      BY <1>1, <1>2, <1>5, <2>1 DEF ShapeInv, DataShape, InCodes, Broken, On
  <2>3. tbl'[0] = tbl[0]
      BY <2>1 DEF ShapeInv
  <2>4. StandInv'
      BY <1>1, <1>2, <2>1, <2>3 DEF StandInv, Broken
  <2> QED
      BY <1>1, <1>2, <1>3, <2>2, <2>4 DEF CtrlInv, CallInv
<1> QED
    BY <1>1, <1>4, <1>5 DEF ShapeInv, DataShape, InCodes

LEMMA CtrlClearYear ==
    ASSUME CtrlInv, ClearYear
    PROVE  CtrlInv'
<1> USE CtrlFacts, FilesAre
<1>1. /\ phase = "clear_year" /\ file' = file /\ file # 0 /\ place = "out"
      /\ phase' \in {"wait", "loop"} /\ UNCHANGED setVars /\ UNCHANGED readerVars
    BY DEF ClearYear, StandInv
<1>2. row' = row /\ col' = col /\ place' = place /\ at' = at
    BY <1>1 DEF readerVars
<1>3. SetInv'
    BY <1>1 DEF SetInv, setVars
<1>4. CASE UNCHANGED <<tableVars, callback_ids>> /\ (phase' = "loop" => Broken)
           /\ (callback_ids[0] = 0 \/ Broken)
  <2>1. tbl' = tbl /\ skip' = skip /\ callback_ids' = callback_ids
      BY <1>4 DEF tableVars
  <2>2. ~ Broken => Reader!SafeInv'
    <3>1. UNCHANGED <<Reader!tableVars, Reader!readerVars>>
        BY <1>1, <1>4 DEF tableVars, readerVars, Reader!tableVars, Reader!readerVars
    <3> QED
        BY <3>1, ReaderAssumption, Reader!SafeStutters DEF Reader!vars
  <2>3. StandInv'
      BY <1>1, <1>2, <2>1, <2>2 DEF StandInv, Broken
  <2>4. ShapeInv'
      BY <1>1, <1>2, <2>1 DEF ShapeInv, DataShape, InCodes, Broken, On
  <2> QED
      BY <1>1, <1>2, <1>3, <2>3, <2>4 DEF CtrlInv, CallInv
<1>5. CASE Csv!Clear(callback_ids[0]) /\ callback_ids[0] # 0 /\ skip[0] # 0
           /\ phase' = "wait" /\ callback_ids' = [callback_ids EXCEPT ![0] = 0]
  <2>1. callback_ids[0] = 2
      BY <1>5 DEF ShapeInv
  <2>2. tbl' = [tbl EXCEPT ![2] = NULL]
      BY <1>5, <2>1 DEF Csv!Clear, Csv!ClearWith
  <2>3. ~ Broken => /\ Reader!SafeInv'
                    /\ \A i \in 1..8 : skip'[i] # 0 <=> (skip[i] # 0 /\ i # 2)
      BY <1>1, <1>5, <2>1, ClearEffect
  <2>4. tbl'[0] = tbl[0]
      BY <2>2 DEF ShapeInv
  <2>5. StandInv'
      BY <1>1, <1>2, <1>5, <2>3, <2>4 DEF StandInv, Broken
  <2>6. ShapeInv'
      BY <1>1, <1>2, <1>5, <2>1, <2>2, <2>3, <2>4
      DEF ShapeInv, DataShape, InCodes, Broken, On
  <2> QED
      BY <1>1, <1>2, <1>3, <2>5, <2>6 DEF CtrlInv, CallInv
<1>6. ~ Broken => skip[0] # 0
    BY ReaderFacts
<1> QED
    BY <1>4, <1>5, <1>6 DEF ClearYear, SetId

-----------------------------------------------------------------------------
(* Where the walk stands: in a file *)

LEMMA ReadingFacts ==
    ASSUME CtrlInv, place # "out"
    PROVE  /\ phase = "reading" /\ ~ Broken /\ Reader!SafeInv
           /\ row \in Nat /\ col \in Nat
           /\ row <= Rows[file] + 1 /\ col <= LastCol[file] + 1
           /\ row > Rows[file] => place = "row" /\ col = 0
BY CtrlFacts DEF StandInv

LEMMA CtrlReadCell ==
    ASSUME CtrlInv, ReadCell
    PROVE  CtrlInv'
<1> USE CtrlFacts, FilesAre
<1>1. /\ phase = "reading" /\ phase' = phase /\ file' = file
      /\ row <= Rows[file] /\ col <= LastCol[file]
      /\ UNCHANGED setVars /\ callback_ids' = callback_ids
      /\ Csv!SkipField \/ Csv!Field("cell")
    BY DEF ReadCell, fileVars
<1>2. /\ ~ Broken /\ Reader!SafeInv /\ row \in Nat /\ col \in Nat
    BY <1>1, ReadingFacts DEF StandInv
<1>3. /\ tbl' = tbl /\ skip' = skip /\ row' = row /\ place = "row" /\ UNCHANGED tableVars
      /\ \/ place' = "row" /\ col' = col + 1
         \/ place' = "search" /\ col' = col
    BY <1>1 DEF Csv!SkipField, Csv!Field, Csv!Move, Csv!tableVars, tableVars
<1>4. Reader!SafeInv' /\ CallInv'
    BY <1>1, <1>2, <1>3, MoveEffect, FieldEffect
<1>5. StandInv'
    BY <1>1, <1>2, <1>3, <1>4 DEF StandInv, Broken
<1>6. SetInv'
    BY <1>1, <1>3 DEF SetInv, setVars
<1>7. ShapeInv'
  <2>1. InCodes => HeaderShape'
    <3> SUFFICES ASSUME InCodes, HeaderShape
                 PROVE  HeaderShape'
        BY DEF ShapeInv
    <3>1. \A i \in 5..7 : tbl[i] # NULL => tbl[i].at \in Nat
        BY <1>2, ReaderFacts, EntriesAre
    <3> QED
        BY <1>1, <1>2, <1>3, <3>1 DEF HeaderShape, InCodes, On
  <2>2. ~ InCodes => DataShape'
      BY <1>1, <1>2, <1>3 DEF ShapeInv, DataShape, InCodes, On, Broken
  <2> QED
      BY <1>1, <1>3, <2>1, <2>2 DEF ShapeInv, InCodes
<1> QED
    BY <1>4, <1>5, <1>6, <1>7 DEF CtrlInv

LEMMA CtrlSearch ==
    ASSUME CtrlInv, Search
    PROVE  CtrlInv'
<1> USE CtrlFacts, FilesAre
<1>1. /\ Csv!Search /\ UNCHANGED fileVars /\ UNCHANGED setVars
      /\ callback_ids' = callback_ids
    BY DEF Search
<1>2. place \in {"search", "columns"}
    BY <1>1 DEF Csv!Search, Csv!SearchText, Csv!SearchRow, Csv!SearchColumns,
               Csv!SearchColumn, Csv!SearchColumnThen, Csv!SearchFails
<1>3. /\ phase = "reading" /\ phase' = phase /\ file' = file
      /\ ~ Broken /\ Reader!SafeInv /\ row \in Nat /\ col \in Nat
    BY <1>1, <1>2, ReadingFacts DEF fileVars
<1>4. /\ Reader!SafeInv' /\ CallInv'
      /\ tbl' = tbl /\ row' = row /\ col' = col
      /\ place' \in {"search", "columns", "call", "crash"}
      /\ \A i \in 1..8 : skip'[i] # 0 => skip[i] # 0
      /\ \A i \in 1..8 : skip[i] # 0 /\ skip'[i] = 0 => i < 5 /\ tbl[i].at < row
      /\ place' = "call" /\ at' # 0 => skip[at'] # 0
    BY <1>1, <1>3, SearchEffect
<1>5. StandInv'
    BY <1>2, <1>3, <1>4 DEF StandInv, Broken
<1>6. SetInv'
    BY <1>1, <1>3, <1>4 DEF SetInv, setVars
<1>7. ShapeInv'
  <2>1. InCodes => HeaderShape'
    <3> SUFFICES ASSUME InCodes, HeaderShape
                 PROVE  HeaderShape'
        BY DEF ShapeInv
    <3>1. skip'[2] # 0 => skip[2] # 0
        BY <1>4
    <3>2. tbl[2] # NULL /\ tbl[2].by = "ROW" /\ HeaderCallback # NULL
        BY EntriesAssumption DEF HeaderShape, HeaderCallback, Callback, Entries
    <3>3. place' = "call" /\ at' = 2 => skip'[2] # 0
      <4> SUFFICES ASSUME place' = "call", at' = 2
                   PROVE  skip'[2] # 0
          OBVIOUS
      <4>1. tbl[2].at = row
          BY <1>4, <3>2 DEF CallInv, Matches
      <4> QED
          BY <1>3, <1>4, <4>1
    <3>4. /\ On(2)' => callback_ids'[0] = 2
          /\ place' = "call" /\ at' = 2 => On(2)'
        BY <1>1, <1>4, <3>1, <3>3 DEF HeaderShape, On
    <3> QED
        BY <1>1, <1>2, <1>3, <1>4, <3>4 DEF HeaderShape
  <2>2. ~ InCodes => DataShape'
    <3> SUFFICES ASSUME ~ InCodes, DataShape
                 PROVE  DataShape'
        BY DEF ShapeInv
    <3>1. \A i \in 5..7 : skip[i] # 0 => skip'[i] # 0
        BY <1>4, ReaderFacts
    <3>2. row = 0 /\ tbl[2] = YearCallback /\ skip[2] # 0 => skip'[2] # 0
        BY <1>4, ReaderFacts DEF YearCallback, Callback
    <3> QED
        BY <1>1, <1>3, <1>4, <3>1, <3>2 DEF DataShape, On, Broken
  <2> QED
      BY <1>1, <1>3, <1>4, <2>1, <2>2 DEF ShapeInv, InCodes
<1> QED
    BY <1>4, <1>5, <1>6, <1>7 DEF CtrlInv

LEMMA CtrlEndRow ==
    ASSUME CtrlInv, EndRow
    PROVE  CtrlInv'
<1> USE CtrlFacts, FilesAre
<1>1. /\ phase = "reading" /\ phase' = phase /\ file' = file /\ col = LastCol[file] + 1
      /\ UNCHANGED setVars /\ callback_ids' = callback_ids /\ Csv!EndRow
    BY DEF EndRow, fileVars
<1>2. /\ ~ Broken /\ Reader!SafeInv /\ row \in Nat /\ col \in Nat /\ row <= Rows[file]
    BY <1>1, ReadingFacts DEF StandInv
<1>3. /\ tbl' = tbl /\ skip' = skip /\ row' = row /\ col' = col
      /\ place = "row" /\ place' = "eor"
    BY <1>1 DEF Csv!EndRow, Csv!Move
<1>4. Reader!SafeInv' /\ CallInv'
    BY <1>1, <1>2, EndRowEffect
<1>5. StandInv'
    BY <1>1, <1>2, <1>3, <1>4 DEF StandInv, Broken
<1>6. SetInv'
    BY <1>1, <1>3 DEF SetInv, setVars
<1>7. ShapeInv'
    BY <1>1, <1>2, <1>3 DEF ShapeInv, HeaderShape, DataShape, InCodes, On, Broken
<1> QED
    BY <1>4, <1>5, <1>6, <1>7 DEF CtrlInv

LEMMA CtrlEndFile ==
    ASSUME CtrlInv, EndFile
    PROVE  CtrlInv'
<1> USE CtrlFacts, FilesAre
<1>1. /\ phase = "reading" /\ phase' = "read" /\ file' = file /\ row = Rows[file] + 1
      /\ UNCHANGED setVars /\ callback_ids' = callback_ids /\ Csv!EndFile
    BY DEF EndFile
<1>2. /\ ~ Broken /\ Reader!SafeInv /\ row \in Nat /\ col \in Nat
    BY <1>1, ReadingFacts DEF StandInv
<1>3. /\ tbl' = tbl /\ skip' = skip /\ row' = row /\ col' = col
      /\ place = "row" /\ place' = "out" /\ UNCHANGED tableVars
    BY <1>1 DEF Csv!EndFile, Csv!Move, Csv!tableVars, tableVars
<1>4. Reader!SafeInv' /\ CallInv'
    BY <1>1, <1>2, <1>3, MoveEffect
<1>5. StandInv'
    BY <1>1, <1>2, <1>3, <1>4 DEF StandInv, Broken
<1>6. SetInv'
    BY <1>1, <1>3 DEF SetInv, setVars
<1>7. ShapeInv'
    BY <1>1, <1>2, <1>3 DEF ShapeInv, HeaderShape, DataShape, InCodes, On, Broken
<1> QED
    BY <1>4, <1>5, <1>6, <1>7 DEF CtrlInv

(* The end-of-row callback returns.                                          *)
LEMMA EorReturnEffect ==
    ASSUME CtrlInv, Csv!EorReturn, UNCHANGED tableVars
    PROVE  /\ phase = "reading" /\ ~ Broken /\ row \in Nat /\ row <= Rows[file]
           /\ Reader!SafeInv' /\ CallInv'
           /\ tbl' = tbl /\ skip' = skip /\ row' = row + 1 /\ col' = 0
           /\ place = "eor" /\ place' = "row"
<1>1. place = "eor" /\ place' = "row" /\ row' = row + 1 /\ col' = 0
    BY DEF Csv!EorReturn, Csv!Move
<1>2. /\ phase = "reading" /\ ~ Broken /\ Reader!SafeInv /\ row \in Nat /\ row <= Rows[file]
    BY <1>1, ReadingFacts, CtrlFacts
<1>3. Reader!SafeInv' /\ CallInv'
    BY <1>2, MoveEffect
<1> QED
    BY <1>1, <1>2, <1>3 DEF tableVars

LEMMA CtrlEndRowDone ==
    ASSUME CtrlInv, EndRowDone
    PROVE  CtrlInv'
<1> USE CtrlFacts, FilesAre
<1>1. /\ UNCHANGED setVars /\ callback_ids' = callback_ids /\ Csv!EorReturn
      /\ UNCHANGED tableVars /\ phase' = phase /\ file' = file
      /\ eor_callback \in {"none", "flush"}
    BY DEF EndRowDone, EorNothing, EorFlush, fileVars
<1>2. /\ phase = "reading" /\ ~ Broken /\ row \in Nat /\ row <= Rows[file]
      /\ Reader!SafeInv' /\ CallInv'
      /\ tbl' = tbl /\ skip' = skip /\ row' = row + 1 /\ col' = 0
      /\ place = "eor" /\ place' = "row"
    BY <1>1, EorReturnEffect
<1>3. file # 0 => row # 0
    BY <1>1, <1>2 DEF SetInv
<1>4. StandInv'
    BY <1>1, <1>2 DEF StandInv, Broken
<1>5. SetInv'
    BY <1>1, <1>2, <1>3 DEF SetInv, setVars
<1>6. ShapeInv'
    BY <1>1, <1>2, <1>3 DEF ShapeInv, HeaderShape, DataShape, InCodes, On, Broken
<1> QED
    BY <1>2, <1>4, <1>5, <1>6 DEF CtrlInv

LEMMA NothingWanted ==
    ASSUME Wanted = {}
    PROVE  /\ callback_ids[1] # 0 /\ callback_ids[2] # 0
           /\ file = Meta => callback_ids[5] # 0
<1>1. callback_ids[1] # 0
    BY DEF Wanted
<1>2. callback_ids[2] # 0
    BY <1>1 DEF Wanted
<1> QED
    BY <1>1, <1>2 DEF Wanted

LEMMA CtrlEorWaitDone ==
    ASSUME CtrlInv, EorWaitDone
    PROVE  CtrlInv'
<1> USE CtrlFacts, FilesAre
<1>1. /\ eor_callback = "wait" /\ eor_callback' = "flush"
      /\ default_callback' = default_callback /\ ignore_empty' = ignore_empty
      /\ callback_ids' = callback_ids /\ Csv!EorReturn
      /\ UNCHANGED tableVars /\ phase' = phase /\ file' = file
      /\ callback_ids[1] # 0 /\ callback_ids[2] # 0
      /\ file = Meta => callback_ids[5] # 0
    BY NothingWanted DEF EorWaitDone, fileVars
<1>2. /\ phase = "reading" /\ ~ Broken /\ row \in Nat /\ row <= Rows[file]
      /\ Reader!SafeInv' /\ CallInv'
      /\ tbl' = tbl /\ skip' = skip /\ row' = row + 1 /\ col' = 0
      /\ place = "eor" /\ place' = "row"
    BY <1>1, EorReturnEffect
<1>3. file # 0
    BY <1>1 DEF SetInv
<1>4. StandInv'
    BY <1>1, <1>2 DEF StandInv, Broken
<1>5. SetInv'
    BY <1>1, <1>2, <1>3 DEF SetInv
<1>6. ShapeInv'
    BY <1>1, <1>2, <1>3 DEF ShapeInv, DataShape, InCodes, On, Broken
<1> QED
    BY <1>2, <1>4, <1>5, <1>6 DEF CtrlInv

LEMMA WantedIs ==
    ASSUME NEW k \in Wanted
    PROVE  \/ k = 1 /\ callback_ids[1] = 0
           \/ k = 2 /\ callback_ids[1] # 0 /\ callback_ids[2] = 0
           \/ k = 5 /\ callback_ids[1] # 0 /\ callback_ids[2] # 0 /\ file = Meta
                    /\ callback_ids[5] = 0
<1>1. CASE callback_ids[1] = 0
    BY <1>1 DEF Wanted
<1>2. CASE callback_ids[1] # 0 /\ callback_ids[2] = 0
    BY <1>2 DEF Wanted
<1>3. CASE callback_ids[1] # 0 /\ callback_ids[2] # 0 /\ file = Meta /\ callback_ids[5] = 0
    BY <1>3 DEF Wanted
<1>4. CASE callback_ids[1] # 0 /\ callback_ids[2] # 0 /\ ~ (file = Meta /\ callback_ids[5] = 0)
    BY <1>4 DEF Wanted
<1> QED
    BY <1>1, <1>2, <1>3, <1>4

LEMMA CountryEntry ==
    \A c \in 0..2 : /\ CountryCallback(c) \in Entries
                    /\ CountryCallback(c).by = "COLUMN" /\ CountryCallback(c).at = c
                    /\ CountryCallback(c).fn = "country"
                    /\ First(CountryCallback(c)) = 5 /\ Past(CountryCallback(c)) = 9
BY DEF CountryCallback, Callback, Entries, First, Past

(* The country columns are registered one behind the other.                   *)
LEMMA CountryRegistered ==
    ASSUME CtrlInv, place = "eor", ~ InCodes, UNCHANGED readerVars,
           NEW k \in Wanted, Register(k, CountryCallback(CountryColumn(k))),
           NEW s \in {5, 6, 7}, k = IF s = 7 THEN 5 ELSE s - 4
    PROVE  /\ callback_ids' = [callback_ids EXCEPT ![k] = s]
           /\ tbl' = [tbl EXCEPT ![s] = CountryCallback(s - 5)]
           /\ \A i \in 1..8 : skip'[i] # 0 <=> (skip[i] # 0 \/ i = s)
           /\ Reader!SafeInv'
<1> USE CtrlFacts
<1>1. Reader!SafeInv /\ DataShape /\ tbl[8] = NULL
    BY ReadingFacts DEF ShapeInv
<1> DEFINE e == CountryCallback(s - 5)
<1>2. CountryColumn(k) = s - 5
    BY DEF CountryColumn
<1>3. Csv!Enlist(e) /\ callback_ids' = [callback_ids EXCEPT ![k] = Csv!SlotFor(e)]
    BY <1>2 DEF Register
<1>4. e \in Entries /\ First(e) = 5 /\ Past(e) = 9 /\ e.at = s - 5
    BY CountryEntry
<1>5. /\ \A i \in 1..8 : s <= i /\ i < 9 => tbl[i] = NULL
      /\ \A i \in 1..8 : 5 <= i /\ i < s => tbl[i] = CountryCallback(i - 5)
    BY <1>1, WantedIs DEF DataShape
<1>6. \A i \in 1..8 : 5 <= i /\ i < s => tbl[i] # NULL /\ tbl[i].at < e.at
    BY <1>4, <1>5, CountryEntry, EntriesAssumption
<1> HIDE DEF e
<1>7. /\ Csv!SlotFor(e) = s
      /\ tbl' = [tbl EXCEPT ![s] = e]
      /\ \A i \in 1..8 : skip'[i] # 0 <=> (skip[i] # 0 \/ i = s)
      /\ Reader!SafeInv'
    BY <1>1, <1>3, <1>4, <1>5, <1>6, EnlistEffect
<1> QED
    BY <1>3, <1>7 DEF e

LEMMA CtrlEorRegister ==
    ASSUME CtrlInv, EorRegister
    PROVE  CtrlInv'
<1> USE CtrlFacts, FilesAre
<1>1. /\ eor_callback = "wait" /\ place = "eor" /\ UNCHANGED setVars /\ UNCHANGED readerVars
      /\ phase' = phase /\ file' = file
    BY DEF EorRegister, fileVars
<1>2. PICK k \in Wanted : Register(k, CountryCallback(CountryColumn(k)))
    BY DEF EorRegister
<1>3. /\ phase = "reading" /\ ~ Broken /\ Reader!SafeInv /\ row = 0 /\ file # 0 /\ ~ InCodes
    BY <1>1, ReadingFacts DEF SetInv, InCodes
<1>4. PICK s \in {5, 6, 7} : k = IF s = 7 THEN 5 ELSE s - 4
  <2>1. k = 1 \/ k = 2 \/ k = 5
      BY WantedIs
  <2> QED
      BY <2>1
<1>5. /\ callback_ids' = [callback_ids EXCEPT ![k] = s]
      /\ tbl' = [tbl EXCEPT ![s] = CountryCallback(s - 5)]
      /\ \A i \in 1..8 : skip'[i] # 0 <=> (skip[i] # 0 \/ i = s)
      /\ Reader!SafeInv'
    BY <1>1, <1>2, <1>3, <1>4, CountryRegistered
<1>6. row' = row /\ col' = col /\ place' = place /\ at' = at
    BY <1>1 DEF readerVars
<1>7. tbl'[0] = tbl[0]
    BY <1>5 DEF ShapeInv
<1>8. StandInv'
    BY <1>1, <1>3, <1>5, <1>6, <1>7 DEF StandInv, Broken
<1>9. SetInv'
    BY <1>1, <1>6 DEF SetInv, setVars
<1>10. ShapeInv'
  <2>1. ShapeInv /\ DataShape /\ CountryCallback(s - 5) \in Entries
      BY <1>3, CountryEntry DEF ShapeInv
  <2>2. DataShape'
    <3>1. CASE s = 5
        BY <1>1, <1>3, <1>4, <1>5, <1>6, <2>1, <3>1, WantedIs
        DEF ShapeInv, DataShape, On, Broken
    <3>2. CASE s = 6
        BY <1>1, <1>3, <1>4, <1>5, <1>6, <2>1, <3>2, WantedIs
        DEF ShapeInv, DataShape, On, Broken
    <3>3. CASE s = 7
        BY <1>1, <1>3, <1>4, <1>5, <1>6, <2>1, <3>3, WantedIs
        DEF ShapeInv, DataShape, On, Broken
    <3> QED
        BY <3>1, <3>2, <3>3
  <2> QED
      BY <1>1, <1>3, <1>4, <1>5, <2>1, <2>2 DEF ShapeInv, InCodes
<1> QED
    BY <1>1, <1>6, <1>8, <1>9, <1>10 DEF CtrlInv, CallInv

(* Who is called.                                                            *)
LEMMA CallsAre ==
    ASSUME CtrlInv, NEW fn, Calls(fn)
    PROVE  /\ phase = "reading" /\ row \in Nat /\ col \in Nat
           /\ row <= Rows[file] /\ col <= LastCol[file]
           /\ \/ file = Codes /\ at = 0 /\ fn = "none"
              \/ file = Codes /\ at = 2 /\ fn = "codes_data_header" /\ row = 0
              \/ file = Codes /\ at \in 5..7 /\ fn \in Details /\ row > 0
                 /\ fn = CodesHeader[col]
              \/ file # Codes /\ at = 0 /\ fn = "data"
                 /\ (row > 0 => ~ col \in 0..1 /\ (file = Meta => col # 2))
                 /\ ~ (row = 0 /\ file = CO2E)
              \/ file # Codes /\ at = 2 /\ fn = "year" /\ row = 0
              \/ file # Codes /\ at = col + 5 /\ col \in 0..2 /\ fn = "country"
                 /\ (col = 2 => file = Meta)
<1> USE CtrlFacts, FilesAre
<1>1. /\ place = "call" /\ fn = (IF at = 0 THEN default_callback ELSE tbl[at].fn)
      /\ phase = "reading" /\ row \in Nat /\ col \in Nat
      /\ row <= Rows[file] /\ col <= LastCol[file]
    BY ReadingFacts DEF Calls, StandInv
<1>2. CASE InCodes
  <2>1. file = 0 /\ HeaderShape /\ default_callback = "none"
      BY <1>2 DEF InCodes, ShapeInv, SetInv
  <2>2. CASE at = 0
      BY <1>1, <2>1, <2>2
  <2>3. CASE at # 0
    <3>1. at \in 1..8 /\ tbl[at] # NULL /\ Matches(at)
        BY <1>1, <2>3 DEF CallInv
    <3>2. at = 2 \/ at \in 5..7
        BY <3>1 DEF ShapeInv
    <3>3. CASE at = 2
        BY <1>1, <2>1, <3>1, <3>3 DEF HeaderShape, HeaderCallback, Callback, Matches
    <3>4. CASE at \in 5..7
      <4>1. PICK k \in 1..3 : callback_ids[k] = at
          BY <2>1, <3>1, <3>4 DEF HeaderShape
      <4>2. PICK c \in DOMAIN CodesHeader : tbl[at] = CodeCallback(c) /\ CodesHeader[c] \in Details
          BY <2>1, <3>4, <4>1 DEF HeaderShape
      <4> QED
          BY <1>1, <1>2, <2>1, <3>1, <3>4, <4>2
          DEF CodeCallback, Callback, HeaderShape, Matches, InCodes
    <3> QED
        BY <3>2, <3>3, <3>4
  <2> QED
      BY <2>2, <2>3
<1>3. CASE ~ InCodes
  <2>1. /\ file # 0 /\ DataShape /\ default_callback = "data" /\ ~ Broken
      BY <1>1, <1>3, ReadingFacts DEF InCodes, ShapeInv, SetInv
  <2>2. CASE at = 0
    <3>1. \A i \in 1..8 : On(i) => ~ Matches(i)
        BY <1>1, <2>2 DEF CallInv
    <3>2. row = 0 /\ file = 1 => On(2) /\ tbl[2] = YearCallback
        BY <1>1, <2>1 DEF DataShape
    <3>3. row > 0 => /\ On(5) /\ tbl[5] = CountryCallback(0)
                     /\ On(6) /\ tbl[6] = CountryCallback(1)
                     /\ file = 2 => On(7) /\ tbl[7] = CountryCallback(2)
        BY <1>1, <2>1, CountryEntry, EntriesAssumption DEF DataShape
    <3>4. ~ (row = 0 /\ file = 1)
        BY <3>1, <3>2 DEF Matches, YearCallback, Callback
    <3>5. row > 0 => col # 0 /\ col # 1 /\ (file = 2 => col # 2)
        BY <3>1, <3>3, CountryEntry DEF Matches
    <3> QED
        BY <1>1, <2>1, <2>2, <3>4, <3>5
  <2>3. CASE at # 0
    <3>1. at \in 1..8 /\ tbl[at] # NULL /\ Matches(at)
        BY <1>1, <2>3 DEF CallInv
    <3>2. at = 2 \/ at \in 5..7
        BY <3>1 DEF ShapeInv
    <3>3. CASE at = 2
        BY <1>1, <2>1, <3>1, <3>3 DEF DataShape, YearCallback, Callback, Matches
    <3>4. CASE at \in 5..7
      <4>1. tbl[at] = CountryCallback(at - 5) /\ (at = 7 => file = 2)
          BY <2>1, <3>1, <3>4 DEF DataShape
      <4> QED
          BY <1>1, <2>1, <3>1, <3>4, <4>1, CountryEntry DEF Matches
    <3> QED
        BY <3>2, <3>3, <3>4
  <2> QED
      BY <2>2, <2>3
<1> QED
    BY <1>1, <1>2, <1>3

(* The callbacks that leave the table alone.                                 *)
Calling ==
    \/ NoCallback \/ CodeIso3 \/ CodeIndependency \/ CodeIso2
    \/ CountryName \/ CountryCode \/ MetaColumn \/ CountryNothing \/ Year
    \/ Data \/ DataOfMeta

LEMMA CallingKeeps ==
    ASSUME Calling
    PROVE  /\ Csv!Return /\ UNCHANGED fileVars /\ UNCHANGED tableVars /\ UNCHANGED setVars
           /\ callback_ids' = callback_ids
BY DEF Calling, NoCallback, CodeIso3, CodeIndependency, CodeIso2, CodeDetail, CountryName,
       CountryCode, MetaColumn, CountryNothing, Year, Data, DataOfMeta

LEMMA CtrlCalling ==
    ASSUME CtrlInv, Calling
    PROVE  CtrlInv'
<1> USE CtrlFacts, FilesAre
<1>1. /\ Csv!Return /\ UNCHANGED fileVars /\ UNCHANGED tableVars /\ UNCHANGED setVars
      /\ callback_ids' = callback_ids
    BY CallingKeeps
<1>2. /\ tbl' = tbl /\ skip' = skip /\ row' = row /\ col' = col + 1
      /\ place = "call" /\ place' = "row" /\ phase' = phase /\ file' = file
    BY <1>1 DEF Csv!Return, Csv!Move, tableVars, fileVars
<1>3. /\ phase = "reading" /\ ~ Broken /\ Reader!SafeInv /\ row \in Nat /\ col \in Nat
      /\ row <= Rows[file] /\ col <= LastCol[file]
    BY <1>2, ReadingFacts DEF StandInv
<1>4. Reader!SafeInv' /\ CallInv'
    BY <1>1, <1>3, MoveEffect
<1>5. StandInv'
    BY <1>2, <1>3, <1>4 DEF StandInv, Broken
<1>6. SetInv'
    BY <1>1, <1>2 DEF SetInv, setVars
<1>7. ShapeInv'
  <2>1. InCodes => HeaderShape'
    <3> SUFFICES ASSUME InCodes, HeaderShape
                 PROVE  HeaderShape'
        BY DEF ShapeInv
    <3>1. \A i \in 5..7 : tbl[i] # NULL => tbl[i].at \in Nat
        BY <1>3, ReaderFacts, EntriesAre
    <3> QED
        BY <1>1, <1>2, <1>3, <3>1 DEF HeaderShape, InCodes, On
  <2>2. ~ InCodes => DataShape'
      BY <1>1, <1>2, <1>3 DEF ShapeInv, DataShape, InCodes, On, Broken
  <2> QED
      BY <1>1, <1>2, <2>1, <2>2 DEF ShapeInv, InCodes
<1> QED
    BY <1>4, <1>5, <1>6, <1>7 DEF CtrlInv

(* The header's callback has come to a column it looks for.                   *)
LEMMA CodeEntry ==
    ASSUME NEW c \in DOMAIN CodesHeader
    PROVE  /\ CodeCallback(c) \in Entries /\ CodeCallback(c).by = "COLUMN"
           /\ CodeCallback(c).at = c /\ CodeCallback(c).fn = CodesHeader[c]
           /\ First(CodeCallback(c)) = 5 /\ Past(CodeCallback(c)) = 9
           /\ c \in Nat
<1>1. c \in Nat
    BY UpdateAssumption, Sizes, FilesAre
<1>2. CodeCallback(c) = [by |-> "COLUMN", at |-> c, once |-> FALSE, fn |-> CodesHeader[c]]
    BY DEF CodeCallback, Callback
<1>3. CodeCallback(c) \in Entries
    BY DEF Entries
<1> QED
    BY <1>1, <1>2, <1>3 DEF First, Past

LEMMA IdIs ==
    ASSUME NEW d \in Details
    PROVE  IdOf(d) \in 1..3
<1>1. CASE d = "iso_a3"
    BY <1>1 DEF IdOf
<1>2. CASE d = "iso_a2"
    BY <1>2 DEF IdOf
<1>3. CASE d = "independency"
    BY <1>3 DEF IdOf
<1> QED
    BY <1>1, <1>2, <1>3 DEF Details

(* The first column slot that is free.                                       *)
LEMMA FreeSlot ==
    ASSUME ShapeInv, HeaderShape, NEW k \in 1..3, callback_ids[k] = 0
    PROVE  \E s \in 5..7 : /\ \A i \in 1..8 : s <= i /\ i < 9 => tbl[i] = NULL
                           /\ \A i \in 1..8 : 5 <= i /\ i < s => tbl[i] # NULL
<1>1. /\ \A i \in 5..7 : tbl[i] # NULL =>
             \/ callback_ids[1] = i \/ callback_ids[2] = i \/ callback_ids[3] = i
      /\ tbl[8] = NULL
      /\ tbl[6] # NULL => tbl[5] # NULL
      /\ tbl[7] # NULL => tbl[6] # NULL
      /\ k = 1 \/ k = 2 \/ k = 3
    BY DEF ShapeInv, HeaderShape
<1>2. tbl[7] = NULL
    BY <1>1
<1>3. CASE tbl[5] = NULL
    BY <1>1, <1>2, <1>3
<1>4. CASE tbl[5] # NULL /\ tbl[6] = NULL
  <2>1. /\ \A i \in 1..8 : 6 <= i /\ i < 9 => tbl[i] = NULL
        /\ \A i \in 1..8 : 5 <= i /\ i < 6 => tbl[i] # NULL
      BY <1>1, <1>2, <1>4
  <2> QED
      BY <2>1
<1>5. CASE tbl[5] # NULL /\ tbl[6] # NULL
  <2>1. /\ \A i \in 1..8 : 7 <= i /\ i < 9 => tbl[i] = NULL
        /\ \A i \in 1..8 : 5 <= i /\ i < 7 => tbl[i] # NULL
      BY <1>1, <1>2, <1>5
  <2> QED
      BY <2>1
<1> QED
    BY <1>3, <1>4, <1>5

(* The column is registered behind the others.                               *)
LEMMA HeaderRegistered ==
    ASSUME CtrlInv, HeaderRegister
    PROVE  /\ CodesHeader[col] \in Details /\ col \in DOMAIN CodesHeader
           /\ phase = "reading" /\ file = Codes /\ row = 0
           /\ \E k \in 1..3 : \E s \in 5..7 :
                 /\ k = IdOf(CodesHeader[col]) /\ callback_ids[k] = 0
                 /\ callback_ids' = [callback_ids EXCEPT ![k] = s]
                 /\ tbl' = [tbl EXCEPT ![s] = CodeCallback(col)]
                 /\ \A i \in 1..8 : s <= i /\ i < 9 => tbl[i] = NULL
                 /\ \A i \in 1..8 : 5 <= i /\ i < s => tbl[i] # NULL /\ tbl[i].at < col
                 /\ \A i \in 1..8 : skip'[i] # 0 <=> (skip[i] # 0 \/ i = s)
                 /\ Reader!SafeInv'
<1> USE CtrlFacts, FilesAre
<1>1. /\ Calls("codes_data_header") /\ CodesHeader[col] \in Details
      /\ callback_ids[IdOf(CodesHeader[col])] = 0
      /\ Register(IdOf(CodesHeader[col]), CodeCallback(col))
      /\ UNCHANGED readerVars /\ UNCHANGED fileVars /\ UNCHANGED setVars /\ place = "call"
    BY DEF HeaderRegister, Calls
<1>2. /\ phase = "reading" /\ file = 0 /\ at = 2 /\ row = 0 /\ col \in Nat
      /\ col <= LastCol[0] /\ 0 <= Rows[0]
    BY <1>1, CallsAre DEF Details
<1>3. /\ ~ Broken /\ Reader!SafeInv /\ HeaderShape /\ InCodes
      /\ phase' = phase /\ file' = file
    BY <1>1, <1>2, ReadingFacts DEF ShapeInv, InCodes, fileVars
<1>4. col \in DOMAIN CodesHeader /\ CodeCallback(col) \in Entries
    BY <1>2, CodeEntry, UpdateAssumption, Sizes
<1> DEFINE k == IdOf(CodesHeader[col])
<1>5. k \in 1..3 /\ callback_ids[k] = 0
    BY <1>1, IdIs
<1>6. PICK s \in 5..7 : /\ \A i \in 1..8 : s <= i /\ i < 9 => tbl[i] = NULL
                        /\ \A i \in 1..8 : 5 <= i /\ i < s => tbl[i] # NULL
    BY <1>3, <1>5, FreeSlot
<1>7. \A i \in 1..8 : 5 <= i /\ i < s => tbl[i].at < col
  <2> SUFFICES ASSUME NEW i \in 5..7, i < s
               PROVE  tbl[i].at < col
      BY <1>6
  <2>1. tbl[i] # NULL
      BY <1>6
  <2>2. PICK l \in 1..3 : callback_ids[l] = i
      BY <1>3, <2>1 DEF HeaderShape
  <2>3. PICK c \in DOMAIN CodesHeader : tbl[i] = CodeCallback(c) /\ IdOf(CodesHeader[c]) = l
      BY <1>3, <2>2 DEF HeaderShape
  <2>4. c # col
      BY <1>5, <2>2, <2>3
  <2>5. tbl[i].at = c
      BY <2>3, CodeEntry
  <2> QED
      BY <1>2, <1>3, <2>1, <2>4, <2>5 DEF HeaderShape
<1>8. /\ callback_ids' = [callback_ids EXCEPT ![k] = s]
      /\ tbl' = [tbl EXCEPT ![s] = CodeCallback(col)]
      /\ \A i \in 1..8 : skip'[i] # 0 <=> (skip[i] # 0 \/ i = s)
      /\ Reader!SafeInv'
  <2> DEFINE e == CodeCallback(col)
  <2>1. e \in Entries /\ First(e) = 5 /\ Past(e) = 9 /\ e.at = col
      BY <1>4, CodeEntry
  <2>2. Csv!Enlist(e) /\ callback_ids' = [callback_ids EXCEPT ![k] = Csv!SlotFor(e)]
      BY <1>1 DEF Register
  <2>3. s \in 1..8 /\ First(e) <= s /\ s < Past(e)
      BY <2>1
  <2> HIDE DEF e, k
  <2>4. /\ Csv!SlotFor(e) = s
        /\ tbl' = [tbl EXCEPT ![s] = e]
        /\ \A i \in 1..8 : skip'[i] # 0 <=> (skip[i] # 0 \/ i = s)
        /\ Reader!SafeInv'
      BY <1>1, <1>3, <1>6, <1>7, <2>1, <2>2, <2>3, EnlistEffect
  <2> QED
      BY <2>2, <2>4 DEF e
<1> HIDE DEF k
<1> QED
    BY <1>1, <1>2, <1>4, <1>5, <1>6, <1>7, <1>8 DEF k

LEMMA CtrlHeaderRegister ==
    ASSUME CtrlInv, HeaderRegister
    PROVE  CtrlInv'
<1> USE CtrlFacts, FilesAre
<1>1. /\ Calls("codes_data_header") /\ CodesHeader[col] \in Details
      /\ callback_ids[IdOf(CodesHeader[col])] = 0
      /\ Register(IdOf(CodesHeader[col]), CodeCallback(col))
      /\ UNCHANGED readerVars /\ UNCHANGED fileVars /\ UNCHANGED setVars /\ place = "call"
    BY DEF HeaderRegister, Calls
<1>2. /\ phase = "reading" /\ file = 0 /\ at = 2 /\ row = 0 /\ col \in Nat
      /\ col <= LastCol[0] /\ 0 <= Rows[0]
    BY <1>1, CallsAre DEF Details
<1>3. /\ ~ Broken /\ Reader!SafeInv /\ HeaderShape /\ InCodes
      /\ phase' = phase /\ file' = file
    BY <1>1, <1>2, ReadingFacts DEF ShapeInv, InCodes, fileVars
<1>4. col \in DOMAIN CodesHeader /\ CodeCallback(col) \in Entries
    BY <1>2, CodeEntry, UpdateAssumption, Sizes
<1>5. PICK k \in 1..3, s \in 5..7 :
        /\ k = IdOf(CodesHeader[col]) /\ callback_ids[k] = 0
        /\ callback_ids' = [callback_ids EXCEPT ![k] = s]
        /\ tbl' = [tbl EXCEPT ![s] = CodeCallback(col)]
        /\ \A i \in 1..8 : s <= i /\ i < 9 => tbl[i] = NULL
        /\ \A i \in 1..8 : 5 <= i /\ i < s => tbl[i] # NULL /\ tbl[i].at < col
        /\ \A i \in 1..8 : skip'[i] # 0 <=> (skip[i] # 0 \/ i = s)
        /\ Reader!SafeInv'
    BY HeaderRegistered
<1>6. row' = row /\ col' = col /\ place' = place /\ at' = at
    BY <1>1 DEF readerVars
<1>7. tbl'[0] = tbl[0]
    BY <1>5 DEF ShapeInv
<1>8. StandInv'
    BY <1>3, <1>5, <1>6, <1>7 DEF StandInv, Broken
<1>9. SetInv'
    BY <1>1, <1>3, <1>6 DEF SetInv, setVars
<1>10. HeaderShape'
  <2>1. /\ tbl'[2] = HeaderCallback /\ callback_ids'[5] = 0
        /\ On(2)' => callback_ids'[0] = 2
        /\ place' = "call" /\ at' = 2 => On(2)'
      BY <1>3, <1>5, <1>6 DEF HeaderShape, ShapeInv, On
  <2>2. CodesHeader[col] \in Details /\ IdOf(CodesHeader[col]) = k
      BY <1>1, <1>5
  <2>3. ASSUME NEW l \in 1..3, callback_ids'[l] # 0
        PROVE  /\ callback_ids'[l] \in 5..7
               /\ \E c \in DOMAIN CodesHeader :
                     /\ tbl'[callback_ids'[l]] = CodeCallback(c)
                     /\ CodesHeader[c] \in Details /\ IdOf(CodesHeader[c]) = l
               /\ \A m \in 1..3 : callback_ids'[l] = callback_ids'[m] => l = m
    <3>1. \A m \in 1..3 : callback_ids'[m] = IF m = k THEN s ELSE callback_ids[m]
        BY <1>5 DEF ShapeInv
    <3>2. \A m \in 1..3 : callback_ids[m] # s
        BY <1>3, <1>4, <1>5, CodeEntry, EntriesAssumption DEF HeaderShape
    <3>3. CASE l = k
        BY <1>4, <1>5, <2>2, <3>1, <3>2, <3>3 DEF ShapeInv
    <3>4. CASE l # k
      <4>1. callback_ids[l] # 0 /\ callback_ids'[l] = callback_ids[l]
          BY <2>3, <3>1, <3>4
      <4>2. /\ callback_ids[l] \in 5..7 /\ callback_ids[l] # s
            /\ \E c \in DOMAIN CodesHeader :
                  /\ tbl[callback_ids[l]] = CodeCallback(c)
                  /\ CodesHeader[c] \in Details /\ IdOf(CodesHeader[c]) = l
            /\ \A m \in 1..3 : callback_ids[l] = callback_ids[m] => l = m
          BY <1>3, <3>2, <4>1 DEF HeaderShape
      <4>3. tbl'[callback_ids[l]] = tbl[callback_ids[l]]
          BY <1>5, <4>2 DEF ShapeInv
      <4> QED
          BY <3>1, <4>1, <4>2, <4>3
    <3> QED
        BY <3>3, <3>4
  <2>4. ASSUME NEW i \in 5..7, tbl'[i] # NULL
        PROVE  /\ \E l \in 1..3 : callback_ids'[l] = i
               /\ i > 5 => tbl'[i - 1] # NULL
               /\ tbl'[i].at < col \/ tbl'[i].at = col
    <3>1. \A j \in 5..7 : tbl'[j] = IF j = s THEN CodeCallback(col) ELSE tbl[j]
        BY <1>5 DEF ShapeInv
    <3>2. CodeCallback(col) # NULL /\ CodeCallback(col).at = col
        BY <1>4, CodeEntry, EntriesAssumption
    <3>3. CASE i = s
      <4>1. callback_ids'[k] = i
          BY <1>5, <3>3 DEF ShapeInv
      <4>2. i > 5 => tbl'[i - 1] # NULL
          BY <1>5, <3>1, <3>3
      <4> QED
          BY <1>5, <3>1, <3>2, <3>3, <4>1, <4>2
    <3>4. CASE i # s
      <4>1. tbl[i] # NULL /\ tbl'[i] = tbl[i] /\ i < s
          BY <1>5, <2>4, <3>1, <3>4
      <4>2. PICK l \in 1..3 : callback_ids[l] = i
          BY <1>3, <4>1 DEF HeaderShape
      <4>3. callback_ids'[l] = i
          BY <1>5, <4>2 DEF ShapeInv
      <4>4. i > 5 => tbl'[i - 1] # NULL
          BY <1>3, <3>1, <4>1 DEF HeaderShape
      <4> QED
          BY <1>5, <4>1, <4>3, <4>4
    <3> QED
        BY <3>3, <3>4
  <2> QED
      BY <1>1, <1>2, <1>3, <1>6, <2>1, <2>3, <2>4 DEF HeaderShape
<1>11. ShapeInv'
    BY <1>3, <1>4, <1>5, <1>10 DEF ShapeInv, InCodes
<1>12. CallInv'
  <2>1. tbl'[2] = tbl[2] /\ tbl[2] = HeaderCallback /\ HeaderCallback # NULL
      BY <1>3, <1>5, EntriesAssumption DEF HeaderShape, ShapeInv, Entries
  <2> QED
      BY <1>2, <1>6, <2>1 DEF CallInv, Matches, HeaderCallback, Callback
<1> QED
    BY <1>8, <1>9, <1>11, <1>12 DEF CtrlInv

LEMMA CtrlHeaderDone ==
    ASSUME CtrlInv, HeaderDone
    PROVE  CtrlInv'
<1> USE CtrlFacts, FilesAre
<1>1. /\ Calls("codes_data_header") /\ Csv!Return
      /\ UNCHANGED fileVars /\ UNCHANGED setVars
      /\ IF \A k \in 1..3 : callback_ids[k] # 0
           THEN Csv!Toggle(callback_ids[0]) /\ callback_ids' = [callback_ids EXCEPT ![0] = 0]
           ELSE UNCHANGED tableVars /\ callback_ids' = callback_ids
    BY DEF HeaderDone, SetId
<1>2. /\ phase = "reading" /\ file = 0 /\ at = 2 /\ row = 0 /\ col \in Nat
      /\ col <= LastCol[0]
    BY <1>1, CallsAre DEF Details
<1>3. /\ row' = row /\ col' = col + 1 /\ place = "call" /\ place' = "row"
      /\ phase' = phase /\ file' = file
    BY <1>1 DEF Csv!Return, Csv!Move, fileVars
<1>4. /\ ~ Broken /\ Reader!SafeInv /\ HeaderShape /\ InCodes
    BY <1>2, <1>3, ReadingFacts DEF ShapeInv, InCodes
<1>5. callback_ids[0] = 2 /\ skip[2] # 0
    BY <1>2, <1>3, <1>4 DEF HeaderShape, On
<1>6. /\ tbl' = tbl /\ Reader!SafeInv'
      /\ \/ callback_ids' = callback_ids /\ skip' = skip
         \/ /\ callback_ids' = [callback_ids EXCEPT ![0] = 0] /\ ~ (skip'[2] # 0)
            /\ \A i \in 1..8 : i # 2 => (skip'[i] # 0 <=> skip[i] # 0)
  <2>1. CASE UNCHANGED tableVars /\ callback_ids' = callback_ids
    <3>1. Reader!SafeInv'
        BY <1>1, <1>4, <2>1, MoveEffect
    <3> QED
        BY <2>1, <3>1 DEF tableVars
  <2>2. CASE Csv!Toggle(callback_ids[0]) /\ callback_ids' = [callback_ids EXCEPT ![0] = 0]
    <3>1. 2 \in 1..8 /\ Csv!Toggle(2)
        BY <1>5, <2>2
    <3>2. /\ tbl' = tbl /\ Reader!SafeInv'
          /\ \A i \in 1..8 : i # 2 => (skip'[i] # 0 <=> skip[i] # 0)
          /\ skip'[2] # 0 <=> skip[2] = 0
        BY <1>1, <1>4, <3>1, ToggleReturnEffect
    <3> QED
        BY <1>5, <2>2, <3>2
  <2> QED
      BY <1>1, <2>1, <2>2
<1>7. StandInv'
    BY <1>2, <1>3, <1>4, <1>6 DEF StandInv, Broken
<1>8. SetInv'
    BY <1>1, <1>2, <1>3 DEF SetInv, setVars
<1>9. HeaderShape'
  <2>1. \A i \in 5..7 : tbl[i] # NULL => tbl[i].at \in Nat
      BY <1>4, ReaderFacts, EntriesAre
  <2>2. \A k \in 1..5 : callback_ids'[k] = callback_ids[k]
      BY <1>6 DEF ShapeInv
  <2>3. On(2)' => callback_ids'[0] = 2
      BY <1>4, <1>6 DEF HeaderShape, On
  <2> QED
      BY <1>2, <1>3, <1>4, <1>6, <2>1, <2>2, <2>3 DEF HeaderShape
<1>10. ShapeInv'
    BY <1>2, <1>3, <1>4, <1>6, <1>9 DEF ShapeInv, InCodes
<1> QED
    BY <1>3, <1>7, <1>8, <1>10 DEF CtrlInv, CallInv

LEMMA CtrlStutter ==
    ASSUME CtrlInv, UNCHANGED parseVars
    PROVE  CtrlInv'
<1>1. /\ UNCHANGED <<tbl, skip, offs, row, col, place, at, field, phase, file, callback_ids,
                     eor_callback, default_callback, ignore_empty>>
    BY DEF parseVars, fileVars, tableVars, readerVars, setVars
<1>2. Reader!SafeInv => Reader!SafeInv'
    BY <1>1, ReaderAssumption, Reader!SafeStutters
    DEF Reader!vars, Reader!tableVars, Reader!readerVars
<1>3. StandInv' /\ SetInv' /\ CallInv'
    BY <1>1, <1>2, CtrlFacts DEF StandInv, SetInv, CallInv, Broken, On, Matches
<1>4. ShapeInv'
    BY <1>1, CtrlFacts DEF ShapeInv, HeaderShape, DataShape, InCodes, Broken, On
<1> QED
    BY <1>3, <1>4 DEF CtrlInv

LEMMA CtrlNext ==
    ASSUME CtrlInv, [Next]_vars
    PROVE  CtrlInv'
<1>1. CASE FromFileToFile
    BY <1>1, CtrlBegin, CtrlOpenCodes, CtrlOpenData, CtrlOpenMeta, CtrlBetween,
       CtrlAfterCodes, CtrlRegisterYear, CtrlAfterMeta, CtrlClearYear DEF FromFileToFile
<1>2. CASE InFile
  <2>1. CASE Calling
      BY <2>1, CtrlCalling
  <2> QED
      BY <1>2, <2>1, CtrlReadCell, CtrlSearch, CtrlEndRow, CtrlEndFile, CtrlEndRowDone,
         CtrlEorRegister, CtrlEorWaitDone, CtrlHeaderRegister, CtrlHeaderDone
      DEF InFile, Calling
<1>3. CASE TakeQuery \/ CompleteQuery \/ UNCHANGED vars
  <2>1. UNCHANGED parseVars
      BY <1>3 DEF TakeQuery, CompleteQuery, vars, parseVars
  <2> QED
      BY <2>1, CtrlStutter
<1> QED
    BY <1>1, <1>2, <1>3 DEF Next, Main

LEMMA CtrlCorrect == Spec => []CtrlInv
<1> QED
    BY CtrlInit, CtrlNext, PTL DEF Spec

(* IdsNameTheirCallbacks: whatever files are missing, an identifier that the    *)
(* update keeps names the callback it was given for.                        *)
THEOREM IdsNamed == Spec => []IdsNameTheirCallbacks
<1>1. CtrlInv => IdsNameTheirCallbacks
  <2> SUFFICES ASSUME CtrlInv, NEW k \in 0..5, callback_ids[k] # 0
               PROVE  /\ tbl[callback_ids[k]] # NULL
                      /\ tbl[callback_ids[k]].fn \in Meant(k)
                      /\ \A l \in 0..5 : callback_ids[l] = callback_ids[k] => l = k
      BY DEF IdsNameTheirCallbacks
  <2> USE CtrlFacts, FilesAre
  <2>1. CASE InCodes
    <3>1. /\ ShapeInv /\ HeaderShape /\ file = Codes
        BY <2>1 DEF ShapeInv, InCodes
    <3>2. k \in 0..3
        BY <3>1 DEF ShapeInv, HeaderShape
    <3>3. CASE k = 0
      <4>1. /\ callback_ids[0] = 2 /\ tbl[2] = HeaderCallback
            /\ \A l \in 0..5 : callback_ids[l] = 2 => l = 0
          BY <3>1, <3>3 DEF ShapeInv, HeaderShape
      <4>2. HeaderCallback # NULL /\ HeaderCallback.fn = "codes_data_header"
          BY EntriesAssumption DEF Entries, HeaderCallback, Callback
      <4> QED
          BY <3>1, <3>3, <4>1, <4>2 DEF Meant
    <3>4. CASE k \in 1..3
      <4>1. /\ callback_ids[k] \in 5..7
            /\ \A l \in 1..3 : callback_ids[k] = callback_ids[l] => k = l
          BY <3>1, <3>4 DEF HeaderShape
      <4>2. \A l \in 0..5 : callback_ids[l] = callback_ids[k] => l = k
          BY <3>1, <4>1 DEF ShapeInv, HeaderShape
      <4>3. PICK c \in DOMAIN CodesHeader :
                /\ tbl[callback_ids[k]] = CodeCallback(c)
                /\ CodesHeader[c] \in Details /\ IdOf(CodesHeader[c]) = k
          BY <3>1, <3>4 DEF HeaderShape
      <4>4. CodeCallback(c) # NULL /\ CodeCallback(c).fn = CodesHeader[c]
          BY CodeEntry, EntriesAssumption
      <4>5. CodesHeader[c] \in Meant(k)
        <5>1. CASE CodesHeader[c] = "iso_a3"
            BY <3>1, <4>3, <5>1 DEF IdOf, Meant
        <5>2. CASE CodesHeader[c] = "iso_a2"
            BY <3>1, <4>3, <5>2 DEF IdOf, Meant
        <5>3. CASE CodesHeader[c] = "independency"
            BY <3>1, <4>3, <5>3 DEF IdOf, Meant
        <5> QED
            BY <4>3, <5>1, <5>2, <5>3 DEF Details
      <4> QED
          BY <4>2, <4>3, <4>4, <4>5
    <3> QED
        BY <3>2, <3>3, <3>4
  <2>2. CASE ~ InCodes
    <3>1. ShapeInv /\ DataShape /\ file # Codes
        BY <2>2 DEF ShapeInv, DataShape, InCodes
    <3>2. \A l \in 0..5 : callback_ids[l] = callback_ids[k] => l = k
        BY <3>1 DEF ShapeInv, DataShape
    <3>3. CASE k = 0
      <4>1. tbl[callback_ids[k]] = YearCallback
          BY <3>1, <3>3 DEF ShapeInv, DataShape
      <4>2. YearCallback # NULL /\ YearCallback.fn = "year"
          BY EntriesAssumption DEF Entries, YearCallback, Callback
      <4> QED
          BY <3>1, <3>2, <3>3, <4>1, <4>2 DEF Meant
    <3>4. CASE k # 0
      <4>1. k \in {1, 2, 5}
          BY <3>1, <3>4 DEF ShapeInv, DataShape
      <4>2. \E c \in 0..2 : tbl[callback_ids[k]] = CountryCallback(c)
          BY <3>1, <4>1 DEF DataShape
      <4> QED
          BY <3>1, <3>2, <4>1, <4>2, CountryEntry, EntriesAssumption DEF Meant
    <3> QED
        BY <3>3, <3>4
  <2> QED
      BY <2>1, <2>2
<1> QED
    BY <1>1, CtrlCorrect, PTL
===============================================================================
