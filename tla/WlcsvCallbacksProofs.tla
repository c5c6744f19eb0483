------------------------- MODULE WlcsvCallbacksProofs -------------------------
(***************************************************************************)
(* Proofs about WlcsvCallbacks, for tables of any layout that CsvAssumption *)
(* admits, any callbacks and files of any size: the chain of enabled       *)
(* callbacks is sound, the first column still to come is never behind, and *)
(* the search through them implements the registry of CallbackSet.  The    *)
(* inductive invariant is SafeInv: each property needs the order of the    *)
(* entries in the table, and what the search has already ruled out.        *)
(***************************************************************************)
EXTENDS WlcsvCallbacks, WellFoundedInduction, TLAPS

-----------------------------------------------------------------------------
(* Sets of natural numbers                                                  *)

LEMMA MinExists ==
  ASSUME NEW S, S \subseteq Nat, S # {}
  PROVE  \E x \in S : \A y \in S : x <= y
  <1> DEFINE R == OpToRel(<, Nat)
  <1>1. IsWellFoundedOn(R, Nat)
    BY NatLessThanWellFounded
  <1>2. \A x, y \in Nat : x < y => <<x, y>> \in R
    BY DEF OpToRel
  <1> HIDE DEF R
  <1>3. PICK x \in S : \A y \in S : <<y, x>> \notin R
    BY <1>1, WFMin
  <1>4. ASSUME NEW y \in S
        PROVE  x <= y
    <2>1. x \in Nat /\ y \in Nat /\ ~ (y < x)
      BY <1>2, <1>3
    <2>2. QED
      BY <2>1
  <1>5. QED
    BY <1>4

LEMMA MinIs ==
  ASSUME NEW S, S \subseteq Nat, S # {}
  PROVE  Min(S) \in S /\ \A y \in S : Min(S) <= y
  BY MinExists DEF Min

LEMMA MaxExists ==
  ASSUME NEW S, S \subseteq Nat, S # {}, NEW n \in Nat, \A x \in S : x <= n
  PROVE  \E x \in S : \A y \in S : y <= x
  <1> DEFINE T == {n - x : x \in S}
  <1>1. T \subseteq Nat
    <2>1. \A x \in S : x \in Nat /\ x <= n
      OBVIOUS
    <2>2. \A x \in S : n - x \in Nat
      BY <2>1
    <2>3. QED
      BY <2>2
  <1>2. T # {}
    OBVIOUS
  <1>3. PICK t \in T : \A u \in T : t <= u
    BY <1>1, <1>2, MinExists
  <1>4. PICK x \in S : t = n - x
    OBVIOUS
  <1>5. ASSUME NEW y \in S
        PROVE  y <= x
    <2>1. n - y \in T
      OBVIOUS
    <2>2. n - x <= n - y
      BY <1>3, <1>4, <2>1
    <2>3. x \in Nat /\ y \in Nat
      OBVIOUS
    <2>4. QED
      BY <2>2, <2>3
  <1>6. QED
    BY <1>5

-----------------------------------------------------------------------------
(* The layout of the table, and the chain as a relation of a set and a       *)
(* function                                                                 *)

LEMMA Layout ==
  /\ RgxStart \in Nat /\ RowStart \in Nat /\ ColStart \in Nat /\ Length \in Nat /\ END \in Nat
  /\ 1 <= RgxStart /\ RgxStart <= RowStart /\ RowStart <= ColStart /\ ColStart <= Length
  /\ Length < END
  BY CsvAssumption DEF RgxStart, RowStart, ColStart, Length, WLCSV_NCALLBACKS_MAX

Chains == [Slots -> Slots \cup {END}]

Leads(E, i, n) ==
    \/ n = END /\ \A k \in E : k <= i
    \/ n \in E /\ n > i /\ \A k \in E : k > i => n <= k

On(s) == {i \in Ids : s[i] # 0}

Sound(s) == \A i \in On(s) \cup {0} : Leads(On(s), i, s[i])

LEMMA ChainIsSound ==
  ASSUME skip \in Chains
  PROVE  /\ Enabled = On(skip)
         /\ \A i \in On(skip) \cup {0} : \A n : IsNext(i, n) <=> Leads(On(skip), i, n)
  <1>1. Enabled = On(skip)
    BY DEF Enabled, On
  <1>2. ASSUME NEW i \in On(skip) \cup {0}, NEW n
        PROVE  IsNext(i, n) <=> Leads(On(skip), i, n)
    <2>1. \A k \in On(skip) : k \in Int
      BY Layout DEF On, Ids
    <2>2. i \in Int
      BY <2>1
    <2>3. Following(i) = {k \in On(skip) : k > i}
      BY <1>1 DEF Following
    <2>4. QED
      BY <2>1, <2>2, <2>3, Layout DEF IsNext, Leads, On, Ids
  <1>3. QED
    BY <1>1, <1>2

(* The link in front of slot i.                                             *)
IsBefore(s, i, b) ==
    b \in On(s) \cup {0} /\ b < i /\ s[b] >= i /\ \A k \in On(s) : k < i => k <= b

LEMMA Places0 ==
  /\ Ids \subseteq Slots /\ 0 \in Slots
  /\ \A i \in Slots : i \in Nat /\ i <= Length /\ i < END
  /\ \A i \in Ids : i \in Nat /\ 0 < i /\ i < Length /\ i < END
  /\ END \in Nat /\ END \notin Slots
  BY Layout DEF Ids, Slots

LEMMA BeforeIs ==
  ASSUME skip \in Chains, Sound(skip), NEW i \in Ids
  PROVE  IsBefore(skip, i, Before(i))
  <1> DEFINE P(j) == (j = 0 \/ (j < i /\ skip[j] # 0)) /\ skip[j] >= i
             S == {k \in On(skip) \cup {0} : k < i}
  <1>1. On(skip) \subseteq Ids
    BY DEF On
  <1>2. S \subseteq Nat /\ 0 \in S /\ i \in Nat /\ \A k \in S : k <= i
    BY <1>1, Places0
  <1>3. PICK j \in S : \A k \in S : k <= j
    <2> HIDE DEF S
    <2>1. QED
      BY <1>2, MaxExists
  <1>4. P(j)
    <2>1. skip[j] \in Slots \cup {END}
      BY <1>1, Places0 DEF Chains
    <2>2. Leads(On(skip), j, skip[j])
      BY DEF Sound
    <2>3. skip[j] >= i
      <3>1. CASE skip[j] = END
        BY <3>1, Places0
      <3>2. CASE skip[j] \in On(skip) /\ skip[j] > j
        <4>1. skip[j] \notin S
          BY <1>2, <1>3, <1>1, Places0, <3>2
        <4>2. QED
          BY <4>1, <1>1, Places0, <3>2
      <3>3. QED
        BY <2>2, <3>1, <3>2 DEF Leads
    <2>4. j = 0 \/ skip[j] # 0
      BY DEF On
    <2>5. QED
      BY <2>3, <2>4
  <1>5. Before(i) \in Slots /\ P(Before(i))
    <2>1. j \in Slots
      BY <1>1, Places0
    <2>2. QED
      BY <1>4, <2>1 DEF Before
  <1>6. QED
    <2> DEFINE b == Before(i)
    <2>1. b \in On(skip) \cup {0}
      <3>1. b \in Nat /\ (b = 0 \/ (b < i /\ skip[b] # 0))
        BY <1>5, Places0
      <3>2. b < i => b = 0 \/ b \in Ids
        BY <3>1, Layout DEF Ids
      <3>3. QED
        BY <3>1, <3>2 DEF On
    <2>2. b < i /\ skip[b] >= i
      BY <1>5, Places0
    <2>3. ASSUME NEW k \in On(skip), k < i, k > b
          PROVE  FALSE
      <3>1. Leads(On(skip), b, skip[b])
        BY <2>1 DEF Sound
      <3>2. b \in Nat /\ k \in Nat /\ i \in Nat /\ skip[b] \in Nat
        BY <1>1, <2>1, Places0 DEF Chains
      <3>3. QED
        BY <2>2, <2>3, <3>1, <3>2 DEF Leads
    <2>4. \A k \in On(skip) : k < i => k <= b
      <3>1. \A k \in On(skip) : k \in Nat /\ b \in Nat
        BY <1>1, <2>1, Places0
      <3>2. QED
        BY <2>3, <3>1
    <2>5. QED
      BY <2>1, <2>2, <2>4 DEF IsBefore

(* A toggle takes a slot out of the chain or puts it in, and the chain stays  *)
(* sound.                                                                   *)
LEMMA RelinkedIsSound ==
  ASSUME skip \in Chains, Sound(skip), NEW i \in Ids
  PROVE  /\ Relinked(i) \in Chains
         /\ On(Relinked(i)) = IF i \in On(skip) THEN On(skip) \ {i} ELSE On(skip) \cup {i}
         /\ Sound(Relinked(i))
         /\ \A k \in On(skip) : k > i => Relinked(i)[k] = skip[k]
  <1> DEFINE b == Before(i)
             s == Relinked(i)
  <1>1. IsBefore(skip, i, b)
    BY BeforeIs
  <1>2. On(skip) \subseteq Ids /\ b \in Slots /\ b \in Nat /\ i \in Nat /\ b # i /\ i \in Slots
    BY <1>1, Places0 DEF IsBefore, On
  <1>3. s = IF i \in On(skip) THEN [skip EXCEPT ![b] = skip[i], ![i] = 0]
                               ELSE [skip EXCEPT ![b] = i, ![i] = skip[b]]
    BY DEF Relinked, On
  <1>4. skip[b] # 0 /\ skip[i] \in Slots \cup {END} /\ skip[b] \in Slots \cup {END}
    BY <1>1, <1>2, Places0 DEF IsBefore, Chains
  <1>5. s \in Chains
    <2>1. CASE i \in On(skip)
      BY <1>2, <1>3, <1>4, <2>1, Places0 DEF Chains
    <2>2. CASE i \notin On(skip)
      BY <1>2, <1>3, <1>4, <2>2 DEF Chains
    <2>3. QED
      BY <2>1, <2>2
  <1>6. /\ s[b] = IF i \in On(skip) THEN skip[i] ELSE i
        /\ s[i] = IF i \in On(skip) THEN 0 ELSE skip[b]
        /\ \A k \in Slots \ {b, i} : s[k] = skip[k]
    BY <1>2, <1>3 DEF Chains
  <1> HIDE DEF s, b
  <1>7. On(s) = IF i \in On(skip) THEN On(skip) \ {i} ELSE On(skip) \cup {i}
    <2>1. \A k \in Ids \ {b, i} : k \in On(s) <=> k \in On(skip)
      BY <1>6, Places0 DEF On
    <2>2. b \in Ids => b \in On(s) /\ b \in On(skip)
      <3>1. s[b] # 0
        BY <1>4, <1>6, Places0 DEF On
      <3>2. QED
        BY <1>4, <3>1 DEF On
    <2>3. i \in On(s) <=> i \notin On(skip)
      BY <1>4, <1>6 DEF On
    <2>4. On(s) \subseteq Ids
      BY DEF On
    <2>5. \A k \in Ids \ {i} : k \in On(s) <=> k \in On(skip)
      BY <2>1, <2>2
    <2>6. QED
      BY <1>2, <2>3, <2>4, <2>5
  <1>8. /\ \A k \in On(skip) : k \in Nat /\ 0 < k /\ k < END /\ k \in Slots
        /\ \A k \in On(skip) \cup {0} : skip[k] \in Nat /\ k \in Nat
        /\ \A k \in On(skip) : (k < i => k <= b) /\ (k < b \/ k = b \/ k = i \/ k > i)
        /\ b < i /\ skip[b] >= i /\ b \in On(skip) \cup {0}
        /\ END \in Nat /\ i < END /\ 0 < i
    <2>1. \A k \in On(skip) : k \in Nat /\ 0 < k /\ k < END /\ k \in Slots
      BY <1>2, Places0
    <2>2. \A k \in On(skip) \cup {0} : skip[k] \in Nat /\ k \in Nat
      BY <1>2, Places0 DEF Chains
    <2>3. QED
      BY <1>1, <1>2, <2>1, <2>2, Places0 DEF IsBefore
  <1>9. ASSUME NEW k \in On(s) \cup {0}
        PROVE  Leads(On(s), k, s[k])
    <2>0. Leads(On(skip), b, skip[b]) /\ (i \in On(skip) => Leads(On(skip), i, skip[i]))
      BY <1>8 DEF Sound
    <2>1. CASE k = i
      <3>1. i \notin On(skip) /\ s[i] = skip[b] /\ On(s) = On(skip) \cup {i}
        BY <1>6, <1>7, <2>1, <1>8
      <3>2. QED
        BY <1>2, <1>8, <2>0, <2>1, <3>1 DEF Leads
    <2>2. CASE k = b /\ i \in On(skip)
      <3>1. s[b] = skip[i] /\ On(s) = On(skip) \ {i}
        BY <1>6, <1>7, <2>2
      <3>2. QED
        BY <1>2, <1>8, <2>0, <2>2, <3>1 DEF Leads
    <2>3. CASE k = b /\ i \notin On(skip)
      <3>1. s[b] = i /\ On(s) = On(skip) \cup {i}
        BY <1>6, <1>7, <2>3
      <3>2. QED
        BY <1>2, <1>8, <2>0, <2>3, <3>1 DEF Leads
    <2>4. CASE k # i /\ k # b
      <3>1. k \in On(skip) \cup {0} /\ k \in Slots
        BY <1>7, <1>8, <2>4, Places0
      <3>2. s[k] = skip[k] /\ Leads(On(skip), k, skip[k])
        BY <1>6, <2>4, <3>1 DEF Sound
      <3>3. CASE i \in On(skip)
        <4>1. On(s) = On(skip) \ {i}
          BY <1>7, <3>3
        <4>2. skip[k] # i
          BY <1>2, <1>8, <2>4, <3>1, <3>2, <3>3 DEF Leads
        <4>3. QED
          BY <1>8, <3>1, <3>2, <4>1, <4>2 DEF Leads
      <3>4. CASE i \notin On(skip)
        <4>1. On(s) = On(skip) \cup {i}
          BY <1>7, <3>4
        <4>2. QED
          BY <1>2, <1>8, <2>4, <3>1, <3>2, <4>1 DEF Leads
      <3>5. QED
        BY <3>3, <3>4
    <2>5. QED
      BY <2>1, <2>2, <2>3, <2>4
  <1>10. \A k \in On(skip) : k > i => s[k] = skip[k]
    BY <1>2, <1>6, <1>8
  <1>11. QED
    BY <1>5, <1>7, <1>9, <1>10 DEF Sound, s

-----------------------------------------------------------------------------
(* The invariant                                                            *)

(* Entries are in the region of their kind, in ascending order, and the place *)
(* after the last, which the search may read, has none.                     *)
TableInv ==
    /\ tbl[Length] = NULL
    /\ \A i \in Ids : tbl[i] # NULL =>
          tbl[i] \in Entries /\ Start(tbl[i].by) <= i /\ i < Bound(tbl[i].by)
    /\ \A i, j \in Ids :
          i < j /\ tbl[i] # NULL /\ tbl[j] # NULL /\ tbl[i].by = tbl[j].by
              => tbl[i].at < tbl[j].at

(* Where the search is, and that nothing behind it matches the field.        *)
SearchInv ==
    /\ place = "search" => at \in Enabled \cup {END}
    /\ place = "columns" =>
          \/ at \in (Columns \cap Enabled) \cup {END}
          \/ Columns = {} /\ at \in ColStart..Length
    /\ place = "call" => at \in Ids \cup {0}
    /\ place = "out" => col = 0
    /\ place = "eor" => row <= MaxRow
    /\ place \in {"search", "columns", "call"} => col <= MaxCol
    /\ place \in {"search", "columns"} =>
          /\ field \in Texts
          /\ \A k \in Enabled : k < at => ~ Promised!Matches(tbl[k], field)

SafeInv == TypeOK /\ TableInv /\ ChainSound /\ ColumnsToCome /\ SearchInv

LEMMA ColumnFacts ==
  ASSUME TableInv
  PROVE  /\ \A i \in Ids : tbl[i] # NULL =>
               /\ tbl[i] \in Entries /\ tbl[i].by \in Kinds /\ tbl[i].at \in Nat
               /\ tbl[i].once \in BOOLEAN
               /\ i >= ColStart <=> tbl[i].by = "COLUMN"
               /\ i < RowStart <=> tbl[i].by \in {"KEYWORD", "REGEX"}
         /\ \A i, j \in Columns : i < j => tbl[i].at < tbl[j].at
         /\ Columns \subseteq Ids
  <1>1. ASSUME NEW i \in Ids, tbl[i] # NULL
        PROVE  /\ tbl[i] \in Entries /\ tbl[i].by \in Kinds /\ tbl[i].at \in Nat
               /\ tbl[i].once \in BOOLEAN
               /\ i >= ColStart <=> tbl[i].by = "COLUMN"
               /\ i < RowStart <=> tbl[i].by \in {"KEYWORD", "REGEX"}
    <2>1. tbl[i] \in Entries /\ Start(tbl[i].by) <= i /\ i < Bound(tbl[i].by)
      BY <1>1 DEF TableInv
    <2>2. tbl[i].by \in Kinds /\ tbl[i].at \in Nat /\ tbl[i].once \in BOOLEAN
      BY <2>1, CsvAssumption
    <2>3. i \in Nat
      BY Places0
    <2>4. /\ i >= ColStart <=> tbl[i].by = "COLUMN"
          /\ i < RowStart <=> tbl[i].by \in {"KEYWORD", "REGEX"}
      BY <2>1, <2>2, <2>3, Layout DEF Start, Bound, Kinds
    <2>5. QED
      BY <2>1, <2>2, <2>4
  <1>2. ASSUME NEW i \in Columns, NEW j \in Columns, i < j
        PROVE  tbl[i].at < tbl[j].at
    BY <1>1, <1>2 DEF Columns, TableInv
  <1>3. QED
    BY <1>1, <1>2 DEF Columns

LEMMA ChainFacts ==
  ASSUME TypeOK
  PROVE  /\ skip \in Chains /\ Enabled = On(skip) /\ Enabled \subseteq Ids
         /\ ChainSound <=> Sound(skip) /\ \A i \in Enabled : tbl[i] # NULL
  <1>1. skip \in Chains
    BY DEF TypeOK, Chains
  <1>2. QED
    BY <1>1, ChainIsSound DEF ChainSound, Sound, On

(* What follows an enabled slot, and what follows the columns.               *)
LEMMA NextFacts ==
  ASSUME TypeOK, ChainSound, NEW i \in Enabled \cup {0}
  PROVE  /\ skip[i] \in Enabled \cup {END} /\ skip[i] > i
         /\ \A k \in Enabled : k > i => k >= skip[i]
  <1>1. Leads(Enabled, i, skip[i]) /\ Enabled \subseteq Ids
    BY ChainFacts DEF Sound
  <1>2. i \in Nat /\ END > i /\ \A k \in Enabled : k \in Nat
    BY <1>1, Places0
  <1>3. QED
    BY <1>1, <1>2 DEF Leads

-----------------------------------------------------------------------------
(* The operations on the table                                              *)

ColSlots == {k \in Ids : k >= ColStart}

(* tbl_offs_col names an enabled column slot or the end.                     *)
LEMMA ToggleOff ==
  ASSUME TypeOK, ChainSound, NEW i \in Enabled, NEW t,
         t[i].by = "COLUMN" <=> i >= ColStart, ToggleIn(t, i)
  PROVE  /\ skip' \in Chains /\ Sound(skip') /\ Enabled' = Enabled \ {i}
         /\ \A k \in Enabled : k > i => skip'[k] = skip[k]
         /\ offs' \in ColStart..Length \cup {END}
         /\ offs \in (Enabled \cap ColSlots) \cup {END} =>
               /\ offs' \in (Enabled' \cap ColSlots) \cup {END}
               /\ \A k \in Enabled' : k >= offs => k >= offs'
  <1>1. i \in Ids /\ skip \in Chains /\ Sound(skip) /\ Enabled = On(skip)
    BY ChainFacts
  <1>2. skip' = Relinked(i) /\ Enabled' = On(skip')
    BY DEF ToggleIn, Enabled, On
  <1>3. /\ skip' \in Chains /\ Sound(skip') /\ Enabled' = Enabled \ {i}
        /\ \A k \in Enabled : k > i => skip'[k] = skip[k]
    BY <1>1, <1>2, RelinkedIsSound
  <1>4. offs' = IF i >= ColStart /\ i = offs THEN skip[i] ELSE offs
    BY DEF ToggleIn, Enabled
  <1>5. /\ skip[i] \in Enabled \cup {END} /\ skip[i] > i
        /\ \A k \in Enabled : k > i => k >= skip[i]
    BY NextFacts
  <1>6. /\ offs \in ColStart..Length \cup {END} /\ ColStart \in Nat /\ Length \in Nat
        /\ \A k \in Enabled : k \in Ids /\ k \in Nat /\ k <= Length /\ k < END
    BY ChainFacts, Places0, Layout DEF TypeOK
  <1>7. offs' \in ColStart..Length \cup {END}
    BY <1>1, <1>4, <1>5, <1>6, Places0
  <1>8. ASSUME offs \in (Enabled \cap ColSlots) \cup {END}
        PROVE  /\ offs' \in (Enabled' \cap ColSlots) \cup {END}
               /\ \A k \in Enabled' : k >= offs => k >= offs'
    <2>1. CASE i >= ColStart /\ i = offs
      <3>1. skip[i] \in (Enabled' \cap ColSlots) \cup {END}
        <4>1. CASE skip[i] = END
          BY <4>1
        <4>2. CASE skip[i] \in Enabled
          <5>1. skip[i] \in Nat /\ i \in Nat /\ skip[i] >= ColStart /\ skip[i] # i
            <6>1. skip[i] \in Nat /\ i \in Nat /\ ColStart \in Nat
              BY <1>6, <4>2
            <6>2. QED
              BY <1>5, <2>1, <6>1
          <5>2. skip[i] \in Enabled' /\ skip[i] \in ColSlots
            BY <1>3, <1>6, <4>2, <5>1 DEF ColSlots
          <5>3. QED
            BY <5>2
        <4>3. QED
          BY <1>5, <4>1, <4>2
      <3>2. \A k \in Enabled' : k >= offs => k > i
        BY <1>1, <1>3, <1>6, <2>1
      <3>3. QED
        BY <1>3, <1>4, <1>5, <2>1, <3>1, <3>2
    <2>2. CASE ~ (i >= ColStart /\ i = offs)
      BY <1>1, <1>3, <1>4, <1>6, <1>8, <2>2 DEF ColSlots
    <2>3. QED
      BY <2>1, <2>2
  <1>9. QED
    BY <1>3, <1>7, <1>8

LEMMA ToggleOn ==
  ASSUME TypeOK, ChainSound, NEW i \in Ids \ Enabled, NEW t,
         t[i].by = "COLUMN" <=> i >= ColStart, ToggleIn(t, i)
  PROVE  /\ skip' \in Chains /\ Sound(skip') /\ Enabled' = Enabled \cup {i}
         /\ offs' \in ColStart..Length \cup {END} /\ offs' <= offs
         /\ offs' = IF i >= ColStart /\ i < offs THEN i ELSE offs
  <1>1. i \in Ids /\ skip \in Chains /\ Sound(skip) /\ Enabled = On(skip)
    BY ChainFacts
  <1>2. skip' = Relinked(i) /\ Enabled' = On(skip')
    BY DEF ToggleIn, Enabled, On
  <1>3. skip' \in Chains /\ Sound(skip') /\ Enabled' = Enabled \cup {i}
    BY <1>1, <1>2, RelinkedIsSound
  <1>4. skip[i] = 0
    BY <1>1 DEF On
  <1>5. offs' = IF i >= ColStart /\ i < offs THEN i ELSE offs
    BY <1>4 DEF ToggleIn
  <1>6. /\ offs \in ColStart..Length \cup {END} /\ ColStart \in Nat /\ Length \in Nat
        /\ END \in Nat /\ i \in Nat /\ i <= Length
    BY Places0, Layout DEF TypeOK
  <1>7. QED
    BY <1>3, <1>5, <1>6

(* The table between operations, and the columns from c on.                  *)
TableOK ==
    /\ tbl \in [Slots -> Entries \cup {DefaultEntry, NULL}]
    /\ skip \in Chains /\ offs \in ColStart..Length \cup {END}
    /\ TableInv /\ ChainSound
    /\ Columns # {} => offs \in (Columns \cap Enabled) \cup {END}

ToCome(c) == \A i \in Columns \cap Enabled : tbl[i].at >= c => i >= offs

ReaderOK ==
    /\ row \in 0..(MaxRow + 1) /\ col \in 0..(MaxCol + 1)
    /\ place \in Places
    /\ at \in Slots \cup {END} /\ field \in Texts \cup {NULL}

LEMMA SafeParts ==
  SafeInv <=> /\ TableOK /\ ToCome(NextCol) /\ ReaderOK /\ SearchInv
              /\ place = "crash" => Columns = {}
  BY DEF SafeInv, TypeOK, TableOK, ToCome, ReaderOK, ColumnsToCome, Chains

LEMMA ColumnSlots ==
  ASSUME TypeOK, ChainSound
  PROVE  /\ Columns \cap Enabled = Enabled \cap ColSlots
         /\ \A i \in Enabled : tbl[i] # NULL
  BY DEF ChainSound, Columns, ColSlots, Enabled

LEMMA ChainSoundNext ==
  ASSUME skip' \in Chains, Sound(skip'), \A i \in Enabled' : tbl'[i] # NULL
  PROVE  ChainSound'
  <1>1. Enabled' = On(skip') /\ \A k \in On(skip') \cup {0} : k \in Nat
    BY Places0 DEF Enabled, On
  <1>2. ASSUME NEW i \in Enabled' \cup {0}
        PROVE  IsNext(i, skip[i])'
    <2>2. Leads(On(skip'), i, skip'[i])
      BY <1>1 DEF Sound
    <2>3. i \in Nat /\ \A k \in On(skip') : k \in Nat /\ k < END
      BY <1>1, Places0 DEF On
    <2>4. Following(i)' = {k \in On(skip') : k > i}
      BY <1>1 DEF Following
    <2>5. CASE skip'[i] = END /\ \A k \in On(skip') : k <= i
      <3>1. Following(i)' = {}
        BY <2>3, <2>4, <2>5
      <3>2. QED
        BY <2>5, <3>1 DEF IsNext
    <2>6. CASE /\ skip'[i] \in On(skip') /\ skip'[i] > i
               /\ \A k \in On(skip') : k > i => skip'[i] <= k
      <3>1. skip'[i] \in Following(i)' /\ \A k \in Following(i)' : skip'[i] <= k
        BY <2>4, <2>6
      <3>2. QED
        BY <3>1 DEF IsNext
    <2>7. QED
      BY <2>2, <2>5, <2>6 DEF Leads
  <1>3. QED
    BY <1>2 DEF ChainSound

LEMMA ToggleKeeps ==
  ASSUME SafeInv, NEW i \in Ids, Toggle(i), NEW c
  PROVE  /\ TableOK' /\ (ToCome(c) => ToCome(c)')
         /\ Enabled' = IF i \in Enabled THEN Enabled \ {i} ELSE Enabled \cup {i}
  <1>1. /\ tbl' = tbl /\ tbl[i] # NULL /\ ToggleIn(tbl, i) /\ Columns' = Columns
        /\ Columns = {k \in ColSlots : tbl[k] # NULL}
    BY DEF Toggle, Columns, ColSlots
  <1>2. /\ TypeOK /\ TableInv /\ ChainSound
        /\ Columns # {} => offs \in (Columns \cap Enabled) \cup {END}
    BY DEF SafeInv, ColumnsToCome
  <1>3. tbl[i].by = "COLUMN" <=> i >= ColStart
    BY <1>1, <1>2, ColumnFacts
  <1>4. TableInv'
    BY <1>1, <1>2 DEF TableInv
  <1>5. /\ skip' \in Chains /\ Sound(skip') /\ Enabled' = IF i \in Enabled THEN Enabled \ {i} ELSE Enabled \cup {i}
        /\ offs' \in ColStart..Length \cup {END}
    BY <1>1, <1>2, <1>3, ToggleOn, ToggleOff
  <1>6. tbl' \in [Slots -> Entries \cup {DefaultEntry, NULL}]
    BY <1>1, <1>2 DEF TypeOK
  <1>7. ChainSound'
    BY <1>1, <1>2, <1>5, ChainSoundNext DEF ChainSound
  <1>8. /\ Columns # {} => offs' \in (Columns \cap Enabled') \cup {END}
        /\ ToCome(c) => ToCome(c)'
    <2>1. /\ Columns \cap Enabled = Enabled \cap ColSlots
          /\ Columns \cap Enabled' = Enabled' \cap ColSlots
      BY <1>1, <1>2, <1>7, ColumnSlots DEF ChainSound, Columns, ColSlots, Enabled
    <2>2. \A k \in Ids : k \in Nat /\ ColStart \in Nat
      BY Places0, Layout
    <2>3. CASE i \in Enabled
      <3>1. /\ Enabled' = Enabled \ {i}
            /\ offs \in (Enabled \cap ColSlots) \cup {END} =>
                  /\ offs' \in (Enabled' \cap ColSlots) \cup {END}
                  /\ \A k \in Enabled' : k >= offs => k >= offs'
        BY <1>1, <1>2, <1>3, <2>3, ToggleOff
      <3>2. QED
        BY <1>1, <1>2, <2>1, <3>1 DEF ToCome
    <2>4. CASE i \notin Enabled
      <3>1. /\ Enabled' = Enabled \cup {i} /\ offs' <= offs
            /\ offs' = IF i >= ColStart /\ i < offs THEN i ELSE offs
        BY <1>1, <1>2, <1>3, <2>4, ToggleOn
      <3>2. Columns # {} => offs' \in (Columns \cap Enabled') \cup {END}
        BY <1>2, <2>1, <3>1 DEF ColSlots
      <3>3. ASSUME ToCome(c), NEW k \in Columns \cap Enabled', tbl[k].at >= c
            PROVE  k >= offs'
        <4>1. k \in Nat /\ k \in Ids /\ k >= ColStart /\ offs \in Nat /\ offs' \in Nat
          BY <1>2, <1>5, <2>1, <2>2, Places0, Layout DEF ColSlots, TypeOK
        <4>2. CASE k = i
          BY <3>1, <4>1, <4>2
        <4>3. CASE k # i
          <5>1. k >= offs
            BY <3>1, <3>3, <4>3 DEF ToCome
          <5>2. QED
            BY <3>1, <4>1, <5>1
        <4>4. QED
          BY <4>2, <4>3
      <3>4. QED
        BY <1>1, <3>2, <3>3 DEF ToCome
    <2>5. QED
      BY <2>3, <2>4
  <1>9. QED
    BY <1>1, <1>4, <1>5, <1>6, <1>7, <1>8 DEF TableOK

(* A cleared callback is disabled first, and no other moves.                  *)
LEMMA ClearKeeps ==
  ASSUME SafeInv, NEW i \in Ids, Clear(i), NEW c
  PROVE  /\ TableOK' /\ (ToCome(c) => ToCome(c)')
         /\ tbl' = [tbl EXCEPT ![i] = NULL] /\ Enabled' = Enabled \ {i}
  <1>1. /\ tbl[i] # NULL /\ tbl' = [tbl EXCEPT ![i] = NULL]
        /\ IF skip[i] # 0 THEN ToggleIn(tbl, i) ELSE UNCHANGED <<skip, offs>>
    BY DEF Clear, ClearWith
  <1>2. /\ TypeOK /\ TableInv /\ ChainSound
        /\ Columns # {} => offs \in (Columns \cap Enabled) \cup {END}
    BY DEF SafeInv, ColumnsToCome
  <1>3. /\ i \in Slots /\ i # Length /\ Length \in Slots
        /\ tbl' \in [Slots -> Entries \cup {DefaultEntry, NULL}]
        /\ tbl'[i] = NULL /\ \A k \in Slots \ {i} : tbl'[k] = tbl[k]
    BY <1>1, <1>2, Places0, Layout DEF TypeOK, Slots
  <1>4. TableInv'
    <2>1. \A k \in Ids : tbl'[k] # NULL => k # i /\ tbl'[k] = tbl[k]
      BY <1>3, Places0
    <2>2. QED
      BY <1>2, <1>3, <2>1 DEF TableInv
  <1>5. tbl[i].by = "COLUMN" <=> i >= ColStart
    BY <1>1, <1>2, ColumnFacts
  <1>6. /\ skip' \in Chains /\ Sound(skip') /\ Enabled' = Enabled \ {i}
        /\ offs' \in ColStart..Length \cup {END}
        /\ offs \in (Enabled \cap ColSlots) \cup {END} =>
               /\ offs' \in (Enabled' \cap ColSlots) \cup {END}
               /\ \A k \in Enabled' : k >= offs => k >= offs'
    <2>1. CASE i \in Enabled
      <3>1. ToggleIn(tbl, i)
        BY <1>1, <2>1 DEF Enabled
      <3>2. QED
        BY <1>2, <1>5, <2>1, <3>1, ToggleOff
    <2>2. CASE i \notin Enabled
      <3>1. skip' = skip /\ offs' = offs
        BY <1>1, <2>2 DEF Enabled
      <3>2. Enabled' = Enabled
        BY <3>1 DEF Enabled
      <3>3. skip \in Chains /\ Sound(skip) /\ offs \in ColStart..Length \cup {END}
        BY <1>2, ChainFacts DEF TypeOK
      <3>4. QED
        BY <2>2, <3>1, <3>2, <3>3
    <2>3. QED
      BY <2>1, <2>2
  <1>7. \A k \in Enabled' : k \in Slots \ {i} /\ tbl'[k] = tbl[k] /\ tbl[k] # NULL
    BY <1>2, <1>3, <1>6, ChainFacts, Places0 DEF ChainSound
  <1>8. ChainSound'
    BY <1>6, <1>7, ChainSoundNext
  <1>9. /\ Columns' = Columns \ {i} /\ Columns \cap Enabled = Enabled \cap ColSlots
        /\ Columns' \cap Enabled' = Enabled' \cap ColSlots
    <2>1. Columns' = Columns \ {i}
      BY <1>3, Places0 DEF Columns
    <2>2. Columns \cap Enabled = Enabled \cap ColSlots
      BY <1>2, ColumnSlots
    <2>3. QED
      BY <1>6, <2>1, <2>2
  <1>10. /\ Columns' # {} => offs' \in (Columns' \cap Enabled') \cup {END}
         /\ ToCome(c) => ToCome(c)'
    <2>1. Columns' # {} => offs' \in (Columns' \cap Enabled') \cup {END}
      BY <1>2, <1>6, <1>9
    <2>2. ASSUME ToCome(c), NEW k \in Columns' \cap Enabled', tbl'[k].at >= c
          PROVE  k >= offs'
      BY <1>2, <1>6, <1>7, <1>9, <2>2 DEF ToCome
    <2>3. QED
      BY <2>1, <2>2 DEF ToCome
  <1>11. QED
    BY <1>1, <1>3, <1>4, <1>6, <1>8, <1>10 DEF TableOK

LEMMA ClearAllKeeps ==
  ASSUME SafeInv, ClearAll, NEW c
  PROVE  /\ TableOK' /\ ToCome(c)'
         /\ \A i \in Ids : tbl'[i] = NULL
         /\ Enabled' = {}
  <1>1. TypeOK
    BY DEF SafeInv
  <1>2. /\ tbl' \in [Slots -> Entries \cup {DefaultEntry, NULL}]
        /\ skip' \in Chains /\ offs' \in ColStart..Length \cup {END}
        /\ \A i \in Ids : tbl'[i] = NULL /\ skip'[i] = 0
        /\ skip'[0] = END /\ tbl'[Length] = NULL
    <2>1. Length \in Slots /\ Length # 0
      BY Layout, CsvAssumption DEF Slots, Length, ColStart, RowStart, RgxStart
    <2>2. QED
      BY <1>1, <2>1, Places0 DEF ClearAll, TypeOK, Chains
  <1>3. Enabled' = {} /\ Columns' = {} /\ On(skip') = {}
    BY <1>2 DEF Enabled, Columns, On
  <1>4. Sound(skip')
    BY <1>2, <1>3 DEF Sound, Leads
  <1>5. ChainSound'
    BY <1>2, <1>3, <1>4, ChainSoundNext
  <1>6. QED
    BY <1>2, <1>3, <1>5 DEF TableOK, TableInv, ToCome

(* A callback that fits behind the others of its kind displaces none.         *)
LEMMA EnlistsBehind ==
  ASSUME SafeInv, NEW e \in Entries, Appends(e), Enlist(e)
  PROVE  /\ SlotFor(e) \in Ids \ Enabled /\ tbl[SlotFor(e)] = NULL
         /\ Start(e.by) <= SlotFor(e) /\ SlotFor(e) < Bound(e.by)
         /\ SlotFor(e) >= ColStart <=> e.by = "COLUMN"
         /\ \A k \in Ids : Start(e.by) <= k /\ k < SlotFor(e) => tbl[k] # NULL /\ tbl[k].at < e.at
         /\ \A k \in Ids : SlotFor(e) <= k /\ k < Bound(e.by) => tbl[k] = NULL
         /\ tbl' = [tbl EXCEPT ![SlotFor(e)] = e] /\ ToggleIn(tbl', SlotFor(e))
  <1> DEFINE i == SlotFor(e)
             S == {k \in Slots : k >= Start(e.by) /\ (tbl[k] = NULL \/ tbl[k].at >= e.at)}
             T == {k \in Slots : k >= i /\ tbl[k] = NULL}
  <1>1. TypeOK /\ TableInv /\ ChainSound
    BY DEF SafeInv
  <1>2. /\ Start(e.by) \in Nat /\ Bound(e.by) \in Nat /\ e.at \in Nat
        /\ 1 <= Start(e.by) /\ Bound(e.by) <= Length /\ Start(e.by) <= Length
        /\ \A k \in Int : Start(e.by) <= k /\ k < Bound(e.by) => (k >= ColStart <=> e.by = "COLUMN")
    <2>1. e.by \in Kinds /\ e.at \in Nat
      BY CsvAssumption
    <2>2. QED
      BY <2>1, Layout DEF Kinds, Start, Bound
  <1>3. /\ i \in Slots /\ i >= Start(e.by)
        /\ \A k \in Slots : k >= Start(e.by) /\ k < i => tbl[k] # NULL /\ ~ (tbl[k].at >= e.at)
    <2>1. Length \in S
      BY <1>1, <1>2, Layout DEF TableInv, Slots
    <2>2. S \subseteq Nat
      BY Places0
    <2>3. i \in S /\ \A k \in S : i <= k
      BY <2>1, <2>2, MinIs DEF SlotFor
    <2>4. \A k \in Slots : k < i => k \notin S
      BY <2>2, <2>3, Places0
    <2>5. QED
      BY <2>3, <2>4
  <1>4. /\ i < Bound(e.by) /\ i \in Nat
        /\ \A k \in i..(Bound(e.by) - 1) : tbl[k] = NULL
    BY <1>3, Places0 DEF Appends
  <1>5. i \in Ids /\ tbl[i] = NULL /\ i \notin Enabled
    <2>1. i \in Ids
      BY <1>2, <1>3, <1>4, Layout DEF Ids
    <2>2. tbl[i] = NULL
      BY <1>2, <1>4
    <2>3. QED
      BY <1>1, <2>1, <2>2 DEF ChainSound
  <1>6. \A k \in Ids : i <= k /\ k < Bound(e.by) => tbl[k] = NULL
    BY <1>2, <1>4, Places0
  <1>7. \A k \in Ids : Start(e.by) <= k /\ k < i => tbl[k] # NULL /\ tbl[k].at < e.at
    <2>1. ASSUME NEW k \in Ids, Start(e.by) <= k, k < i
          PROVE  tbl[k] # NULL /\ tbl[k].at < e.at
      <3>1. k \in Slots /\ k \in Nat
        BY Places0
      <3>2. tbl[k] # NULL /\ ~ (tbl[k].at >= e.at)
        BY <1>3, <2>1, <3>1
      <3>3. tbl[k].at \in Nat
        BY <1>1, <3>2, ColumnFacts
      <3>4. QED
        BY <1>2, <3>2, <3>3
    <2>2. QED
      BY <2>1
  <1>8. Min(T) = i
    <2>1. i \in T /\ T \subseteq Nat
      BY <1>3, <1>4, <1>5, Places0
    <2>2. Min(T) \in T /\ \A k \in T : Min(T) <= k
      BY <2>1, MinIs
    <2>3. Min(T) <= i /\ Min(T) >= i /\ Min(T) \in Nat
      BY <2>1, <2>2
    <2>4. QED
      BY <1>4, <2>3
  <1>9. /\ tbl' = [tbl EXCEPT ![i] = e] /\ ToggleIn(tbl', i)
    <2>1. /\ tbl' = [k \in Slots |-> IF k = i THEN e
                                     ELSE IF k \in i..i THEN tbl[k - 1] ELSE tbl[k]]
          /\ ToggleIn(tbl', i)
      <3> HIDE DEF i
      <3>1. QED
        BY <1>8 DEF Enlist, i
    <2>2. \A k \in Slots : k \in i..i <=> k = i
      BY <1>4, Places0
    <2>3. DOMAIN tbl = Slots /\ tbl = [k \in Slots |-> tbl[k]]
      BY <1>1 DEF TypeOK
    <2>4. QED
      BY <2>1, <2>2, <2>3
  <1>10. i >= ColStart <=> e.by = "COLUMN"
    BY <1>2, <1>3, <1>4
  <1>11. QED
    BY <1>3, <1>4, <1>5, <1>6, <1>7, <1>9, <1>10

LEMMA EnlistKeeps ==
  ASSUME SafeInv, NEW e \in Entries, Appends(e), Enlist(e), NEW c
  PROVE  /\ TableOK' /\ (ToCome(c) => ToCome(c)')
         /\ Enabled' = Enabled \cup {SlotFor(e)}
  <1> DEFINE i == SlotFor(e)
  <1> HIDE DEF i
  <1>1. /\ i \in Ids \ Enabled /\ tbl[i] = NULL
        /\ Start(e.by) <= i /\ i < Bound(e.by)
        /\ i >= ColStart <=> e.by = "COLUMN"
        /\ \A k \in Ids : Start(e.by) <= k /\ k < i => tbl[k] # NULL /\ tbl[k].at < e.at
        /\ \A k \in Ids : i <= k /\ k < Bound(e.by) => tbl[k] = NULL
        /\ tbl' = [tbl EXCEPT ![i] = e] /\ ToggleIn(tbl', i)
    BY EnlistsBehind DEF i
  <1>2. /\ TypeOK /\ TableInv /\ ChainSound
        /\ Columns # {} => offs \in (Columns \cap Enabled) \cup {END}
    BY DEF SafeInv, ColumnsToCome
  <1>3. /\ i \in Slots /\ i # Length /\ Length \in Slots /\ e # NULL /\ tbl'[i] = e
        /\ tbl' \in [Slots -> Entries \cup {DefaultEntry, NULL}]
        /\ \A k \in Slots \ {i} : tbl'[k] = tbl[k]
    BY <1>1, <1>2, CsvAssumption, Places0, Layout DEF TypeOK, Slots
  <1>4. \A k \in Ids : tbl'[k] # NULL =>
             (k = i /\ tbl'[k] = e) \/ (k # i /\ tbl'[k] = tbl[k])
    BY <1>3, Places0
  <1>5. TableInv'
    <2>1. tbl'[Length] = NULL
      BY <1>2, <1>3 DEF TableInv
    <2>2. \A k \in Ids : tbl'[k] # NULL =>
             tbl'[k] \in Entries /\ Start(tbl'[k].by) <= k /\ k < Bound(tbl'[k].by)
      BY <1>1, <1>2, <1>4 DEF TableInv
    <2>3. ASSUME NEW k \in Ids, NEW l \in Ids, k < l, tbl'[k] # NULL, tbl'[l] # NULL,
                 tbl'[k].by = tbl'[l].by
          PROVE  tbl'[k].at < tbl'[l].at
      <3>1. k \in Nat /\ l \in Nat /\ i \in Nat
        BY <1>1, Places0
      <3>2. CASE k # i /\ l # i
        BY <1>2, <1>4, <2>3, <3>2 DEF TableInv
      <3>3. CASE k = i
        <4>1. l # i /\ tbl'[l] = tbl[l] /\ tbl[l].by = e.by /\ tbl[l] # NULL
          BY <1>3, <1>4, <2>3, <3>1, <3>3
        <4>2. l < Bound(e.by)
          BY <1>2, <4>1 DEF TableInv
        <4>3. QED
          BY <1>1, <2>3, <3>1, <3>3, <4>1, <4>2
      <3>4. CASE l = i
        <4>1. k # i /\ tbl'[k] = tbl[k] /\ tbl[k].by = e.by /\ tbl[k] # NULL
          BY <1>3, <1>4, <2>3, <3>1, <3>4
        <4>2. Start(e.by) <= k
          BY <1>2, <4>1 DEF TableInv
        <4>3. QED
          BY <1>1, <1>3, <2>3, <3>1, <3>4, <4>1, <4>2
      <3>5. QED
        BY <3>2, <3>3, <3>4
    <2>4. QED
      BY <2>1, <2>2, <2>3 DEF TableInv
  <1>6. tbl'[i].by = "COLUMN" <=> i >= ColStart
    BY <1>1, <1>3
  <1>7. /\ skip' \in Chains /\ Sound(skip') /\ Enabled' = Enabled \cup {i}
        /\ offs' \in ColStart..Length \cup {END} /\ offs' <= offs
        /\ offs' = IF i >= ColStart /\ i < offs THEN i ELSE offs
    BY <1>1, <1>2, <1>6, ToggleOn
  <1>8. \A k \in Enabled' : tbl'[k] # NULL /\ (k # i => tbl'[k] = tbl[k])
    BY <1>2, <1>3, <1>7, ChainFacts, Places0 DEF ChainSound
  <1>9. ChainSound'
    BY <1>7, <1>8, ChainSoundNext
  <1>10. /\ Columns' = IF i >= ColStart THEN Columns \cup {i} ELSE Columns
         /\ i \in Nat /\ ColStart \in Nat /\ offs \in Nat
    <2>1. i \in Nat /\ ColStart \in Nat /\ offs \in Nat
      BY <1>1, <1>2, Places0, Layout DEF TypeOK
    <2>2. \A k \in Ids : tbl'[k] # NULL <=> k = i \/ tbl[k] # NULL
      BY <1>1, <1>3, Places0
    <2>3. QED
      BY <1>1, <2>1, <2>2 DEF Columns
  <1>11. Columns' # {} => offs' \in (Columns' \cap Enabled') \cup {END}
    <2>1. CASE Columns # {}
      BY <1>2, <1>7, <1>10, <2>1
    <2>2. CASE Columns = {} /\ i >= ColStart
      <3>1. i = ColStart
        <4>1. e.by = "COLUMN" /\ Start(e.by) = ColStart
          BY <1>1, <2>2 DEF Start
        <4>2. SUFFICES ASSUME i > ColStart
                       PROVE  FALSE
          BY <1>10, <2>2
        <4>3. ColStart \in Ids
          BY <1>1, <1>10, <4>2, Layout DEF Ids
        <4>4. tbl[ColStart] # NULL
          BY <1>1, <1>10, <4>1, <4>2, <4>3
        <4>5. QED
          BY <1>10, <2>2, <4>3, <4>4 DEF Columns
      <3>2. offs >= ColStart
        BY <1>2, Layout DEF TypeOK
      <3>3. offs' = i
        BY <1>7, <1>10, <3>1, <3>2
      <3>4. QED
        BY <1>7, <1>10, <2>2, <3>3
    <2>3. CASE Columns = {} /\ ~ (i >= ColStart)
      BY <1>10, <2>3
    <2>4. QED
      BY <2>1, <2>2, <2>3
  <1>12. ASSUME ToCome(c), NEW k \in Columns' \cap Enabled', tbl'[k].at >= c
         PROVE  k >= offs'
    <2>1. k \in Nat /\ offs' \in Nat
      BY <1>7, Places0, Layout DEF Columns
    <2>2. CASE k = i
      <3>1. i >= ColStart
        BY <2>2, <1>10 DEF Columns
      <3>2. QED
        BY <1>7, <1>10, <2>2, <3>1
    <2>3. CASE k # i
      <3>1. k \in Columns \cap Enabled /\ tbl[k].at >= c
        BY <1>7, <1>8, <1>10, <1>12, <2>3
      <3>2. k >= offs
        BY <1>12, <3>1 DEF ToCome
      <3>3. QED
        BY <1>7, <1>10, <2>1, <3>2
    <2>4. QED
      BY <2>2, <2>3
  <1>13. QED
    BY <1>3, <1>5, <1>7, <1>9, <1>11, <1>12 DEF TableOK, ToCome, i

-----------------------------------------------------------------------------
(* Steps                                                                    *)

LEMMA SafePartsNext ==
  ASSUME TableOK', ToCome(NextCol)', ReaderOK', SearchInv', place' = "crash" => Columns' = {}
  PROVE  SafeInv'
  BY DEF SafeInv, TypeOK, TableOK, ToCome, ReaderOK, ColumnsToCome, Chains

LEMMA Untouched ==
  ASSUME SafeInv, UNCHANGED tableVars
  PROVE  /\ tbl' = tbl /\ skip' = skip /\ offs' = offs
         /\ Enabled' = Enabled /\ Columns' = Columns /\ TableOK'
  <1>1. TypeOK /\ ChainSound /\ TableOK
    BY SafeParts DEF SafeInv
  <1>2. tbl' = tbl /\ skip' = skip /\ offs' = offs
    BY DEF tableVars
  <1>3. Enabled' = Enabled /\ Columns' = Columns
    BY <1>2 DEF Enabled, Columns
  <1>4. ChainSound'
    BY <1>1, <1>2, <1>3, ChainFacts, ChainSoundNext
  <1>5. QED
    BY <1>1, <1>2, <1>3, <1>4 DEF TableOK, TableInv

LEMMA SafeInit == Init => SafeInv
  <1> SUFFICES ASSUME Init
               PROVE  SafeInv
    OBVIOUS
  <1>1. /\ tbl \in [Slots -> Entries \cup {DefaultEntry, NULL}]
        /\ skip \in Chains /\ offs \in ColStart..Length \cup {END}
        /\ \A i \in Ids : tbl[i] = NULL /\ skip[i] = 0
        /\ skip[0] = END /\ tbl[Length] = NULL
    <2>1. Length \in Slots /\ Length # 0
      BY Layout, CsvAssumption DEF Slots, Length, ColStart, RowStart, RgxStart
    <2>2. offs \in ColStart..Length
      BY Layout DEF Init
    <2>3. QED
      BY <2>1, <2>2, Places0 DEF Init, Chains
  <1>2. Enabled = {} /\ Columns = {} /\ On(skip) = {}
    BY <1>1 DEF Enabled, Columns, On
  <1>3. ChainSound
    <2>1. Leads(On(skip), 0, skip[0])
      BY <1>1, <1>2 DEF Leads
    <2>2. IsNext(0, skip[0])
      BY <1>1, <1>2, <2>1, ChainIsSound
    <2>3. QED
      BY <1>2, <2>2 DEF ChainSound
  <1>4. TableOK /\ ToCome(NextCol) /\ Columns = {}
    BY <1>1, <1>2, <1>3 DEF TableOK, TableInv, ToCome
  <1>5. ReaderOK /\ SearchInv
    BY CsvAssumption, Places0 DEF Init, ReaderOK, SearchInv, Places
  <1>6. QED
    BY <1>4, <1>5, SafeParts

LEMMA UserSafe ==
  ASSUME SafeInv, UserStep
  PROVE  SafeInv'
  <1>1. /\ place \in {"out", "call", "eor"} /\ UNCHANGED readerVars
        /\ TableOK /\ ToCome(NextCol) /\ ReaderOK /\ SearchInv
    BY SafeParts DEF UserStep
  <1>2. TableOK' /\ \A c : ToCome(c) => ToCome(c)'
    <2>1. CASE \E e \in Entries : Appends(e) /\ Enlist(e)
      BY <2>1, EnlistKeeps
    <2>2. CASE \E i \in Ids : Toggle(i)
      BY <2>2, ToggleKeeps
    <2>3. CASE \E i \in Ids : Clear(i)
      BY <2>3, ClearKeeps
    <2>4. CASE ClearAll
      BY <2>4, ClearAllKeeps
    <2>5. QED
      BY <2>1, <2>2, <2>3, <2>4 DEF UserStep
  <1>3. NextCol' = NextCol
    BY <1>1 DEF NextCol, readerVars
  <1>4. ToCome(NextCol)'
    BY <1>1, <1>2, <1>3 DEF ToCome
  <1>5. ReaderOK' /\ SearchInv' /\ place' # "crash"
    BY <1>1 DEF ReaderOK, SearchInv, readerVars
  <1>6. QED
    BY <1>2, <1>4, <1>5, SafePartsNext

(* A match: the callback is taken out of the chain if it is for one only.     *)
LEMMA HitKeeps ==
  ASSUME SafeInv, at \in Enabled, Hit
  PROVE  /\ tbl' = tbl /\ at' = at /\ place' = "call"
         /\ skip' \in Chains /\ TableInv' /\ ChainSound' /\ Columns' = Columns
         /\ Enabled' = IF tbl[at].once THEN Enabled \ {at} ELSE Enabled
  <1>1. TypeOK /\ TableInv /\ ChainSound
    BY DEF SafeInv
  <1>2. /\ tbl' = tbl /\ at' = at /\ place' = "call" /\ Columns' = Columns
        /\ skip' = IF tbl[at].once THEN Relinked(at) ELSE skip
    BY DEF Hit, Columns
  <1>3. at \in Ids /\ skip \in Chains /\ Sound(skip) /\ Enabled = On(skip) /\ Enabled' = On(skip')
    BY <1>1, ChainFacts DEF Enabled, On
  <1>4. /\ skip' \in Chains /\ Sound(skip')
        /\ Enabled' = IF tbl[at].once THEN Enabled \ {at} ELSE Enabled
    BY <1>2, <1>3, RelinkedIsSound
  <1>5. TableInv'
    BY <1>1, <1>2 DEF TableInv
  <1>6. ChainSound'
    BY <1>1, <1>2, <1>4, ChainSoundNext DEF ChainSound
  <1>7. QED
    BY <1>2, <1>4, <1>5, <1>6

(* No match: the search goes on with the next enabled callback.               *)
LEMMA PassOn ==
  ASSUME SafeInv, at \in Enabled, tbl' = tbl, Enabled' \subseteq Enabled, at' = skip[at],
         place \in {"search", "columns"}, UNCHANGED <<row, col, field>>,
         ~ Promised!Matches(tbl[at], field)
  PROVE  /\ at' \in Enabled \cup {END} /\ at' > at /\ at' \in Slots \cup {END}
         /\ \A k \in Enabled' : k < at' => ~ Promised!Matches(tbl[k], field)'
  <1>1. TypeOK /\ ChainSound /\ \A k \in Enabled : k < at => ~ Promised!Matches(tbl[k], field)
    BY DEF SafeInv, SearchInv
  <1>2. /\ skip[at] \in Enabled \cup {END} /\ skip[at] > at
        /\ \A k \in Enabled : k > at => k >= skip[at]
    BY <1>1, NextFacts
  <1>3. /\ \A k \in Enabled \cup {END} : k \in Nat
        /\ at \in Nat /\ Enabled \subseteq Slots
    BY <1>1, ChainFacts, Places0
  <1>4. ASSUME NEW k \in Enabled', k < at'
        PROVE  ~ Promised!Matches(tbl[k], field)'
    <2>1. k \in Enabled /\ k <= at
      <3>1. k \in Enabled /\ k \in Nat /\ at \in Nat /\ skip[at] \in Nat
        BY <1>2, <1>3
      <3>2. ~ (k > at)
        BY <1>2, <1>4, <3>1
      <3>3. QED
        BY <3>1, <3>2
    <2>2. ~ Promised!Matches(tbl[k], field)
      BY <1>1, <1>3, <2>1
    <2>3. QED
      BY <2>2 DEF Promised!Matches
  <1>5. at' \in Enabled \cup {END} /\ at' > at /\ at' \in Slots \cup {END}
    BY <1>2, <1>3
  <1>6. QED
    BY <1>4, <1>5

(* The search through the callbacks for texts and rows, at a match ...        *)
LEMMA CallSafe ==
  ASSUME SafeInv, place = "search", at \in Enabled, at < ColStart,
         Hit, offs' = offs, UNCHANGED <<row, col, field>>
  PROVE  SafeInv'
  <1>1. /\ TypeOK /\ TableInv /\ TableOK /\ ToCome(col) /\ ReaderOK /\ SearchInv
    BY SafeParts DEF SafeInv, NextCol
  <1>2. at \in Ids /\ \A i \in Columns \cap Enabled : i # at
    <2>1. at \in Ids /\ \A i \in Columns : i >= ColStart /\ i \in Nat
      BY <1>1, ChainFacts, Places0 DEF Columns
    <2>2. QED
      BY <2>1, Places0, Layout
  <1>3. /\ tbl' = tbl /\ at' = at /\ place' = "call"
        /\ skip' \in Chains /\ TableInv' /\ ChainSound' /\ Columns' = Columns
        /\ Enabled' = IF tbl[at].once THEN Enabled \ {at} ELSE Enabled
    BY HitKeeps
  <1>4. Columns \cap Enabled' = Columns \cap Enabled
    BY <1>2, <1>3
  <1>5. TableOK'
    BY <1>1, <1>3, <1>4 DEF TableOK
  <1>6. ToCome(NextCol)'
    <2>1. ASSUME NEW i \in Columns \cap Enabled, tbl[i].at >= col + 1
          PROVE  i >= offs
      <3>1. col \in Nat /\ tbl[i].at \in Nat
        BY <1>1, ColumnFacts DEF ReaderOK, Columns
      <3>2. tbl[i].at >= col
        BY <2>1, <3>1
      <3>3. QED
        BY <1>1, <3>2 DEF ToCome
    <2>2. QED
      BY <1>3, <1>4, <2>1 DEF ToCome, NextCol
  <1>7. ReaderOK' /\ SearchInv' /\ place' # "crash"
    BY <1>1, <1>2, <1>3 DEF ReaderOK, SearchInv, Places
  <1>8. QED
    BY <1>5, <1>6, <1>7, SafePartsNext

(* ... and past a callback that does not match.                               *)
LEMMA PassSafe ==
  ASSUME SafeInv, place = "search", at \in Enabled, ~ Promised!Matches(tbl[at], field),
         GoTo("search", skip[at]), UNCHANGED tableVars, UNCHANGED <<row, col, field>>
  PROVE  SafeInv'
  <1>1. /\ TypeOK /\ TableInv /\ ChainSound /\ TableOK /\ ToCome(col) /\ ReaderOK /\ SearchInv
    BY SafeParts DEF SafeInv, NextCol
  <1>2. place' = "search" /\ at' = skip[at]
    BY DEF GoTo
  <1>3. tbl' = tbl /\ offs' = offs /\ Enabled' = Enabled /\ Columns' = Columns /\ TableOK'
    BY Untouched
  <1>4. /\ at' \in Enabled \cup {END} /\ at' > at /\ at' \in Slots \cup {END}
        /\ \A k \in Enabled' : k < at' => ~ Promised!Matches(tbl[k], field)'
    BY <1>2, <1>3, PassOn
  <1>5. ToCome(NextCol)'
    BY <1>1, <1>2, <1>3 DEF ToCome, NextCol
  <1>6. ReaderOK' /\ SearchInv' /\ place' # "crash"
    BY <1>1, <1>2, <1>3, <1>4 DEF ReaderOK, SearchInv, Places
  <1>7. QED
    BY <1>3, <1>5, <1>6, SafePartsNext

LEMMA SearchTextFacts ==
  ASSUME SafeInv, place = "search", at < ColStart
  PROVE  at \in Enabled /\ at \in Ids /\ tbl[at] # NULL
  <1>1. TypeOK /\ ChainSound /\ at \in Enabled \cup {END}
    BY DEF SafeInv, SearchInv
  <1>2. QED
    BY <1>1, ChainFacts, Layout DEF ChainSound

LEMMA SearchTextSafe ==
  ASSUME SafeInv, SearchText
  PROVE  SafeInv'
  <1>1. /\ TypeOK /\ TableInv /\ place = "search" /\ at < RowStart
        /\ UNCHANGED <<row, col, field>> /\ at \in Slots \cup {END}
    BY DEF SafeInv, SearchText, TypeOK
  <1>2. at < ColStart
    BY <1>1, Places0, Layout
  <1>3. at \in Enabled /\ at \in Ids /\ tbl[at] # NULL
    BY <1>1, <1>2, SearchTextFacts
  <1>4. tbl[at].by \in {"KEYWORD", "REGEX"}
    BY <1>1, <1>3, ColumnFacts
  <1>5. CASE tbl[at].at = field
    <2>1. Hit /\ offs' = offs
      BY <1>5 DEF SearchText
    <2>2. QED
      BY <1>1, <1>2, <1>3, <2>1, CallSafe
  <1>6. CASE tbl[at].at # field
    <2>1. GoTo("search", skip[at]) /\ UNCHANGED tableVars
      BY <1>6 DEF SearchText
    <2>2. ~ Promised!Matches(tbl[at], field)
      BY <1>4, <1>6 DEF Promised!Matches
    <2>3. QED
      BY <1>1, <1>3, <2>1, <2>2, PassSafe
  <1>7. QED
    BY <1>5, <1>6

LEMMA SearchRowSafe ==
  ASSUME SafeInv, SearchRow
  PROVE  SafeInv'
  <1>1. /\ TypeOK /\ TableInv /\ ChainSound /\ place = "search" /\ at \in RowStart..(ColStart - 1)
        /\ UNCHANGED <<row, col, field>> /\ row \in Nat
        /\ TableOK /\ ToCome(col) /\ ReaderOK /\ SearchInv
    BY SafeParts DEF SafeInv, SearchRow, TypeOK, NextCol
  <1>2. at < ColStart /\ at >= RowStart /\ ~ (at < RowStart) /\ ~ (at >= ColStart)
    BY <1>1, Layout
  <1>3. at \in Enabled /\ at \in Ids /\ tbl[at] # NULL
    BY <1>1, <1>2, SearchTextFacts
  <1>4. tbl[at].by = "ROW" /\ tbl[at].at \in Nat
    BY <1>1, <1>2, <1>3, ColumnFacts DEF Kinds
  <1>5. CASE tbl[at].at = row /\ Hit /\ UNCHANGED offs
    BY <1>1, <1>2, <1>3, <1>5, CallSafe
  <1>6. tbl[at].at # row => ~ Promised!Matches(tbl[at], field)
    BY <1>4 DEF Promised!Matches
  <1>7. CASE tbl[at].at > row /\ GoTo("search", skip[at]) /\ UNCHANGED tableVars
    BY <1>1, <1>3, <1>4, <1>6, <1>7, PassSafe
  <1>8. CASE tbl[at].at < row /\ GoTo("search", skip[at]) /\ Toggle(at)
    <2>1. TableOK' /\ \A c : ToCome(c) => ToCome(c)'
      BY <1>3, <1>8, ToggleKeeps
    <2>2. place' = "search" /\ at' = skip[at] /\ tbl' = tbl /\ Columns' = Columns
      BY <1>8 DEF GoTo, Toggle, Columns
    <2>3. ToCome(NextCol)'
      BY <1>1, <2>1, <2>2 DEF ToCome, NextCol
    <2>4. Enabled' = Enabled \ {at}
      <3>1. ToggleIn(tbl, at)
        BY <1>8 DEF Toggle
      <3>2. QED
        BY <1>1, <1>2, <1>3, <1>4, <3>1, ToggleOff
    <2>5. ~ Promised!Matches(tbl[at], field)
      BY <1>1, <1>4, <1>6, <1>8
    <2>6. /\ at' \in Enabled \cup {END} /\ at' > at /\ at' \in Slots \cup {END}
          /\ \A k \in Enabled' : k < at' => ~ Promised!Matches(tbl[k], field)'
      BY <1>1, <1>3, <2>2, <2>4, <2>5, PassOn
    <2>7. at' \in Enabled' \cup {END}
      BY <1>3, <2>4, <2>6, Places0
    <2>8. ReaderOK' /\ SearchInv' /\ place' # "crash"
      BY <1>1, <2>2, <2>6, <2>7 DEF ReaderOK, SearchInv, Places
    <2>9. QED
      BY <2>1, <2>3, <2>8, SafePartsNext
  <1>9. QED
    BY <1>5, <1>7, <1>8 DEF SearchRow

LEMMA SearchColumnsSafe ==
  ASSUME SafeInv, SearchColumns
  PROVE  SafeInv'
  <1>1. /\ TypeOK /\ TableInv /\ ChainSound /\ place = "search" /\ at >= ColStart
        /\ UNCHANGED <<row, col, field>> /\ col \in Nat
        /\ TableOK /\ ToCome(col) /\ ReaderOK /\ SearchInv
    BY SafeParts DEF SafeInv, SearchColumns, TypeOK, NextCol
  <1>2. place' = "columns" /\ at' = offs /\ UNCHANGED tableVars
    BY DEF SearchColumns, GoTo
  <1>3. tbl' = tbl /\ offs' = offs /\ Enabled' = Enabled /\ Columns' = Columns /\ TableOK'
    BY <1>2, Untouched
  <1>4. ToCome(NextCol)'
    BY <1>1, <1>2, <1>3 DEF ToCome, NextCol
  <1>5. ASSUME NEW k \in Enabled, k < offs
        PROVE  ~ Promised!Matches(tbl[k], field)'
    <2>1. k \in Ids /\ k \in Nat /\ tbl[k] # NULL /\ ColStart \in Nat /\ offs \in Nat /\ at \in Nat
      BY <1>1, ChainFacts, Places0, Layout DEF ChainSound, TypeOK
    <2>2. CASE k < ColStart
      <3>1. ~ Promised!Matches(tbl[k], field)
        BY <1>1, <2>1, <2>2 DEF SearchInv
      <3>2. QED
        BY <1>1, <1>3, <3>1 DEF Promised!Matches
    <2>3. CASE k >= ColStart
      <3>1. k \in Columns \cap Enabled /\ tbl[k].by = "COLUMN" /\ tbl[k].at \in Nat
        BY <1>1, <2>1, <2>3, ColumnFacts DEF Columns
      <3>2. ~ (tbl[k].at >= col)
        BY <1>1, <1>5, <2>1, <3>1 DEF ToCome
      <3>3. tbl[k].at # col
        BY <1>1, <3>1, <3>2
      <3>4. QED
        BY <1>1, <1>3, <3>1, <3>3 DEF Promised!Matches
    <2>4. QED
      BY <2>1, <2>2, <2>3
  <1>6. ReaderOK' /\ SearchInv' /\ place' # "crash"
    <2>1. at' \in Slots \cup {END}
      BY <1>1, <1>2, Layout DEF TypeOK, Slots
    <2>2. at' \in (Columns \cap Enabled) \cup {END} \/ (Columns = {} /\ at' \in ColStart..Length)
      BY <1>1, <1>2 DEF TableOK
    <2>3. QED
      BY <1>1, <1>2, <1>3, <1>5, <2>1, <2>2 DEF ReaderOK, SearchInv, Places
  <1>7. QED
    BY <1>3, <1>4, <1>6, SafePartsNext

(* The slot the search is at among the columns.                               *)
LEMMA ColumnAt ==
  ASSUME SafeInv, place = "columns", at # END, tbl[at] # NULL
  PROVE  at \in Columns \cap Enabled
  <1>1. /\ TableInv
        /\ \/ at \in (Columns \cap Enabled) \cup {END}
           \/ Columns = {} /\ at \in ColStart..Length
    BY DEF SafeInv, SearchInv
  <1>2. CASE Columns = {} /\ at \in ColStart..Length
    <2>1. at # Length
      BY <1>1 DEF TableInv
    <2>2. at \in Ids /\ at >= ColStart
      BY <1>2, <2>1, Layout, CsvAssumption DEF Ids, ColStart, RowStart, RgxStart
    <2>3. QED
      BY <1>2, <2>2 DEF Columns
  <1>3. QED
    BY <1>1, <1>2

(* Once a column has been reached, the row's next one is behind it.           *)
LEMMA ColumnPassed ==
  ASSUME SafeInv, at \in Columns \cap Enabled, NEW c \in Nat, tbl[at].at < c
  PROVE  /\ skip[at] \in (Columns \cap Enabled) \cup {END} /\ skip[at] > at
         /\ \A k \in Columns \cap Enabled : tbl[k].at >= c => k >= skip[at]
  <1>1. TypeOK /\ TableInv /\ ChainSound
    BY DEF SafeInv
  <1>2. /\ skip[at] \in Enabled \cup {END} /\ skip[at] > at
        /\ \A k \in Enabled : k > at => k >= skip[at]
    BY <1>1, NextFacts
  <1>3. /\ Columns \cap Enabled = Enabled \cap ColSlots
        /\ \A k \in Enabled : k \in Ids /\ k \in Nat
        /\ at \in Nat /\ at >= ColStart /\ ColStart \in Nat
    BY <1>1, ColumnSlots, ChainFacts, Places0, Layout DEF ColSlots
  <1>4. skip[at] \in (Columns \cap Enabled) \cup {END}
    <2>1. CASE skip[at] = END
      BY <2>1
    <2>2. CASE skip[at] \in Enabled
      <3>1. skip[at] \in Nat /\ skip[at] \in Ids
        BY <1>3, <2>2
      <3>2. skip[at] >= ColStart
        BY <1>2, <1>3, <3>1
      <3>3. QED
        BY <1>3, <2>2, <3>1, <3>2 DEF ColSlots
    <2>3. QED
      BY <1>2, <2>1, <2>2
  <1>5. ASSUME NEW k \in Columns \cap Enabled, tbl[k].at >= c
        PROVE  k >= skip[at]
    <2>1. tbl[k].at \in Nat /\ tbl[at].at \in Nat
      BY <1>1, ColumnFacts DEF Columns
    <2>2. ~ (tbl[k].at <= tbl[at].at)
      BY <1>5, <2>1
    <2>3. ~ (k < at) /\ k # at
      BY <1>1, <2>1, <2>2, ColumnFacts
    <2>4. k \in Nat /\ k > at
      BY <1>3, <2>3
    <2>5. QED
      BY <1>2, <2>4
  <1>6. QED
    BY <1>2, <1>4, <1>5

LEMMA SearchColumnSafe ==
  ASSUME SafeInv, SearchColumn
  PROVE  SafeInv'
  <1>1. /\ TypeOK /\ TableInv /\ ChainSound /\ place = "columns" /\ at # END
        /\ UNCHANGED <<row, col, field>> /\ col \in Nat
        /\ TableOK /\ ToCome(col) /\ ReaderOK /\ SearchInv
    BY SafeParts DEF SafeInv, SearchColumn, SearchColumnThen, TypeOK, NextCol
  <1>2. CASE tbl[at] = NULL /\ GoTo("crash", at) /\ UNCHANGED tableVars
    <2>1. place' = "crash" /\ at' = at
      BY <1>2 DEF GoTo
    <2>2. Columns' = Columns /\ TableOK'
      BY <1>2, Untouched
    <2>3. Columns' = {}
      <3>1. \A i \in Columns : tbl[i] # NULL
        BY DEF Columns
      <3>2. QED
        BY <1>1, <1>2, <2>2, <3>1 DEF SearchInv
    <2>4. ToCome(NextCol)' /\ ReaderOK' /\ SearchInv'
      BY <1>1, <2>1, <2>3 DEF ToCome, ReaderOK, SearchInv, Places
    <2>5. QED
      BY <2>2, <2>3, <2>4, SafePartsNext
  <1>3. SUFFICES ASSUME tbl[at] # NULL
                 PROVE  SafeInv'
    BY <1>2 DEF SearchColumn, SearchColumnThen
  <1>4. /\ at \in Columns \cap Enabled /\ at \in Ids /\ at \in Enabled
        /\ tbl[at].by = "COLUMN" /\ tbl[at].at \in Nat
    <2>1. at \in Columns \cap Enabled
      BY <1>1, <1>3, ColumnAt
    <2>2. QED
      BY <1>1, <2>1, ColumnFacts DEF Columns
  <1>5. CASE GoTo("columns", skip[at]) /\ tbl' = tbl /\ skip' = skip /\ tbl[at].at # col
             /\ (offs' = offs \/ (tbl[at].at < col /\ offs' = skip[at]))
    <2>1. place' = "columns" /\ at' = skip[at]
      BY <1>5 DEF GoTo
    <2>2. Enabled' = Enabled /\ Columns' = Columns
      BY <1>5 DEF Enabled, Columns
    <2>3. ~ Promised!Matches(tbl[at], field)
      BY <1>4, <1>5 DEF Promised!Matches
    <2>4. /\ at' \in Enabled \cup {END} /\ at' > at /\ at' \in Slots \cup {END}
          /\ \A k \in Enabled' : k < at' => ~ Promised!Matches(tbl[k], field)'
      BY <1>1, <1>4, <1>5, <2>1, <2>2, <2>3, PassOn
    <2>5. /\ tbl[at].at < col => /\ skip[at] \in (Columns \cap Enabled) \cup {END}
                                 /\ \A k \in Columns \cap Enabled : tbl[k].at >= col => k >= skip[at]
          /\ skip[at] \in (Columns \cap Enabled) \cup {END}
      <3>1. tbl[at].at < col => /\ skip[at] \in (Columns \cap Enabled) \cup {END}
                                /\ \A k \in Columns \cap Enabled : tbl[k].at >= col => k >= skip[at]
        BY <1>1, <1>4, ColumnPassed
      <3>2. tbl[at].at < tbl[at].at + 1 /\ tbl[at].at + 1 \in Nat
        BY <1>4
      <3>3. skip[at] \in (Columns \cap Enabled) \cup {END}
        BY <1>4, <3>2, ColumnPassed
      <3>4. QED
        BY <3>1, <3>3
    <2>6. /\ offs' \in ColStart..Length \cup {END}
          /\ Columns # {} => offs' \in (Columns \cap Enabled) \cup {END}
      <3>1. \A k \in Columns : k \in ColStart..Length
        BY Places0, Layout DEF Columns
      <3>2. QED
        BY <1>1, <1>5, <2>5, <3>1 DEF TableOK
    <2>7. TableOK'
      <3>1. ChainSound'
        BY <1>1, <1>5, <2>2, ChainFacts, ChainSoundNext
      <3>2. QED
        BY <1>1, <1>5, <2>2, <2>6, <3>1 DEF TableOK, TableInv
    <2>8. ToCome(NextCol)'
      BY <1>1, <1>5, <2>1, <2>2, <2>5 DEF ToCome, NextCol
    <2>9. ReaderOK' /\ SearchInv' /\ place' # "crash"
      BY <1>1, <2>1, <1>5, <2>2, <2>4, <2>5 DEF ReaderOK, SearchInv, Places
    <2>10. QED
      BY <2>7, <2>8, <2>9, SafePartsNext
  <1>6. CASE tbl[at].at = col /\ Hit /\ offs' = skip[at]
    <2>1. /\ tbl' = tbl /\ at' = at /\ place' = "call"
          /\ skip' \in Chains /\ TableInv' /\ ChainSound' /\ Columns' = Columns
          /\ Enabled' = IF tbl[at].once THEN Enabled \ {at} ELSE Enabled
      BY <1>4, <1>6, HitKeeps
    <2>2. /\ skip[at] \in (Columns \cap Enabled) \cup {END} /\ skip[at] > at
          /\ \A k \in Columns \cap Enabled : tbl[k].at >= col + 1 => k >= skip[at]
      <3>1. col + 1 \in Nat /\ tbl[at].at < col + 1
        BY <1>1, <1>6
      <3>2. QED
        BY <1>4, <3>1, ColumnPassed
    <2>3. at \in Nat /\ \A k \in Columns : k \in ColStart..Length
      BY <1>4, Places0, Layout DEF Columns
    <2>4. skip[at] # at
      <3>1. skip[at] \in Nat
        BY <2>2, <2>3, Places0, Layout
      <3>2. QED
        BY <2>2, <2>3, <3>1
    <2>5. /\ offs' \in (Columns' \cap Enabled') \cup {END}
          /\ offs' \in ColStart..Length \cup {END}
      BY <1>6, <2>1, <2>2, <2>3, <2>4
    <2>6. TableOK'
      BY <1>1, <2>1, <2>5 DEF TableOK
    <2>7. ToCome(NextCol)'
      BY <1>1, <1>6, <2>1, <2>2 DEF ToCome, NextCol
    <2>8. ReaderOK' /\ SearchInv' /\ place' # "crash"
      BY <1>1, <1>4, <2>1 DEF ReaderOK, SearchInv, Places
    <2>9. QED
      BY <2>6, <2>7, <2>8, SafePartsNext
  <1>7. QED
    <2>1. \/ tbl[at].at > col /\ GoTo("columns", skip[at]) /\ UNCHANGED tableVars
          \/ /\ tbl[at].at < col
             /\ GoTo("columns", skip[at]) /\ offs' = skip[at] /\ UNCHANGED <<tbl, skip>>
          \/ tbl[at].at = col /\ Hit /\ offs' = skip[at]
      BY <1>3 DEF SearchColumn, SearchColumnThen
    <2>2. tbl[at].at > col \/ tbl[at].at < col => tbl[at].at # col
      BY <1>1, <1>4
    <2>3. QED
      BY <1>5, <1>6, <2>1, <2>2 DEF tableVars

LEMMA SearchFailsSafe ==
  ASSUME SafeInv, SearchFails
  PROVE  SafeInv'
  <1>1. /\ TypeOK /\ TableInv /\ ChainSound /\ place = "columns" /\ at = END
        /\ UNCHANGED <<row, col, field>> /\ col \in Nat
        /\ TableOK /\ ToCome(col) /\ ReaderOK /\ SearchInv
    BY SafeParts DEF SafeInv, SearchFails, TypeOK, NextCol
  <1>2. place' = "call" /\ at' = 0 /\ UNCHANGED tableVars
    BY DEF SearchFails, GoTo
  <1>3. tbl' = tbl /\ offs' = offs /\ Enabled' = Enabled /\ Columns' = Columns /\ TableOK'
    BY <1>2, Untouched
  <1>4. ToCome(NextCol)'
    <2>1. ASSUME NEW i \in Columns \cap Enabled, tbl[i].at >= col + 1
          PROVE  i >= offs
      <3>1. tbl[i].at \in Nat
        BY <1>1, ColumnFacts DEF Columns
      <3>2. tbl[i].at >= col
        BY <1>1, <2>1, <3>1
      <3>3. QED
        BY <1>1, <3>2 DEF ToCome
    <2>2. QED
      BY <1>1, <1>2, <1>3, <2>1 DEF ToCome, NextCol
  <1>5. ReaderOK' /\ SearchInv' /\ place' # "crash"
    BY <1>1, <1>2, Places0 DEF ReaderOK, SearchInv, Places
  <1>6. QED
    BY <1>3, <1>4, <1>5, SafePartsNext

LEMMA SearchSafe ==
  ASSUME SafeInv, Search
  PROVE  SafeInv'
  BY SearchTextSafe, SearchRowSafe, SearchColumnsSafe, SearchColumnSafe, SearchFailsSafe DEF Search

(* What a step of the search does to the callbacks, and that a call goes to a    *)
(* callback that matches, or to the default one because none does.           *)
LEMMA SearchFinds ==
  ASSUME SafeInv, Search
  PROVE  /\ tbl' = tbl /\ row' = row /\ col' = col /\ field' = field
         /\ place \in {"search", "columns"}
         /\ place' \in {"search", "columns", "call", "crash"}
         /\ place' = "crash" => Columns = {}
         /\ Enabled' \subseteq Enabled
         /\ \A k \in Enabled \ Enabled' : tbl[k].once \/ (tbl[k].by = "ROW" /\ tbl[k].at < row)
         /\ place' = "call" =>
               IF at' = 0 THEN \A k \in Enabled' : ~ Promised!Matches(tbl[k], field)
                          ELSE /\ at' \in Ids /\ at' \in Enabled /\ tbl[at'] # NULL
                               /\ Promised!Matches(tbl[at'], field)
  <1>0. /\ TypeOK /\ TableInv /\ ChainSound /\ SearchInv /\ ColumnsToCome
        /\ RowStart \in Nat /\ ColStart \in Nat /\ RowStart <= ColStart /\ END \in Nat
        /\ ColStart < END
    BY Layout DEF SafeInv
  <1>1. CASE SearchText
    <2>1. place = "search" /\ at \in Enabled /\ at \in Ids /\ tbl[at] # NULL /\ at # 0
      <3>1. place = "search" /\ at < RowStart /\ at \in Slots \cup {END}
        BY <1>0, <1>1 DEF SearchText, TypeOK
      <3>2. at < ColStart
        BY <1>0, <3>1, Places0
      <3>3. QED
        BY <3>1, <3>2, SearchTextFacts, Places0
    <2>2. tbl[at].by \in {"KEYWORD", "REGEX"}
      BY <1>0, <1>1, <2>1, ColumnFacts DEF SearchText
    <2>3. CASE tbl[at].at = field
      <3>1. Hit /\ row' = row /\ col' = col /\ field' = field
        BY <1>1, <2>3 DEF SearchText
      <3>2. /\ tbl' = tbl /\ at' = at /\ place' = "call"
            /\ Enabled' = IF tbl[at].once THEN Enabled \ {at} ELSE Enabled
        BY <2>1, <3>1, HitKeeps
      <3>3. QED
        BY <2>1, <2>2, <2>3, <3>1, <3>2 DEF Promised!Matches
    <2>4. CASE tbl[at].at # field
      BY <1>1, <2>1, <2>4 DEF SearchText, GoTo, tableVars, Enabled
    <2>5. QED
      BY <2>3, <2>4
  <1>2. CASE SearchRow
    <2>1. place = "search" /\ at \in Enabled /\ at \in Ids /\ tbl[at] # NULL /\ at # 0
      <3>1. place = "search" /\ at < ColStart
        BY <1>0, <1>2 DEF SearchRow
      <3>2. QED
        BY <3>1, SearchTextFacts, Places0
    <2>2. tbl[at].by = "ROW"
      <3>1. at >= RowStart /\ at < ColStart
        BY <1>0, <1>2 DEF SearchRow
      <3>2. ~ (at < RowStart) /\ ~ (at >= ColStart)
        BY <1>0, <2>1, <3>1, Places0
      <3>3. QED
        BY <1>0, <2>1, <3>2, ColumnFacts DEF Kinds
    <2>3. CASE tbl[at].at = row /\ Hit
      <3>1. row' = row /\ col' = col /\ field' = field
        BY <1>2 DEF SearchRow
      <3>2. /\ tbl' = tbl /\ at' = at /\ place' = "call"
            /\ Enabled' = IF tbl[at].once THEN Enabled \ {at} ELSE Enabled
        BY <2>1, <2>3, HitKeeps
      <3>3. QED
        BY <2>1, <2>2, <2>3, <3>1, <3>2 DEF Promised!Matches
    <2>4. CASE GoTo("search", skip[at]) /\ UNCHANGED tableVars
      BY <1>2, <2>1, <2>4 DEF SearchRow, GoTo, tableVars, Enabled
    <2>5. CASE tbl[at].at < row /\ GoTo("search", skip[at]) /\ Toggle(at)
      <3>1. Enabled' = Enabled \ {at}
        BY <2>1, <2>5, ToggleKeeps
      <3>2. tbl' = tbl /\ place' = "search" /\ row' = row /\ col' = col /\ field' = field
        BY <1>2, <2>5 DEF SearchRow, GoTo, Toggle
      <3>3. QED
        BY <2>1, <2>2, <2>5, <3>1, <3>2
    <2>6. QED
      BY <1>2, <2>3, <2>4, <2>5 DEF SearchRow
  <1>3. CASE SearchColumns
    BY <1>3 DEF SearchColumns, GoTo, tableVars, Enabled
  <1>4. CASE SearchColumn
    <2>1. place = "columns" /\ at # END /\ row' = row /\ col' = col /\ field' = field
      BY <1>4 DEF SearchColumn, SearchColumnThen
    <2>2. CASE tbl[at] = NULL /\ GoTo("crash", at) /\ UNCHANGED tableVars
      <3>1. Columns = {}
        BY <1>0, <2>1, <2>2 DEF SearchInv, Columns
      <3>2. QED
        BY <2>1, <2>2, <3>1 DEF GoTo, tableVars, Enabled
    <2>3. CASE tbl[at] # NULL /\ GoTo("columns", skip[at]) /\ tbl' = tbl /\ skip' = skip
      BY <2>1, <2>3 DEF GoTo, Enabled
    <2>4. CASE tbl[at] # NULL /\ tbl[at].at = col /\ Hit
      <3>1. at \in Columns \cap Enabled
        BY <2>1, <2>4, ColumnAt
      <3>2. /\ tbl' = tbl /\ at' = at /\ place' = "call"
            /\ Enabled' = IF tbl[at].once THEN Enabled \ {at} ELSE Enabled
        BY <2>4, <3>1, HitKeeps
      <3>3. at \in Ids /\ at # 0 /\ at >= ColStart
        BY <3>1, Places0 DEF Columns
      <3>4. tbl[at].by = "COLUMN"
        BY <1>0, <2>4, <3>3, ColumnFacts
      <3>5. QED
        BY <2>1, <2>4, <3>1, <3>2, <3>3, <3>4 DEF Promised!Matches
    <2>5. QED
      BY <1>4, <2>2, <2>3, <2>4 DEF SearchColumn, SearchColumnThen, tableVars
  <1>5. CASE SearchFails
    <2>1. /\ place = "columns" /\ at = END /\ place' = "call" /\ at' = 0
          /\ tbl' = tbl /\ skip' = skip /\ row' = row /\ col' = col /\ field' = field
      BY <1>5 DEF SearchFails, GoTo, tableVars
    <2>2. \A k \in Enabled : k < at
      BY <1>0, <2>1, ChainFacts, Places0
    <2>3. \A k \in Enabled : ~ Promised!Matches(tbl[k], field)
      BY <1>0, <2>1, <2>2 DEF SearchInv
    <2>4. Enabled' = Enabled
      BY <2>1 DEF Enabled
    <2>5. QED
      BY <2>1, <2>3, <2>4
  <1>6. QED
    BY <1>1, <1>2, <1>3, <1>4, <1>5 DEF Search

LEMMA FieldSafe ==
  ASSUME SafeInv, NEW t \in Texts, Field(t)
  PROVE  SafeInv'
  <1>1. /\ TypeOK /\ ChainSound /\ TableOK /\ ToCome(col) /\ ReaderOK /\ place = "row"
        /\ place' = "search" /\ at' = skip[0] /\ field' = t /\ row' = row /\ col' = col
        /\ col <= MaxCol /\ UNCHANGED tableVars
    BY SafeParts DEF SafeInv, NextCol, Field
  <1>2. tbl' = tbl /\ offs' = offs /\ Enabled' = Enabled /\ Columns' = Columns /\ TableOK'
    BY <1>1, Untouched
  <1>3. /\ at' \in Enabled \cup {END} /\ at' \in Slots \cup {END}
        /\ \A k \in Enabled : ~ (k < at')
    <2>1. /\ skip[0] \in Enabled \cup {END}
          /\ \A k \in Enabled : k > 0 => k >= skip[0]
      BY <1>1, NextFacts
    <2>2. Enabled \subseteq Slots /\ \A k \in Enabled \cup {END} : k \in Nat /\ k > 0
      BY <1>1, ChainFacts, Places0, Layout
    <2>3. QED
      BY <1>1, <2>1, <2>2
  <1>4. ToCome(NextCol)'
    BY <1>1, <1>2 DEF ToCome, NextCol
  <1>5. ReaderOK' /\ SearchInv' /\ place' # "crash"
    BY <1>1, <1>2, <1>3 DEF ReaderOK, SearchInv, Places
  <1>6. QED
    BY <1>2, <1>4, <1>5, SafePartsNext

(* The reader goes on in the file; the callbacks are as they were.            *)
LEMMA MoveSafe ==
  ASSUME SafeInv, UNCHANGED tableVars,
         place' \in {"out", "row"}, place' = "out" => col' = 0,
         at' = 0, field' = NULL, row' \in 0..(MaxRow + 1), col' \in 0..(MaxCol + 1),
         NextCol \in Nat, col' >= NextCol
  PROVE  SafeInv'
  <1>1. TypeOK /\ TableInv /\ ToCome(NextCol)
    BY SafeParts DEF SafeInv
  <1>2. tbl' = tbl /\ offs' = offs /\ Enabled' = Enabled /\ Columns' = Columns /\ TableOK'
    BY Untouched
  <1>3. ToCome(NextCol)'
    <2>1. ASSUME NEW i \in Columns \cap Enabled, tbl[i].at >= col'
          PROVE  i >= offs
      <3>1. tbl[i].at \in Nat /\ col' \in Nat
        BY <1>1, ColumnFacts, CsvAssumption DEF Columns
      <3>2. tbl[i].at >= NextCol
        BY <2>1, <3>1
      <3>3. QED
        BY <1>1, <3>2 DEF ToCome
    <2>2. NextCol' = col'
      BY DEF NextCol
    <2>3. QED
      BY <1>2, <2>1, <2>2 DEF ToCome
  <1>4. ReaderOK' /\ SearchInv' /\ place' # "crash"
    BY Places0 DEF ReaderOK, SearchInv, Places
  <1>5. QED
    BY <1>2, <1>3, <1>4, SafePartsNext

LEMMA EndRowSafe ==
  ASSUME SafeInv, EndRow
  PROVE  SafeInv'
  <1>1. /\ TypeOK /\ TableInv /\ ChainSound /\ TableOK /\ ReaderOK /\ place' = "eor"
        /\ row' = row /\ col' = col /\ row <= MaxRow /\ at' = 0 /\ field' = NULL
        /\ tbl' = tbl /\ skip' = skip /\ offs' = FirstColumn
    BY SafeParts DEF SafeInv, EndRow, Move
  <1>2. Enabled' = Enabled /\ Columns' = Columns
    BY <1>1 DEF Enabled, Columns
  <1>3. /\ Columns \cap Enabled = Enabled \cap ColSlots
        /\ \A i \in Columns \cap Enabled : i \in Nat /\ i \in ColStart..Length
    BY <1>1, ColumnSlots, Places0, Layout DEF Columns
  <1>4. /\ FirstColumn \in (Columns \cap Enabled) \cup {END}
        /\ \A i \in Columns \cap Enabled : i >= FirstColumn
    <2> DEFINE S == {i \in Enabled : i >= ColStart}
    <2>1. S = Columns \cap Enabled
      BY <1>1, <1>3, ChainFacts DEF ColSlots
    <2>2. CASE S = {}
      BY <2>1, <2>2 DEF FirstColumn
    <2>3. CASE S # {}
      <3>1. Min(S) \in S /\ \A i \in S : Min(S) <= i
        BY <1>3, <2>1, <2>3, MinIs
      <3>2. FirstColumn = Min(S)
        BY <2>3 DEF FirstColumn
      <3>3. QED
        BY <1>3, <2>1, <3>1, <3>2
    <2>4. QED
      BY <2>2, <2>3
  <1>5. TableOK'
    <2>1. ChainSound'
      BY <1>1, <1>2, ChainFacts, ChainSoundNext
    <2>2. QED
      BY <1>1, <1>2, <1>3, <1>4, <2>1 DEF TableOK, TableInv
  <1>6. ToCome(NextCol)'
    BY <1>1, <1>2, <1>4 DEF ToCome
  <1>7. ReaderOK' /\ SearchInv' /\ place' # "crash"
    BY <1>1, Places0 DEF ReaderOK, SearchInv, Places
  <1>8. QED
    BY <1>5, <1>6, <1>7, SafePartsNext

LEMMA ReaderSafe ==
  ASSUME SafeInv, UNCHANGED tableVars,
         StartFile \/ EndFile \/ SkipField \/ Return \/ EorReturn
  PROVE  SafeInv'
  <1>1. /\ row \in 0..(MaxRow + 1) /\ col \in 0..(MaxCol + 1)
        /\ MaxRow \in Nat /\ MaxCol \in Nat /\ SearchInv
    BY SafeParts, CsvAssumption DEF ReaderOK
  <1>2. CASE StartFile
    BY <1>1, <1>2, MoveSafe DEF StartFile, Move, SearchInv, NextCol
  <1>3. CASE EndFile
    BY <1>1, <1>3, MoveSafe DEF EndFile, Move, NextCol
  <1>4. CASE SkipField
    BY <1>1, <1>4, MoveSafe DEF SkipField, Move, NextCol
  <1>5. CASE Return
    BY <1>1, <1>5, MoveSafe DEF Return, Move, SearchInv, NextCol
  <1>6. CASE EorReturn
    BY <1>1, <1>6, MoveSafe DEF EorReturn, Move, SearchInv, NextCol
  <1>7. QED
    BY <1>2, <1>3, <1>4, <1>5, <1>6

LEMMA SafeStutters == SafeInv /\ UNCHANGED vars => SafeInv'
  BY DEF SafeInv, TypeOK, TableInv, ChainSound, ColumnsToCome, SearchInv, IsNext,
         Following, Enabled, Columns, NextCol, Promised!Matches, vars, tableVars, readerVars

LEMMA Safe == Spec => []SafeInv
  <1>1. SafeInv /\ [Next]_vars => SafeInv'
    <2> SUFFICES ASSUME SafeInv, [Next]_vars
                 PROVE  SafeInv'
      OBVIOUS
    <2>1. CASE UserStep
      BY <2>1, UserSafe
    <2>2. CASE Search
      BY <2>2, SearchSafe
    <2>3. CASE StartFile \/ EndFile \/ SkipField
      BY <2>3, ReaderSafe DEF StartFile, EndFile, SkipField
    <2>4. CASE EndRow
      BY <2>4, EndRowSafe
    <2>5. CASE \E t \in Texts : Field(t)
      BY <2>5, FieldSafe
    <2>6. CASE (Return \/ EorReturn) /\ UNCHANGED tableVars
      BY <2>6, ReaderSafe
    <2>7. CASE UNCHANGED vars
      BY <2>7, SafeStutters
    <2>8. QED
      BY <2>1, <2>2, <2>3, <2>4, <2>5, <2>6, <2>7 DEF Next
  <1>2. QED
    BY <1>1, SafeInit, PTL DEF Spec

-----------------------------------------------------------------------------
(* The refinement                                                           *)

LEMMA InitImplements == Init => Promised!Init
  <1> SUFFICES ASSUME Init
               PROVE  Promised!Init
    OBVIOUS
  <1>1. \A i \in Ids : tbl[i] = NULL /\ skip[i] = 0
    BY Places0 DEF Init
  <1>2. Enabled = {}
    BY <1>1 DEF Enabled
  <1>3. QED
    BY <1>1, <1>2 DEF Init, Promised!Init

LEMMA UserImplements ==
  ASSUME SafeInv, UserStep
  PROVE  Promised!UserStep
  <1>1. place \in {"out", "call", "eor"} /\ UNCHANGED <<row, col, place, at>>
    BY DEF UserStep, readerVars
  <1>2. ASSUME NEW e \in Entries, Appends(e), Enlist(e)
        PROVE  Promised!UserStep
    <2>1. /\ SlotFor(e) \in Ids /\ tbl[SlotFor(e)] = NULL
          /\ tbl' = [tbl EXCEPT ![SlotFor(e)] = e]
      BY <1>2, EnlistsBehind
    <2>2. Enabled' = Enabled \cup {SlotFor(e)}
      BY <1>2, EnlistKeeps
    <2>3. tbl \in [Slots -> Entries \cup {DefaultEntry, NULL}]
      BY DEF SafeInv, TypeOK
    <2>4. [k \in Ids |-> tbl'[k]] = [[k \in Ids |-> tbl[k]] EXCEPT ![SlotFor(e)] = e]
      BY <2>1, <2>3, Places0
    <2>5. Promised!Enlist(SlotFor(e), e)
      BY <2>1, <2>2, <2>4 DEF Promised!Enlist
    <2>6. QED
      BY <1>1, <1>2, <2>1, <2>5 DEF Promised!UserStep
  <1>3. ASSUME NEW i \in Ids, Toggle(i)
        PROVE  Promised!UserStep
    <2>1. Enabled' = IF i \in Enabled THEN Enabled \ {i} ELSE Enabled \cup {i}
      BY <1>3, ToggleKeeps
    <2>2. tbl' = tbl /\ tbl[i] # NULL
      BY <1>3 DEF Toggle
    <2>3. Promised!Toggle(i)
      BY <2>1, <2>2 DEF Promised!Toggle
    <2>4. QED
      BY <1>1, <2>3 DEF Promised!UserStep
  <1>4. ASSUME NEW i \in Ids, Clear(i)
        PROVE  Promised!UserStep
    <2>1. tbl' = [tbl EXCEPT ![i] = NULL] /\ Enabled' = Enabled \ {i}
      BY <1>4, ClearKeeps
    <2>2. tbl \in [Slots -> Entries \cup {DefaultEntry, NULL}]
      BY DEF SafeInv, TypeOK
    <2>3. [k \in Ids |-> tbl'[k]] =
             [k \in Ids |-> IF k \in {i} THEN NULL ELSE [l \in Ids |-> tbl[l]][k]]
      BY <2>1, <2>2, Places0
    <2>4. Promised!Clear({i})
      BY <2>1, <2>3 DEF Promised!Clear
    <2>5. QED
      BY <1>1, <2>4 DEF Promised!UserStep
  <1>5. ASSUME ClearAll
        PROVE  Promised!UserStep
    <2>1. Enabled' = {} /\ \A i \in Ids : tbl'[i] = NULL
      BY <1>5, ClearAllKeeps
    <2>2. Enabled \subseteq Ids
      BY DEF Enabled
    <2>3. Promised!Clear(Ids)
      BY <2>1, <2>2 DEF Promised!Clear
    <2>4. QED
      BY <1>1, <2>3 DEF Promised!UserStep
  <1>6. QED
    BY <1>2, <1>3, <1>4, <1>5 DEF UserStep

(* A match: the first enabled callback that matches is called.                *)
LEMMA HitImplements ==
  ASSUME SafeInv, place \in {"search", "columns"}, at \in Enabled, Hit,
         Promised!Matches(tbl[at], field), UNCHANGED <<row, col>>
  PROVE  \E t \in Texts : Promised!Field(t)
  <1> DEFINE hits == {i \in Enabled : Promised!Matches([j \in Ids |-> tbl[j]][i], field)}
             first == IF hits = {} THEN 0 ELSE Promised!Min(hits)
  <1>1. /\ TypeOK /\ field \in Texts
        /\ \A k \in Enabled : k < at => ~ Promised!Matches(tbl[k], field)
    BY DEF SafeInv, SearchInv
  <1>2. /\ tbl' = tbl /\ at' = at /\ place' = "call"
        /\ Enabled' = IF tbl[at].once THEN Enabled \ {at} ELSE Enabled
    BY HitKeeps
  <1>3. Enabled \subseteq Ids /\ \A i \in Enabled : i \in Nat
    BY <1>1, ChainFacts, Places0
  <1>4. hits = {i \in Enabled : Promised!Matches(tbl[i], field)}
    BY <1>3
  <1>5. first = at /\ at \in hits
    <2>1. at \in hits /\ hits \subseteq Nat
      BY <1>3, <1>4
    <2>2. Min(hits) \in hits /\ \A y \in hits : Min(hits) <= y
      <3> HIDE DEF hits
      <3>1. QED
        BY <2>1, MinIs
    <2>3. Min(hits) \in Nat /\ at \in Nat /\ Min(hits) <= at
      BY <2>1, <2>2
    <2>4. ~ (Min(hits) < at)
      BY <1>1, <1>4, <2>2
    <2>5. Promised!Min(hits) = Min(hits)
      BY DEF Min, Promised!Min
    <2>6. QED
      BY <2>1, <2>3, <2>4, <2>5
  <1>6. Enabled' = Enabled \ {i \in hits : i = first /\ [j \in Ids |-> tbl[j]][i].once}
    <2>1. [j \in Ids |-> tbl[j]][at] = tbl[at]
      BY <1>3
    <2>2. QED
      BY <1>2, <1>5, <2>1
  <1>7. Promised!Field(field)
    <2>1. (IF place \in {"search", "columns", "crash"} THEN "row" ELSE place) = "row"
      OBVIOUS
    <2>2. (IF place \in {"search", "columns", "crash"} THEN "row" ELSE place)' = "call"
      BY <1>2
    <2>3. (IF place = "call" THEN at ELSE 0)' = first
      <3> HIDE DEF first
      <3>1. QED
        BY <1>2, <1>5
    <2>4. UNCHANGED <<[i \in Ids |-> tbl[i]], row, col>>
      BY <1>2
    <2>5. QED
      BY <1>6, <2>1, <2>2, <2>3, <2>4, Zenon DEF Promised!Field
  <1>8. QED
    BY <1>1, <1>7

(* Where nothing is called, nothing of the promise changes.                   *)
LEMMA StepsOver ==
  ASSUME UNCHANGED tbl, Enabled' = Enabled, UNCHANGED <<row, col>>,
         place \in {"row", "search", "columns"}, place' \in {"search", "columns", "crash"}
  PROVE  UNCHANGED Promised!vars
  BY DEF Promised!vars, Promised!setVars

LEMMA SearchImplements ==
  ASSUME SafeInv, Search
  PROVE  Promised!Next \/ UNCHANGED Promised!vars
  <1>1. TypeOK /\ TableInv /\ ChainSound /\ SearchInv
    BY DEF SafeInv
  <1>2. UNCHANGED tableVars => tbl' = tbl /\ Enabled' = Enabled
    BY DEF tableVars, Enabled
  <1>3. ASSUME \E t \in Texts : Promised!Field(t)
        PROVE  Promised!Next
    BY <1>3 DEF Promised!Next
  <1>4. CASE SearchText
    <2>1. place = "search" /\ at < RowStart /\ UNCHANGED <<row, col, field>> /\ at < ColStart
      BY <1>1, <1>4, Places0, Layout DEF SearchText, TypeOK
    <2>2. at \in Enabled /\ at \in Ids /\ tbl[at] # NULL
      BY <2>1, SearchTextFacts
    <2>3. CASE tbl[at].at = field
      <3>1. tbl[at].by \in {"KEYWORD", "REGEX"}
        BY <1>1, <2>1, <2>2, ColumnFacts
      <3>2. Hit /\ Promised!Matches(tbl[at], field)
        BY <1>4, <2>3, <3>1 DEF SearchText, Promised!Matches
      <3>3. QED
        BY <1>3, <2>1, <2>2, <3>2, HitImplements
    <2>4. CASE tbl[at].at # field
      <3>1. place' = "search" /\ UNCHANGED tableVars
        BY <1>4, <2>4 DEF SearchText, GoTo
      <3>2. QED
        BY <1>2, <2>1, <3>1, StepsOver
    <2>5. QED
      BY <2>3, <2>4
  <1>5. CASE SearchRow
    <2>1. /\ place = "search" /\ UNCHANGED <<row, col, field>>
          /\ at < ColStart /\ ~ (at < RowStart) /\ ~ (at >= ColStart)
      BY <1>5, Layout DEF SearchRow
    <2>2. at \in Enabled /\ at \in Ids /\ tbl[at] # NULL
      BY <2>1, SearchTextFacts
    <2>3. tbl[at].by = "ROW"
      BY <1>1, <2>1, <2>2, ColumnFacts DEF Kinds
    <2>4. CASE tbl[at].at = row /\ Hit
      <3>1. Promised!Matches(tbl[at], field)
        BY <2>3, <2>4 DEF Promised!Matches
      <3>2. QED
        BY <1>3, <2>1, <2>2, <2>4, <3>1, HitImplements
    <2>5. CASE GoTo("search", skip[at]) /\ UNCHANGED tableVars
      BY <1>2, <2>1, <2>5, StepsOver DEF GoTo
    <2>6. CASE tbl[at].at < row /\ GoTo("search", skip[at]) /\ Toggle(at)
      <3>1. Enabled' = Enabled \ {at}
        BY <2>2, <2>6, ToggleKeeps
      <3>2. tbl' = tbl /\ place' = "search"
        BY <2>6 DEF Toggle, GoTo
      <3>3. Promised!Expire(at)
        BY <2>1, <2>2, <2>3, <2>6, <3>1, <3>2 DEF Promised!Expire
      <3>4. QED
        BY <2>2, <3>3 DEF Promised!Next
    <2>7. QED
      BY <1>5, <2>4, <2>5, <2>6 DEF SearchRow
  <1>6. CASE SearchColumns
    BY <1>2, <1>6, StepsOver DEF SearchColumns, GoTo
  <1>7. CASE SearchColumn
    <2>1. place = "columns" /\ at # END /\ UNCHANGED <<row, col, field>>
      BY <1>7 DEF SearchColumn, SearchColumnThen
    <2>2. CASE place' \in {"columns", "crash"} /\ UNCHANGED <<tbl, skip>>
      <3>1. Enabled' = Enabled
        BY <2>2 DEF Enabled
      <3>2. QED
        BY <2>1, <2>2, <3>1, StepsOver
    <2>3. CASE tbl[at] # NULL /\ tbl[at].at = col /\ Hit
      <3>1. at \in Columns \cap Enabled
        BY <2>1, <2>3, ColumnAt
      <3>2. tbl[at].by = "COLUMN"
        BY <1>1, <3>1, ColumnFacts DEF Columns
      <3>3. Promised!Matches(tbl[at], field)
        BY <2>3, <3>2 DEF Promised!Matches
      <3>4. QED
        BY <1>3, <2>1, <2>3, <3>1, <3>3, HitImplements
    <2>4. QED
      BY <1>7, <2>2, <2>3 DEF SearchColumn, SearchColumnThen, GoTo, tableVars
  <1>8. CASE SearchFails
    <2> DEFINE hits == {i \in Enabled : Promised!Matches([j \in Ids |-> tbl[j]][i], field)}
               first == IF hits = {} THEN 0 ELSE Promised!Min(hits)
    <2>1. /\ place = "columns" /\ at = END /\ place' = "call" /\ at' = 0
          /\ UNCHANGED tableVars /\ UNCHANGED <<row, col>>
      BY <1>8 DEF SearchFails, GoTo
    <2>2. tbl' = tbl /\ Enabled' = Enabled
      BY <1>2, <2>1
    <2>3. Enabled \subseteq Ids /\ \A i \in Enabled : i < END
      BY <1>1, ChainFacts, Places0
    <2>4. hits = {}
      BY <1>1, <2>1, <2>3 DEF SearchInv
    <2>5. (IF place \in {"search", "columns", "crash"} THEN "row" ELSE place) = "row"
      BY <2>1
    <2>6. (IF place \in {"search", "columns", "crash"} THEN "row" ELSE place)' = "call"
      BY <2>1
    <2>7. first = 0
      BY <2>4
    <2>8. (IF place = "call" THEN at ELSE 0)' = first
      <3> HIDE DEF first
      <3>1. QED
        BY <2>1, <2>7
    <2>9. Enabled' = Enabled \ {i \in hits : i = first /\ [j \in Ids |-> tbl[j]][i].once}
      <3> HIDE DEF first, hits
      <3>1. QED
        BY <2>2, <2>4
    <2>10. UNCHANGED <<[i \in Ids |-> tbl[i]], row, col>>
      BY <2>1, <2>2
    <2>11. Promised!Field(field)
      BY <2>5, <2>6, <2>8, <2>9, <2>10, Zenon DEF Promised!Field
    <2>12. QED
      BY <1>1, <1>3, <2>1, <2>11 DEF SearchInv
  <1>9. QED
    BY <1>4, <1>5, <1>6, <1>7, <1>8 DEF Search

LEMMA MoveImplements ==
  ASSUME UNCHANGED <<tbl, skip>>, NEW from \in {"out", "row", "call", "eor"}, NEW r, NEW c,
         NEW to \in {"out", "row", "eor"}, Move(from, to, r, c)
  PROVE  Promised!Move(from, to, r, c)
  <1>1. Enabled' = Enabled
    BY DEF Enabled
  <1>2. QED
    BY <1>1 DEF Move, Promised!Move, Promised!setVars

LEMMA NextImplements ==
  ASSUME SafeInv, [Next]_vars
  PROVE  [Promised!Next]_Promised!vars
  <1>1. CASE UserStep
    BY <1>1, UserImplements DEF Promised!Next
  <1>2. CASE Search
    BY <1>2, SearchImplements
  <1>3. CASE \E t \in Texts : Field(t)
    <2>1. /\ place = "row" /\ place' = "search" /\ UNCHANGED <<row, col>>
          /\ tbl' = tbl /\ Enabled' = Enabled
      BY <1>3 DEF Field, tableVars, Enabled
    <2>2. QED
      BY <2>1, StepsOver
  <1>4. CASE StartFile
    BY <1>4, MoveImplements DEF StartFile, tableVars, Promised!Next
  <1>5. CASE EndFile
    BY <1>5, MoveImplements DEF EndFile, tableVars, Promised!Next
  <1>6. CASE SkipField
    BY <1>6, MoveImplements DEF SkipField, tableVars, Promised!Next
  <1>7. CASE EndRow
    BY <1>7, MoveImplements DEF EndRow, Promised!Next
  <1>8. CASE (Return \/ EorReturn) /\ UNCHANGED tableVars
    BY <1>8, MoveImplements DEF Return, EorReturn, tableVars, Promised!Next
  <1>9. CASE UNCHANGED vars
    <2>1. UNCHANGED <<tbl, row, col, place, at>> /\ Enabled' = Enabled
      BY <1>9 DEF vars, tableVars, readerVars, Enabled
    <2>2. UNCHANGED Promised!vars
      BY <2>1 DEF Promised!vars, Promised!setVars
    <2>3. QED
      BY <2>2
  <1>10. QED
    BY <1>1, <1>2, <1>3, <1>4, <1>5, <1>6, <1>7, <1>8, <1>9 DEF Next

-----------------------------------------------------------------------------
(* Theorems                                                                 *)

(* The state of the callbacks and of the reader keeps its types: no index of  *)
(* wlcsv.c leaves the table or the skip list, whatever the callbacks do.      *)
THEOREM TypeCorrect == Spec => []TypeOK
  BY Safe, PTL DEF SafeInv

(* Toggling, enlisting and clearing in any order leave the chain of           *)
(* tbl_idx_skip leading through exactly the enabled callbacks, in order.      *)
THEOREM ChainCorrect == Spec => []ChainSound
  BY Safe, PTL DEF SafeInv

(* tbl_offs_col never leads past an enabled column that the row has yet to    *)
(* reach, and an absent entry is read only in a table without columns.        *)
THEOREM ColumnsCorrect == Spec => []ColumnsToCome
  BY Safe, PTL DEF SafeInv

(* The search of wlcsv.c, over its skip list and its shortcut for columns,    *)
(* gives each field to the first enabled callback that matches it, or else to *)
(* the default one, while callbacks toggle, enlist and clear each other.      *)
THEOREM RegistryImplemented == Spec => ImplementsCallbackSet
  BY InitImplements, Safe, NextImplements, PTL DEF Spec, ImplementsCallbackSet, Promised!Spec
===============================================================================
