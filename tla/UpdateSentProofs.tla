--------------------------- MODULE UpdateSentProofs ---------------------------
(***************************************************************************)
(* Proofs about what UpdateParse hands to the database: a query never goes *)
(* out before what it refers to has been stored, for files of any size.    *)
(***************************************************************************)
EXTENDS UpdateParseProofs

-----------------------------------------------------------------------------
(* The invariant: what has been said and sent *)

FlagTypes == ignore_empty \in BOOLEAN /\ countries_updated \in BOOLEAN

DataTypes ==
    /\ missing \subseteq Files /\ faults \in 0..MaxFaults
    /\ eor_callback \in {"none", "wait", "flush"} /\ default_callback \in {"none", "data"}
    /\ cbdata \in {Buffer(w, c) : w \in {"nothing", "name", "code", "date"},
                                  c \in {0} \cup Countries}
    /\ ccodes \in [Countries -> SUBSET Details]

(* A cell that is searched for has something to say.                         *)
CellInv ==
    /\ Empty \subseteq empty /\ empty \subseteq Empty \cup Optional
    /\ place \in {"search", "columns", "call"} =>
          Cell \notin Ignored /\ (Cell \in empty => ~ ignore_empty)

(* What the field buffer holds of the row.                                   *)
BufferInv ==
    /\ file \in {Codes, CO2E} /\ phase \notin {"clear_year", "wait"} => ~ countries_updated
    /\ phase = "reading" /\ row > 0 =>
          /\ file \in DataFiles /\ Named(file, row) /\ col >= 2 => cbdata = Buffer("code", row)
          /\ file \in DataFiles /\ ~ countries_updated /\ Named(file, row) /\ col = 1 =>
                cbdata.is = "name"
          /\ file = Meta => cbdata = Blank \/ (cbdata = Buffer("code", row) /\ Known(row))

Sent(q) == \E i \in DOMAIN enqueued : enqueued[i] = q
SentCountry(c) == \E d \in SUBSET Details : Sent(CountryInsert(c, d))

(* The cell of a file has been read.                                         *)
ReadSoFar(f, r, c) ==
    \/ file > f
    \/ file = f /\ phase \notin {"begin", "open", "reading", "crash"}
    \/ file = f /\ phase = "reading" /\ (r < row \/ (r = row /\ c < col))

SentInv ==
    CO2E \notin missing =>
        /\ \A y \in YearCols : ReadSoFar(CO2E, 0, y) => Sent(YearInsert(y))
        /\ \A r \in 1..Rows[CO2E] :
              Named(CO2E, r) /\ ReadSoFar(CO2E, r, 1) => SentCountry(r)

(* The queue is first in, first out, and what is in progress went out last.    *)
FifoInv ==
    /\ enqueued \in Seq(Queries) /\ dequeued \in Seq(Queries)
    /\ Len(dequeued) <= Len(enqueued)
    /\ \A i \in 1..Len(dequeued) : dequeued[i] = enqueued[i]
    /\ \A i, j \in 1..Len(enqueued) : enqueued[i] = enqueued[j] => i = j
    /\ barrier \subseteq Blocking
    /\ barrier # {} => Len(dequeued) > 0 /\ barrier = {dequeued[Len(dequeued)]}

(* What a query refers to was enqueued before it.                            *)
Refers(i) ==
    LET q == enqueued[i]
    IN  /\ q.query \in {"Datapoint", "Meta"} =>
              \E j \in 1..(i - 1) : \E d \in SUBSET Details :
                  enqueued[j] = CountryInsert(q.country, d)
        /\ q.query = "Datapoint" =>
              \E j \in 1..(i - 1) : enqueued[j] = YearInsert(q.year)

RefInv == CO2E \notin missing => \A i \in 1..Len(enqueued) : Refers(i)

SayInv == FlagTypes /\ DataTypes /\ CellInv /\ BufferInv /\ SentInv /\ FifoInv /\ RefInv

-----------------------------------------------------------------------------
(* Kinds of steps *)

LEMMA BetweenFiles ==
    ASSUME CtrlInv, FromFileToFile
    PROVE  /\ UNCHANGED <<queueVars, empty, ccodes>>
           /\ phase # "reading" /\ place = "out" /\ place' \in {"out", "row"}
           /\ phase' = "reading" => row' = 0 /\ col' = 0
           /\ missing \subseteq missing'
           /\ \A f \in Files : \A r, c \in Nat :
                 ReadSoFar(f, r, c)' => ReadSoFar(f, r, c) \/ f \in missing'
           /\ file' \in {Codes, CO2E} /\ phase' \notin {"clear_year", "wait"} =>
                 /\ file \in {Codes, CO2E} /\ phase \notin {"clear_year", "wait"}
                 /\ countries_updated' = countries_updated
<1> USE CtrlFacts, FilesAre
<1>1. CASE Begin \/ AfterCodes \/ RegisterYear
  <2>1. /\ UNCHANGED <<queueVars, empty, ccodes, countries_updated>> /\ missing' = missing
        /\ file = 0 /\ place = "out" /\ place' = place /\ phase # "reading"
        /\ \/ file' = 0 /\ phase = "begin" /\ phase' = "open"
           \/ file' = 0 /\ phase = "read" /\ phase' = "year"
           \/ file' = 1 /\ phase = "year" /\ phase' = "open"
        /\ phase \notin {"clear_year", "wait"}
      BY <1>1 DEF Begin, AfterCodes, RegisterYear, Register, readerVars, countryVars, StandInv
  <2> QED
      BY <2>1 DEF ReadSoFar
<1>2. CASE OpenCodes \/ OpenMeta
  <2>1. /\ UNCHANGED <<queueVars, empty, ccodes, countries_updated>> /\ ReadFile
        /\ phase = "open" /\ place = "out" /\ file' = file /\ file \in {0, 2}
      BY <1>2 DEF OpenCodes, OpenMeta, countryVars, StandInv
  <2>2. /\ missing \subseteq missing'
        /\ \/ phase' = "reading" /\ row' = 0 /\ col' = 0 /\ place' = "row"
           \/ phase' = "read" /\ place' = place /\ file \in missing'
      BY <2>1 DEF ReadFile, Csv!StartFile, Csv!Move, readerVars
  <2> QED
      BY <2>1, <2>2 DEF ReadSoFar
<1>3. CASE OpenData
  <2>1. /\ UNCHANGED <<queueVars, empty, ccodes, countries_updated>>
        /\ phase = "open" /\ place = "out" /\ file \in {1, 3}
      BY <1>3 DEF OpenData, countryVars, StandInv
  <2>2. /\ missing \subseteq missing'
        /\ \/ /\ phase' = "reading" /\ row' = 0 /\ col' = 0 /\ place' = "row" /\ file' = file
           \/ /\ file \in missing' /\ place' = place
              /\ \/ phase' = "read" /\ file' = file
                 \/ phase' = "open" /\ file' = file + 1 /\ file < 3
                 \/ phase' = "record" /\ file' = file /\ ~ file < 3
      BY <1>3 DEF OpenData, ReadFile, NextFile, Csv!StartFile, Csv!Move, readerVars
  <2> QED
      BY <2>1, <2>2 DEF ReadSoFar
<1>4. CASE OpenCrashes \/ AfterData \/ Wait \/ Record
  <2>1. /\ UNCHANGED <<queueVars, empty, ccodes, readerVars>> /\ missing' = missing
        /\ file # 0 /\ phase # "reading" /\ phase' # "reading" /\ place = "out"
        /\ \/ phase = "open" /\ phase' = "crash" /\ file' = file /\ Broken
              /\ countries_updated' = countries_updated
           \/ phase = "read" /\ phase' = "clear_year" /\ file' = file /\ file # 2
           \/ phase = "wait" /\ phase' = "open" /\ file' = file + 1 /\ file < 3
              /\ countries_updated' = countries_updated
           \/ phase = "wait" /\ phase' = "record" /\ file' = file /\ file = 3
              /\ countries_updated' = countries_updated
           \/ phase = "record" /\ phase' \in {"recorded", "failed"} /\ file' = file
              /\ countries_updated' = countries_updated
      BY <1>4 DEF OpenCrashes, AfterData, Wait, WaitWhen, NextFile, Record, StandInv, Broken,
                  countryVars
  <2>2. place' = place /\ (phase = "open" => file \in {2, 3})
      BY <2>1 DEF readerVars, StandInv
  <2> QED
      BY <2>1, <2>2 DEF ReadSoFar, StandInv
<1>5. CASE AfterMeta \/ ClearYear
  <2>1. /\ UNCHANGED <<queueVars, empty, ccodes, readerVars, countries_updated>>
        /\ missing' = missing /\ place = "out" /\ file' = file /\ file # 0
        /\ \/ phase = "read" /\ phase' = "clear_year"
           \/ phase = "clear_year" /\ phase' = "wait"
           \/ phase = "clear_year" /\ phase' = "loop" /\ skip[0] = 0
      BY <1>5 DEF AfterMeta, AfterMetaClearing, ClearYear, countryVars, StandInv
  <2>2. ~ Broken => skip[0] # 0
      BY ReaderFacts
  <2>3. phase' = "loop" => file \in {2, 3}
      BY <2>1, <2>2 DEF StandInv
  <2> QED
      BY <2>1, <2>3 DEF readerVars, ReadSoFar
<1> QED
    BY <1>1, <1>2, <1>3, <1>4, <1>5 DEF FromFileToFile

(* In a file, the reader looks on,                                           *)
Looks ==
    UNCHANGED <<row, col, phase, cbdata, ccodes, enqueued>>

(* leaves out a cell without a search,                                       *)
LeavesOut ==
    /\ UNCHANGED <<row, phase, cbdata, ccodes, enqueued>> /\ col' = col + 1
    /\ row <= Rows[file] /\ col <= LastCol[file]
    /\ Cell \in Ignored \/ (Cell \in empty /\ ignore_empty)

(* comes to the end of a row or of the file,                                 *)
EndsRow ==
    /\ UNCHANGED <<phase, ccodes, enqueued>> /\ row' = row + 1 /\ col' = 0
    /\ row <= Rows[file] /\ col = LastCol[file] + 1
    /\ cbdata' = Blank \/ (cbdata' = cbdata /\ file = Codes)

EndsFile ==
    /\ UNCHANGED <<row, col, cbdata, ccodes, enqueued>> /\ phase' = "read"
    /\ row = Rows[file] + 1

(* or a callback returns.                                                    *)
Returns ==
    /\ UNCHANGED <<row, phase>> /\ col' = col + 1 /\ place = "call" /\ place' = "row"
    /\ row <= Rows[file] /\ col <= LastCol[file]
    /\ \/ Calling
       \/ HeaderDone /\ file = Codes /\ UNCHANGED <<cbdata, ccodes, enqueued>>

InFileFrame ==
    UNCHANGED <<file, missing, faults, empty, ignore_empty, countries_updated,
                default_callback, dequeued, barrier>>

LEMMA StepsInFile ==
    ASSUME CtrlInv, InFile
    PROVE  /\ phase = "reading" /\ place # "out" /\ row \in Nat /\ col \in Nat
           /\ InFileFrame
           /\ Looks \/ LeavesOut \/ EndsRow \/ EndsFile \/ Returns
<1> USE CtrlFacts, FilesAre
<1>1. CASE ReadCell
  <2>1. /\ phase = "reading" /\ InFileFrame /\ UNCHANGED <<phase, cbdata, ccodes, enqueued>>
        /\ row <= Rows[file] /\ col <= LastCol[file]
      BY <1>1 DEF ReadCell, InFileFrame, fileVars, setVars, countryVars, queueVars
  <2>2. \/ /\ Cell \in Ignored \/ (Cell \in empty /\ ignore_empty)
           /\ row' = row /\ col' = col + 1
        \/ row' = row /\ col' = col
      BY <1>1 DEF ReadCell, Csv!SkipField, Csv!Field, Csv!Move
  <2>3. LeavesOut \/ Looks
      BY <2>1, <2>2 DEF LeavesOut, Looks
  <2> QED
      BY <2>1, <2>3 DEF StandInv
<1>2. CASE Search \/ EndRow
  <2>1. /\ InFileFrame /\ UNCHANGED <<phase, cbdata, ccodes, enqueued>>
      BY <1>2 DEF Search, EndRow, InFileFrame, fileVars, setVars, countryVars, queueVars
  <2>2. row' = row /\ col' = col /\ place # "out"
      BY <1>2 DEF Search, EndRow, Csv!EndRow, Csv!Move, Csv!Search, Csv!SearchText,
                  Csv!SearchRow, Csv!SearchColumns, Csv!SearchColumn, Csv!SearchColumnThen,
                  Csv!SearchFails, Csv!Hit, Csv!GoTo
  <2> QED
      BY <2>1, <2>2 DEF Looks, StandInv
<1>3. CASE EndFile
  <2>1. /\ InFileFrame /\ EndsFile /\ place # "out"
      BY <1>3 DEF EndFile, InFileFrame, setVars, countryVars, queueVars, EndsFile,
                  Csv!EndFile, Csv!Move
  <2> QED
      BY <2>1 DEF StandInv
<1>4. CASE EndRowDone \/ EorWaitDone
  <2>1. /\ place = "eor" /\ row' = row + 1 /\ col' = 0 /\ phase' = phase
      BY <1>4 DEF EndRowDone, EorWaitDone, Csv!EorReturn, Csv!Move, fileVars
  <2>2. InFileFrame /\ UNCHANGED <<ccodes, enqueued>>
      BY <1>4 DEF EndRowDone, EorWaitDone, InFileFrame, fileVars, setVars, countryVars,
                  queueVars
  <2>3. /\ phase = "reading" /\ row \in Nat /\ col \in Nat /\ col = LastCol[file] + 1
        /\ row <= Rows[file]
      BY <2>1 DEF StandInv
  <2>4. cbdata' = Blank \/ (cbdata' = cbdata /\ file = Codes)
      BY <1>4, <2>3 DEF EndRowDone, EorNothing, EorFlush, EorWaitDone, SetInv
  <2> QED
      BY <2>1, <2>2, <2>3, <2>4 DEF EndsRow
<1>5. CASE EorRegister \/ HeaderRegister
  <2>1. /\ InFileFrame /\ Looks /\ place # "out"
      BY <1>5 DEF EorRegister, HeaderRegister, Calls, InFileFrame, Looks, fileVars, setVars,
                  countryVars, queueVars, readerVars
  <2> QED
      BY <2>1 DEF StandInv
<1>6. CASE Calling \/ HeaderDone
  <2>1. /\ Csv!Return /\ UNCHANGED fileVars /\ UNCHANGED setVars
      BY <1>6, CallingKeeps DEF HeaderDone
  <2>2. /\ row' = row /\ col' = col + 1 /\ place = "call" /\ place' = "row" /\ phase' = phase
      BY <2>1 DEF Csv!Return, Csv!Move, fileVars
  <2>3. /\ phase = "reading" /\ row \in Nat /\ col \in Nat
        /\ row <= Rows[file] /\ col <= LastCol[file]
      BY <2>2, ReadingFacts DEF StandInv
  <2>4. UNCHANGED <<countries_updated, dequeued, barrier>>
      BY <1>6 DEF HeaderDone, Calling, NoCallback, CodeIso3, CodeIndependency, CodeIso2,
                  CodeDetail, CountryName, CountryCode, MetaColumn, CountryNothing, Year,
                  Data, DataOfMeta, countryVars, queueVars, Enqueue, Queue!Enqueue
  <2>5. HeaderDone => file = Codes /\ UNCHANGED <<cbdata, ccodes, enqueued>>
      BY CallsAre DEF HeaderDone, Details, countryVars, queueVars
  <2> QED
      BY <1>6, <2>1, <2>2, <2>3, <2>4, <2>5
      DEF Returns, InFileFrame, fileVars, setVars
<1> QED
    BY <1>1, <1>2, <1>3, <1>4, <1>5, <1>6 DEF InFile, Calling

-----------------------------------------------------------------------------
(* Types and cells *)

LEMMA SayInit == Init => SayInv
<1> SUFFICES ASSUME Init
             PROVE  SayInv
    OBVIOUS
<1> USE FilesAre
<1>1. DataTypes
    BY UpdateAssumption DEF Init, DataTypes, Blank
<1>0. FlagTypes
    BY DEF Init, FlagTypes
<1>2. CellInv
  <2>1. place = "out"
      BY DEF Init, Csv!Init
  <2>2. PICK S \in SUBSET Optional : empty = Empty \cup S
      BY DEF Init
  <2> QED
      BY <2>1, <2>2 DEF CellInv
<1>3. BufferInv
    BY DEF Init, BufferInv
<1>4. SentInv
    BY DEF Init, SentInv, ReadSoFar
<1>5. enqueued = <<>> /\ dequeued = <<>> /\ barrier = {}
    BY DEF Init, Queue!Init
<1>6. FifoInv /\ RefInv
    BY <1>5 DEF FifoInv, RefInv
<1> QED
    BY <1>0, <1>1, <1>2, <1>3, <1>4, <1>6 DEF SayInv

LEMMA FlagTypesKept ==
    ASSUME CtrlInv, FlagTypes, [Next]_vars
    PROVE  FlagTypes'
<1>1. CASE FromFileToFile
  <2>1. CASE Begin \/ OpenCodes \/ OpenCrashes \/ AfterCodes \/ RegisterYear
      BY <2>1 DEF Begin, OpenCodes, OpenCrashes, AfterCodes, RegisterYear, FlagTypes, setVars,
                  countryVars
  <2>2. CASE OpenData \/ OpenMeta
      BY <2>2 DEF OpenData, OpenMeta, FlagTypes, setVars, countryVars
  <2>3. CASE AfterData \/ AfterMeta \/ ClearYear \/ Wait \/ Record
      BY <2>3 DEF AfterData, AfterMeta, AfterMetaClearing, ClearYear, Wait, WaitWhen, Record,
                  FlagTypes, setVars, countryVars
  <2> QED
      BY <1>1, <2>1, <2>2, <2>3 DEF FromFileToFile
<1>2. CASE InFile
  <2>1. UNCHANGED <<ignore_empty, countries_updated>>
      BY <1>2, StepsInFile DEF InFileFrame
  <2> QED
      BY <2>1 DEF FlagTypes
<1>3. CASE UNCHANGED parseVars
    BY <1>3 DEF parseVars, FlagTypes, setVars, countryVars
<1>4. TakeQuery \/ CompleteQuery \/ UNCHANGED vars => UNCHANGED parseVars
    BY DEF TakeQuery, CompleteQuery, vars, parseVars
<1> QED
    BY <1>1, <1>2, <1>3, <1>4 DEF Next, Main

LEMMA DataTypesKept ==
    ASSUME CtrlInv, DataTypes, [Next]_vars
    PROVE  DataTypes'
<1> USE CtrlFacts, FilesAre
<1>0. MaxFaults \in Nat
    BY UpdateAssumption
<1>1. CASE FromFileToFile
  <2>1. Begin => DataTypes'
      BY DEF Begin, DataTypes, setVars, countryVars
  <2>0. ReadFile => missing' \subseteq Files /\ faults' \in 0..MaxFaults
    <3> SUFFICES ASSUME ReadFile
                 PROVE  missing' \subseteq Files /\ faults' \in 0..MaxFaults
        OBVIOUS
    <3>1. /\ missing' = missing \/ missing' = missing \cup {file}
          /\ faults' = faults \/ (faults < MaxFaults /\ faults' = faults + 1)
        BY DEF ReadFile, Fault
    <3>2. missing \subseteq Files /\ faults \in 0..MaxFaults /\ file \in Files
        BY DEF DataTypes
    <3>3. missing' \subseteq Files
        BY <3>1, <3>2, Zenon
    <3>4. faults' \in 0..MaxFaults
        BY <1>0, <3>1, <3>2
    <3> QED
        BY <3>3, <3>4
  <2>2. OpenCodes => DataTypes'
    <3> SUFFICES ASSUME OpenCodes
                 PROVE  DataTypes'
        OBVIOUS
    <3>1. ReadFile /\ UNCHANGED <<eor_callback, default_callback, cbdata, ccodes>>
        BY DEF OpenCodes, setVars, countryVars
    <3> QED
        BY <2>0, <3>1 DEF DataTypes
  <2>3. OpenData => DataTypes'
      BY <1>0 DEF OpenData, ReadFile, Fault, DataTypes, countryVars
  <2>4. OpenMeta => DataTypes'
    <3> SUFFICES ASSUME OpenMeta
                 PROVE  DataTypes'
        OBVIOUS
    <3>1. /\ ReadFile /\ UNCHANGED <<cbdata, ccodes>>
          /\ eor_callback' = "wait" /\ default_callback' = "data"
        BY DEF OpenMeta, countryVars
    <3> QED
        BY <2>0, <3>1 DEF DataTypes
  <2>5. OpenCrashes \/ AfterCodes \/ RegisterYear \/ AfterData => DataTypes'
    <3> SUFFICES ASSUME OpenCrashes \/ AfterCodes \/ RegisterYear \/ AfterData
                 PROVE  DataTypes'
        OBVIOUS
    <3>1. UNCHANGED <<missing, faults, eor_callback, default_callback, cbdata, ccodes>>
        BY DEF OpenCrashes, AfterCodes, RegisterYear, AfterData, setVars, countryVars
    <3> QED
        BY <3>1 DEF DataTypes
  <2>6. AfterMeta \/ ClearYear \/ Wait => DataTypes'
      BY DEF AfterMeta, AfterMetaClearing, ClearYear, Wait, WaitWhen, DataTypes, setVars,
             countryVars
  <2>7. Record => DataTypes'
      BY <1>0 DEF Record, Fault, DataTypes, setVars, countryVars
  <2> QED
      BY <1>1, <2>1, <2>2, <2>3, <2>4, <2>5, <2>6, <2>7 DEF FromFileToFile
<1>2. CASE InFile
  <2>1. InFileFrame /\ row \in Nat
      BY <1>2, StepsInFile
  <2>2. eor_callback' \in {"none", "wait", "flush"}
      BY <1>2 DEF InFile, ReadCell, Search, EndRow, EndFile, EndRowDone, EorWaitDone,
                  EorRegister, HeaderRegister, HeaderDone, NoCallback, CodeIso3,
                  CodeIndependency, CodeIso2, CodeDetail, CountryName, CountryCode, MetaColumn,
                  CountryNothing, Year, Data, DataOfMeta, setVars, DataTypes
  <2>3. /\ cbdata' \in {Buffer(w, c) : w \in {"nothing", "name", "code", "date"},
                                       c \in {0} \cup Countries}
        /\ ccodes' \in [Countries -> SUBSET Details]
    <3>1. CASE Looks \/ LeavesOut \/ EndsFile
        BY <3>1 DEF Looks, LeavesOut, EndsFile, DataTypes
    <3>2. CASE EndsRow
        BY <3>2 DEF EndsRow, DataTypes, Blank
    <3>3. CASE Returns
      <4>1. row \in {0} \cup Countries
          BY <2>1, <3>3, CountriesAre DEF Returns
      <4>2. CASE CodeIso3 \/ CodeIndependency \/ CodeIso2
        <5>1. "iso_a3" \in Details /\ "iso_a2" \in Details /\ "independency" \in Details
            BY DEF Details
        <5> QED
            BY <4>1, <4>2, <5>1 DEF CodeIso3, CodeIndependency, CodeIso2, CodeDetail, DataTypes,
                                    Blank
      <4>3. CASE ~ (CodeIso3 \/ CodeIndependency \/ CodeIso2)
          BY <3>3, <4>1, <4>3
          DEF Returns, Calling, NoCallback, CountryName, CountryCode, MetaColumn,
              CountryNothing, Year, Data, DataOfMeta, DataTypes, countryVars, Blank
      <4> QED
          BY <4>2, <4>3
    <3> QED
        BY <1>2, <3>1, <3>2, <3>3, StepsInFile
  <2> QED
      BY <2>1, <2>2, <2>3 DEF InFileFrame, DataTypes
<1>3. CASE TakeQuery \/ CompleteQuery \/ UNCHANGED vars
  <2>1. UNCHANGED parseVars
      BY <1>3 DEF TakeQuery, CompleteQuery, vars, parseVars
  <2>2. UNCHANGED <<missing, faults, eor_callback, default_callback, cbdata, ccodes>>
      BY <2>1 DEF parseVars, fileVars, setVars, countryVars
  <2> QED
      BY <2>2 DEF DataTypes
<1> QED
    BY <1>1, <1>2, <1>3 DEF Next, Main

LEMMA CellKept ==
    ASSUME CtrlInv, CellInv, [Next]_vars
    PROVE  CellInv'
<1> USE CtrlFacts
<1>1. CASE FromFileToFile
    BY <1>1, BetweenFiles DEF CellInv
<1>2. CASE InFile
  <2>1. InFileFrame /\ phase = "reading"
      BY <1>2, StepsInFile
  <2>2. CASE ReadCell
    <3>1. Cell' = Cell \/ place' \notin {"search", "columns", "call"}
        BY <2>1, <2>2 DEF ReadCell, Csv!SkipField, Csv!Field, Csv!Move, Cell, InFileFrame
    <3>2. \/ place' \notin {"search", "columns", "call"}
          \/ Cell \notin Ignored /\ (Cell \in empty => ~ ignore_empty)
        BY <2>2 DEF ReadCell, Csv!SkipField, Csv!Move
    <3> QED
        BY <2>1, <3>1, <3>2 DEF CellInv, InFileFrame
  <2>3. CASE Search
    <3>1. /\ place \in {"search", "columns"} /\ row' = row /\ col' = col
        BY <2>3 DEF Search, Csv!Search, Csv!SearchText, Csv!SearchRow, Csv!SearchColumns,
                    Csv!SearchColumn, Csv!SearchColumnThen, Csv!SearchFails, Csv!Hit, Csv!GoTo
    <3> QED
        BY <2>1, <3>1 DEF CellInv, InFileFrame, Cell
  <2>4. CASE EndRow \/ EndFile \/ EndRowDone \/ EorWaitDone \/ EorRegister
    <3>1. place' \notin {"search", "columns", "call"}
        BY <2>4 DEF EndRow, EndFile, EndRowDone, EorWaitDone, EorRegister, Csv!EndRow,
                    Csv!EndFile, Csv!EorReturn, Csv!Move, readerVars
    <3> QED
        BY <2>1, <3>1 DEF CellInv, InFileFrame
  <2>5. CASE HeaderRegister
    <3>1. row' = row /\ col' = col /\ place' = place
        BY <2>5 DEF HeaderRegister, readerVars
    <3> QED
        BY <2>1, <3>1 DEF CellInv, InFileFrame, Cell
  <2>6. CASE Calling \/ HeaderDone
    <3>1. place' = "row"
        BY <2>6, CallingKeeps DEF HeaderDone, Csv!Return, Csv!Move
    <3> QED
        BY <2>1, <3>1 DEF CellInv, InFileFrame
  <2> QED
      BY <1>2, <2>2, <2>3, <2>4, <2>5, <2>6 DEF InFile, Calling
<1>3. CASE TakeQuery \/ CompleteQuery \/ UNCHANGED vars
    BY <1>3 DEF TakeQuery, CompleteQuery, vars, parseVars, fileVars, readerVars, setVars,
                CellInv, Cell
<1> QED
    BY <1>1, <1>2, <1>3 DEF Next, Main

-----------------------------------------------------------------------------
(* Who answers to a cell *)

LEMMA YearColumns ==
    \A y \in YearCols : y \in Nat /\ y >= 4 /\ y <= LastCol[CO2E] /\ SurelySays(CO2E, 0, y)
<1> DEFINE S == {LastCol[f] : f \in DataFiles}
<1>1. LastCol[1] \in Nat /\ LastCol[3] \in Nat /\ S = {LastCol[1], LastCol[3]}
    BY Sizes, FilesAre
<1>2. \E x \in S : \A y \in S : y <= x
    BY <1>1
<1>3. Max(S) \in S
    BY <1>2 DEF Max
<1>4. Max(S) \in Nat /\ YearCols \subseteq 4..Max(S)
    BY <1>1, <1>3, UpdateAssumption
<1> HIDE DEF S
<1> QED
    BY <1>4, FilesAssumption

(* Every column of a year in the header of the first data file is inserted.   *)
LEMMA YearSaid ==
    ASSUME CtrlInv, CellInv, InFile,
           file = CO2E, row = 0, col \in YearCols, col' # col, row' = row
    PROVE  Enqueue(YearInsert(col))
<1> USE FilesAre
<1>1. col \in Nat /\ col >= 4 /\ SurelySays(1, 0, col)
    BY YearColumns
<1>2. ~ LeavesOut
    BY <1>1 DEF LeavesOut, Cell, SurelySays, CellInv
<1>3. Calling
    BY <1>2, StepsInFile DEF Looks, EndsRow, EndsFile, Returns
<1>4. ~ (NoCallback \/ CodeIso3 \/ CodeIndependency \/ CodeIso2)
    BY CallsAre DEF NoCallback, CodeIso3, CodeIndependency, CodeIso2, CodeDetail
<1>5. ~ (CountryName \/ CountryCode \/ MetaColumn \/ CountryNothing)
    BY <1>1, CallsAre DEF CountryName, CountryCode, MetaColumn, CountryNothing, Details
<1>6. ~ (Data \/ DataOfMeta)
    BY CallsAre DEF Data, DataOfMeta, Details
<1> QED
    BY <1>3, <1>4, <1>5, <1>6 DEF Calling, Year

(* The name and the code of a country that a data file names are taken.        *)
LEMMA CountrySaid ==
    ASSUME CtrlInv, CellInv, InFile,
           file \in DataFiles, row > 0, Named(file, row), col \in 0..1, col' # col, row' = row
    PROVE  (CountryName /\ col = 0) \/ (CountryCode /\ col = 1)
<1> USE FilesAre
<1>1. SurelySays(file, row, col)
    BY DEF Named
<1>2. Cell \notin empty /\ Cell \notin Ignored
    BY <1>1 DEF SurelySays, CellInv, Cell
<1>3. Calling
    BY <1>2, StepsInFile DEF Looks, LeavesOut, EndsRow, EndsFile, Returns
<1>4. ~ (NoCallback \/ CodeIso3 \/ CodeIndependency \/ CodeIso2)
    BY CallsAre DEF NoCallback, CodeIso3, CodeIndependency, CodeIso2, CodeDetail
<1>5. ~ (Year \/ Data \/ DataOfMeta)
    BY CallsAre DEF Year, Data, DataOfMeta, Details
<1>6. ~ (MetaColumn \/ CountryNothing)
    BY <1>2, StepsInFile DEF MetaColumn, CountryNothing, Full
<1> QED
    BY <1>3, <1>4, <1>5, <1>6 DEF Calling, CountryName, CountryCode

(* A row of the metadata leaves nothing in the buffer but its own code.        *)
LEMMA MetaSaid ==
    ASSUME CtrlInv, CellInv, InFile, file = Meta, row > 0, row' = row, col' # col
    PROVE  \/ cbdata' = cbdata
           \/ cbdata' = Blank
           \/ cbdata' = Buffer("code", row) /\ Known(row)
<1> USE FilesAre
<1>1. CASE LeavesOut
    BY <1>1 DEF LeavesOut
<1>2. CASE Calling
  <2>1. ~ (CodeIso3 \/ CodeIndependency \/ CodeIso2)
      BY CallsAre DEF CodeIso3, CodeIndependency, CodeIso2, CodeDetail
  <2>2. ~ (CountryName \/ CountryCode)
      BY DEF CountryName, CountryCode
  <2>3. CASE MetaColumn /\ col = 0
    <3>1. place = "call" /\ Cell \notin empty /\ row \in 1..Rows[2]
        BY <2>3, <1>2, StepsInFile, CallsAre, Sizes DEF MetaColumn, Calls, Full, Details
    <3>2. MaySay(2, row, 0)
        BY <2>3, <3>1 DEF CellInv, Cell, MaySay
    <3>3. Known(row)
        BY <3>1, <3>2, FilesAssumption
    <3> QED
        BY <2>3, <3>3 DEF MetaColumn
  <2> QED
      BY <1>2, <2>1, <2>2, <2>3
      DEF Calling, NoCallback, MetaColumn, CountryNothing, Year, Data, DataOfMeta
<1> QED
    BY <1>1, <1>2, StepsInFile DEF Looks, EndsRow, EndsFile, Returns

LEMMA BufferKept ==
    ASSUME CtrlInv, CellInv, BufferInv, [Next]_vars
    PROVE  BufferInv'
<1> USE CtrlFacts, FilesAre
<1>1. CASE FromFileToFile
    BY <1>1, BetweenFiles DEF BufferInv
<1>2. CASE InFile
  <2>1. InFileFrame /\ phase = "reading" /\ row \in Nat /\ col \in Nat
      BY <1>2, StepsInFile
  <2>2. CASE Looks
      BY <2>1, <2>2 DEF Looks, BufferInv, InFileFrame
  <2>3. CASE EndsRow
    <3>1. row' > 0 /\ col' = 0 /\ (file # 0 => cbdata' = Blank) /\ file' = file
        BY <2>1, <2>3 DEF EndsRow, InFileFrame
    <3> QED
        BY <2>1, <2>3, <3>1 DEF EndsRow, BufferInv, InFileFrame
  <2>4. CASE EndsFile
      BY <2>1, <2>4 DEF EndsFile, BufferInv, InFileFrame
  <2>5. CASE LeavesOut \/ Returns
    <3>1. row' = row /\ col' = col + 1 /\ phase' = phase /\ file' = file
          /\ countries_updated' = countries_updated
        BY <2>1, <2>5 DEF LeavesOut, Returns, InFileFrame
    <3>2. file \in {0, 1} => ~ countries_updated
        BY <2>1 DEF BufferInv
    <3>3. CASE row > 0 /\ file = 2
        BY <1>2, <2>1, <3>1, <3>3, MetaSaid DEF BufferInv
    <3>4. CASE row > 0 /\ file \in {1, 3} /\ Named(file, row)
      <4>1. CASE col = 0
        <5>1. CountryName
            BY <1>2, <2>1, <3>1, <3>4, <4>1, CountrySaid DEF CountryCode
        <5>2. ~ countries_updated => cbdata'.is = "name"
            BY <5>1 DEF CountryName, Buffer
        <5> QED
            BY <2>1, <3>1, <3>2, <3>4, <4>1, <5>2 DEF BufferInv
      <4>2. CASE col = 1
        <5>1. CountryCode
            BY <1>2, <2>1, <3>1, <3>4, <4>2, CountrySaid DEF CountryName
        <5>2. cbdata' = Buffer("code", row)
            BY <5>1 DEF CountryCode
        <5> QED
            BY <2>1, <3>1, <3>2, <3>4, <4>2, <5>2 DEF BufferInv
      <4>3. CASE col > 1
        <5>1. cbdata = Buffer("code", row)
            BY <2>1, <3>4, <4>3 DEF BufferInv
        <5>2. cbdata' = cbdata
          <6>1. CASE LeavesOut
              BY <6>1 DEF LeavesOut
          <6>2. CASE Returns
            <7>1. Calling
                BY <3>4, <6>2 DEF Returns
            <7>2. ~ (CodeIso3 \/ CodeIndependency \/ CodeIso2)
                BY <3>4, CallsAre DEF CodeIso3, CodeIndependency, CodeIso2, CodeDetail
            <7> QED
                BY <3>4, <4>3, <7>1, <7>2
                DEF Calling, NoCallback, CountryName, CountryCode, MetaColumn,
                    CountryNothing, Year, Data, DataOfMeta
          <6> QED
              BY <2>5, <6>1, <6>2
        <5> QED
            BY <2>1, <3>1, <3>2, <3>4, <4>3, <5>1, <5>2 DEF BufferInv
      <4> QED
          BY <2>1, <4>1, <4>2, <4>3
    <3>5. CASE ~ (row > 0 /\ (file = 2 \/ (file \in {1, 3} /\ Named(file, row))))
        BY <2>1, <3>1, <3>2, <3>5 DEF BufferInv
    <3> QED
        BY <3>3, <3>4, <3>5
  <2> QED
      BY <1>2, <2>2, <2>3, <2>4, <2>5, StepsInFile
<1>3. CASE TakeQuery \/ CompleteQuery \/ UNCHANGED vars
  <2>1. UNCHANGED parseVars
      BY <1>3 DEF TakeQuery, CompleteQuery, vars, parseVars
  <2>2. UNCHANGED <<phase, file, row, col, cbdata, countries_updated>>
      BY <2>1 DEF parseVars, fileVars, readerVars, countryVars
  <2> QED
      BY <2>2 DEF BufferInv
<1> QED
    BY <1>1, <1>2, <1>3 DEF Next, Main

-----------------------------------------------------------------------------
(* The queue *)

(* What a query refers to is in the queue already.                            *)
Founded(q) ==
    CO2E \notin missing =>
        /\ q.query \in {"Datapoint", "Meta"} => SentCountry(q.country)
        /\ q.query = "Datapoint" => Sent(YearInsert(q.year))

(* A query about a country of a row that has a value or a note is founded.     *)
LEMMA CountryKnown ==
    ASSUME SentInv, CO2E \notin missing, phase = "reading", file \in Files \ {Codes},
           row \in Nat, row > 0, Known(row), file = CO2E => col > 1
    PROVE  SentCountry(row)
<1>1. row \in 1..Rows[CO2E] /\ Named(CO2E, row)
    BY Sizes, FilesAre DEF Known
<1>2. ReadSoFar(CO2E, row, 1)
    BY FilesAre DEF ReadSoFar
<1> QED
    BY <1>1, <1>2 DEF SentInv

LEMMA DataSaid ==
    ASSUME CtrlInv, SayInv, Data, enqueued' # enqueued
    PROVE  \E q \in Queries : Enqueue(q) /\ Founded(q)
<1> USE CtrlFacts, FilesAre
<1>1. /\ Calls("data") /\ file \in {1, 3} /\ row >= 1 /\ col \in YearCols
      /\ Enqueue(DatapointUpsert(file, cbdata.of, col))
    BY DEF Data, queueVars
<1>2. phase = "reading" /\ place = "call" /\ row \in Nat /\ row <= Rows[file] /\ col \in Nat
    BY <1>1, CallsAre DEF Calls
<1>3. col >= 4 /\ row \in 1..Rows[file] /\ row \in Countries
    BY <1>1, <1>2, YearColumns, CountriesAre
<1>4. ignore_empty
    BY <1>1 DEF SetInv
<1>5. MaySay(file, row, col)
    BY <1>2, <1>4 DEF SayInv, CellInv, Cell, MaySay
<1>6. Named(file, row) /\ Known(row)
    BY <1>1, <1>3, <1>5, FilesAssumption
<1>7. cbdata = Buffer("code", row)
    BY <1>1, <1>2, <1>3, <1>6 DEF SayInv, BufferInv
<1> DEFINE q == DatapointUpsert(file, row, col)
<1>8. Enqueue(q) /\ q \in Queries
    BY <1>1, <1>3, <1>7 DEF Buffer, Queries
<1>9. Founded(q)
  <2> SUFFICES ASSUME 1 \notin missing
               PROVE  SentCountry(row) /\ Sent(YearInsert(col))
      BY DEF Founded, DatapointUpsert
  <2>1. SentCountry(row)
      BY <1>1, <1>2, <1>3, <1>6, CountryKnown DEF SayInv
  <2>2. ReadSoFar(CO2E, 0, col)
      BY <1>1, <1>2 DEF ReadSoFar
  <2> QED
      BY <1>1, <2>1, <2>2 DEF SayInv, SentInv
<1> QED
    BY <1>8, <1>9

LEMMA NoteSaid ==
    ASSUME CtrlInv, SayInv, DataOfMeta, enqueued' # enqueued
    PROVE  \E q \in Queries : Enqueue(q) /\ Founded(q)
<1> USE CtrlFacts, FilesAre
<1>1. /\ Calls("data") /\ file = 2 /\ row >= 1 /\ cbdata.is # "nothing"
      /\ Enqueue(CountryUpdate(cbdata.of))
    BY DEF DataOfMeta, queueVars
<1>2. phase = "reading" /\ row \in Nat /\ row <= Rows[file]
    BY <1>1, CallsAre DEF Calls
<1>3. cbdata = Buffer("code", row) /\ Known(row)
    BY <1>1, <1>2 DEF SayInv, BufferInv, Blank, Buffer
<1> DEFINE q == CountryUpdate(row)
<1>4. Enqueue(q) /\ q \in Queries
    BY <1>1, <1>2, <1>3, CountriesAre DEF Buffer, Queries
<1>5. Founded(q)
  <2> SUFFICES ASSUME 1 \notin missing
               PROVE  SentCountry(row)
      BY DEF Founded, CountryUpdate
  <2> QED
      BY <1>1, <1>2, <1>3, CountryKnown DEF SayInv
<1> QED
    BY <1>4, <1>5

LEMMA QueueSaid ==
    ASSUME CtrlInv, SayInv, InFile, enqueued' # enqueued
    PROVE  \E q \in Queries : Enqueue(q) /\ Founded(q)
<1> USE FilesAre
<1>1. Calling
    BY StepsInFile DEF Looks, LeavesOut, EndsRow, EndsFile, Returns
<1>2. CASE CountryCode
  <2>1. Enqueue(CountryInsert(row, ccodes[row])) /\ Calls("country")
      BY <1>2 DEF CountryCode, queueVars
  <2>2. row \in Countries /\ ccodes[row] \in SUBSET Details
      BY <1>2, <2>1, CallsAre, CountriesAre DEF CountryCode, SayInv, DataTypes
  <2> DEFINE q == CountryInsert(row, ccodes[row])
  <2>3. q \in Queries
      BY <2>2 DEF Queries, Blocking
  <2>4. Founded(q)
      BY DEF Founded, CountryInsert
  <2> QED
      BY <2>1, <2>3, <2>4
<1>3. CASE Year
  <2>1. Enqueue(YearInsert(col)) /\ col \in YearCols
      BY <1>3 DEF Year, queueVars
  <2> DEFINE q == YearInsert(col)
  <2>2. q \in Queries
      BY <2>1 DEF Queries, Blocking
  <2>3. Founded(q)
      BY DEF Founded, YearInsert
  <2> QED
      BY <2>1, <2>2, <2>3
<1> QED
    BY <1>1, <1>2, <1>3, DataSaid, NoteSaid
    DEF Calling, NoCallback, CodeIso3, CodeIndependency, CodeIso2, CodeDetail, CountryName,
        MetaColumn, CountryNothing, queueVars

LEMMA EnqueueEffect ==
    ASSUME FifoInv, NEW q \in Queries, Enqueue(q)
    PROVE  /\ enqueued' = Append(enqueued, q) /\ enqueued' \in Seq(Queries)
           /\ Len(enqueued') = Len(enqueued) + 1 /\ Len(enqueued) \in Nat
           /\ \A i \in 1..Len(enqueued) : enqueued'[i] = enqueued[i] /\ enqueued[i] # q
           /\ enqueued'[Len(enqueued) + 1] = q
           /\ dequeued' = dequeued /\ barrier' = barrier
<1>1. enqueued \in Seq(Queries)
    BY DEF FifoInv
<1>2. /\ enqueued' = Append(enqueued, q) /\ dequeued' = dequeued /\ barrier' = barrier
      /\ \A i \in DOMAIN enqueued : enqueued[i] # q
    BY DEF Enqueue, Queue!Enqueue, Queue!Occurs
<1> QED
    BY <1>1, <1>2

LEMMA EnqueueKeepsOrder ==
    ASSUME FifoInv, NEW q \in Queries, Enqueue(q)
    PROVE  FifoInv'
<1>1. /\ enqueued' \in Seq(Queries)
      /\ Len(enqueued') = Len(enqueued) + 1 /\ Len(enqueued) \in Nat
      /\ \A i \in 1..Len(enqueued) : enqueued'[i] = enqueued[i] /\ enqueued[i] # q
      /\ enqueued'[Len(enqueued) + 1] = q
      /\ dequeued' = dequeued /\ barrier' = barrier
    BY EnqueueEffect
<1>2. /\ dequeued \in Seq(Queries) /\ Len(dequeued) <= Len(enqueued)
      /\ \A i \in 1..Len(dequeued) : dequeued[i] = enqueued[i]
      /\ \A i, j \in 1..Len(enqueued) : enqueued[i] = enqueued[j] => i = j
      /\ barrier \subseteq Blocking
      /\ barrier # {} => Len(dequeued) > 0 /\ barrier = {dequeued[Len(dequeued)]}
      /\ Len(dequeued) \in Nat
    BY DEF FifoInv
<1>3. \A i, j \in 1..Len(enqueued)' : enqueued'[i] = enqueued'[j] => i = j
  <2> SUFFICES ASSUME NEW i \in 1..(Len(enqueued) + 1), NEW j \in 1..(Len(enqueued) + 1),
                      enqueued'[i] = enqueued'[j]
               PROVE  i = j
      BY <1>1
  <2>1. i \in 1..Len(enqueued) \/ i = Len(enqueued) + 1
      BY <1>1
  <2>2. j \in 1..Len(enqueued) \/ j = Len(enqueued) + 1
      BY <1>1
  <2> QED
      BY <1>1, <1>2, <2>1, <2>2
<1>4. \A i \in 1..Len(dequeued) : dequeued[i] = enqueued'[i]
    BY <1>1, <1>2
<1> QED
    BY <1>1, <1>2, <1>3, <1>4 DEF FifoInv

LEMMA TakeKeepsOrder ==
    ASSUME FifoInv, TakeQuery \/ CompleteQuery
    PROVE  FifoInv' /\ enqueued' = enqueued
<1>1. /\ enqueued \in Seq(Queries) /\ dequeued \in Seq(Queries)
      /\ Len(dequeued) <= Len(enqueued)
      /\ \A i \in 1..Len(dequeued) : dequeued[i] = enqueued[i]
      /\ \A i, j \in 1..Len(enqueued) : enqueued[i] = enqueued[j] => i = j
      /\ Len(dequeued) \in Nat /\ Len(enqueued) \in Nat
    BY DEF FifoInv
<1>2. CASE Queue!Dequeue
  <2> PICK q : q = enqueued[Len(dequeued) + 1]
      OBVIOUS
  <2>1. /\ Len(dequeued) < Len(enqueued) /\ enqueued' = enqueued
        /\ dequeued' = Append(dequeued, q) /\ barrier' = {q} \cap Blocking
      BY <1>2 DEF Queue!Dequeue
  <2>2. q \in Queries
      BY <1>1, <2>1
  <2>3. /\ dequeued' \in Seq(Queries) /\ Len(dequeued') = Len(dequeued) + 1
        /\ \A i \in 1..Len(dequeued) : dequeued'[i] = dequeued[i]
        /\ dequeued'[Len(dequeued) + 1] = q
      BY <1>1, <2>1, <2>2
  <2>4. \A i \in 1..Len(dequeued') : dequeued'[i] = enqueued[i]
    <3> SUFFICES ASSUME NEW i \in 1..(Len(dequeued) + 1)
                 PROVE  dequeued'[i] = enqueued[i]
        BY <2>3
    <3>1. i \in 1..Len(dequeued) \/ i = Len(dequeued) + 1
        BY <1>1
    <3> QED
        BY <1>1, <2>3, <3>1
  <2>5. barrier' \subseteq Blocking
        /\ (barrier' # {} => barrier' = {dequeued'[Len(dequeued')]} /\ Len(dequeued') > 0)
      BY <1>1, <2>1, <2>3
  <2> QED
      BY <1>1, <2>1, <2>3, <2>4, <2>5 DEF FifoInv
<1>3. CASE Queue!Complete
    BY <1>3 DEF Queue!Complete, FifoInv
<1> QED
    BY <1>2, <1>3 DEF TakeQuery, CompleteQuery

(* The queue only grows.                                                     *)
LEMMA QueueGrows ==
    ASSUME CtrlInv, SayInv, [Next]_vars
    PROVE  /\ FifoInv'
           /\ \/ enqueued' = enqueued
              \/ InFile /\ \E q \in Queries : Enqueue(q) /\ Founded(q)
<1>0. FifoInv
    BY DEF SayInv
<1>1. CASE FromFileToFile \/ UNCHANGED vars
  <2>1. UNCHANGED queueVars
      BY <1>1, BetweenFiles DEF vars
  <2> QED
      BY <1>0, <2>1 DEF queueVars, FifoInv
<1>2. CASE InFile
  <2>1. CASE enqueued' = enqueued
      BY <1>0, <1>2, <2>1, StepsInFile DEF InFileFrame, FifoInv
  <2>2. CASE enqueued' # enqueued
      BY <1>0, <1>2, <2>2, QueueSaid, EnqueueKeepsOrder
  <2> QED
      BY <2>1, <2>2
<1>3. CASE TakeQuery \/ CompleteQuery
    BY <1>0, <1>3, TakeKeepsOrder
<1> QED
    BY <1>1, <1>2, <1>3 DEF Next, Main

LEMMA StaysSent ==
    ASSUME CtrlInv, SayInv, [Next]_vars, NEW p, Sent(p)
    PROVE  Sent(p)'
<1>1. CASE enqueued' = enqueued
    BY <1>1 DEF Sent
<1>2. CASE \E q \in Queries : Enqueue(q)
  <2>1. PICK q \in Queries : Enqueue(q)
      BY <1>2
  <2>2. /\ enqueued' \in Seq(Queries) /\ enqueued \in Seq(Queries)
        /\ Len(enqueued') = Len(enqueued) + 1
        /\ \A i \in 1..Len(enqueued) : enqueued'[i] = enqueued[i]
      BY <2>1, EnqueueEffect DEF SayInv, FifoInv
  <2>3. PICK i \in DOMAIN enqueued : enqueued[i] = p
      BY DEF Sent
  <2>4. i \in DOMAIN enqueued' /\ enqueued'[i] = p
      BY <2>2, <2>3
  <2> QED
      BY <2>4 DEF Sent
<1> QED
    BY <1>1, <1>2, QueueGrows

LEMMA IsSent ==
    ASSUME FifoInv, NEW q \in Queries, Enqueue(q)
    PROVE  Sent(q)'
<1>1. /\ enqueued' \in Seq(Queries) /\ enqueued'[Len(enqueued) + 1] = q
      /\ Len(enqueued') = Len(enqueued) + 1 /\ Len(enqueued) \in Nat
    BY EnqueueEffect
<1>2. Len(enqueued) + 1 \in DOMAIN enqueued'
    BY <1>1
<1> QED
    BY <1>1, <1>2 DEF Sent

LEMMA MissingGrows ==
    ASSUME CtrlInv, [Next]_vars
    PROVE  missing \subseteq missing'
<1>1. CASE FromFileToFile
    BY <1>1, BetweenFiles
<1>2. CASE InFile
    BY <1>2, StepsInFile DEF InFileFrame
<1>3. CASE TakeQuery \/ CompleteQuery \/ UNCHANGED vars
    BY <1>3 DEF TakeQuery, CompleteQuery, vars, parseVars, fileVars
<1> QED
    BY <1>1, <1>2, <1>3 DEF Next, Main

LEMMA RefKept ==
    ASSUME CtrlInv, SayInv, [Next]_vars
    PROVE  RefInv'
<1> USE FilesAre
<1> SUFFICES ASSUME CO2E \notin missing'
             PROVE  \A i \in 1..Len(enqueued)' : Refers(i)'
    BY DEF RefInv
<1>1. CO2E \notin missing
    BY MissingGrows
<1>2. \A i \in 1..Len(enqueued) : Refers(i)
    BY <1>1 DEF SayInv, RefInv
<1>3. CASE enqueued' = enqueued
    BY <1>2, <1>3 DEF Refers
<1>4. CASE \E q \in Queries : Enqueue(q) /\ Founded(q)
  <2>1. PICK q \in Queries : Enqueue(q) /\ Founded(q)
      BY <1>4
  <2>2. /\ enqueued \in Seq(Queries) /\ Len(enqueued) \in Nat
        /\ Len(enqueued') = Len(enqueued) + 1
        /\ \A i \in 1..Len(enqueued) : enqueued'[i] = enqueued[i]
        /\ enqueued'[Len(enqueued) + 1] = q
      BY <2>1, EnqueueEffect DEF SayInv, FifoInv
  <2>3. ASSUME NEW i \in 1..Len(enqueued)
        PROVE  Refers(i)'
    <3>1. Refers(i) /\ enqueued'[i] = enqueued[i]
        BY <1>2, <2>2
    <3>2. \A j \in 1..(i - 1) : enqueued'[j] = enqueued[j]
        BY <2>2
    <3> QED
        BY <3>1, <3>2 DEF Refers
  <2>4. ASSUME NEW i, i = Len(enqueued) + 1
        PROVE  Refers(i)'
    <3>1. /\ q.query \in {"Datapoint", "Meta"} =>
                \E d \in SUBSET Details : \E j \in 1..Len(enqueued) :
                    enqueued'[j] = CountryInsert(q.country, d)
          /\ q.query = "Datapoint" =>
                \E j \in 1..Len(enqueued) : enqueued'[j] = YearInsert(q.year)
        BY <1>1, <2>1, <2>2 DEF Founded, SentCountry, Sent
    <3>2. i - 1 = Len(enqueued) /\ enqueued'[i] = q
        BY <2>2, <2>4
    <3> QED
        BY <3>1, <3>2 DEF Refers
  <2>5. \A i \in 1..Len(enqueued)' : i \in 1..Len(enqueued) \/ i = Len(enqueued) + 1
      BY <2>2
  <2> QED
      BY <2>3, <2>4, <2>5
<1> QED
    BY <1>3, <1>4, QueueGrows

(* The walk through a file goes on in that file only.                         *)
LEMMA ReadsOn ==
    ASSUME CtrlInv, [Next]_vars, NEW f \in Files, f \notin missing', NEW r \in Nat,
           NEW c \in Nat, ReadSoFar(f, r, c)', ~ ReadSoFar(f, r, c)
    PROVE  InFile
<1>1. CASE FromFileToFile
    BY <1>1, BetweenFiles
<1>2. CASE TakeQuery \/ CompleteQuery \/ UNCHANGED vars
  <2>1. UNCHANGED parseVars
      BY <1>2 DEF TakeQuery, CompleteQuery, vars, parseVars
  <2>2. UNCHANGED <<phase, file, row, col>>
      BY <2>1 DEF parseVars, fileVars, readerVars
  <2> QED
      BY <2>2 DEF ReadSoFar
<1> QED
    BY <1>1, <1>2 DEF Next, Main

(* A cell of it has been read when a step leaves it behind in its row.         *)
LEMMA ReadsCell ==
    ASSUME CtrlInv, InFile, NEW f \in Files,
           NEW r \in 0..Rows[f], NEW c \in 0..LastCol[f],
           ReadSoFar(f, r, c)', ~ ReadSoFar(f, r, c)
    PROVE  file = f /\ row = r /\ col = c /\ row' = row /\ col' # col
<1> USE CtrlFacts, FilesAre
<1>1. /\ phase = "reading" /\ row \in Nat /\ col \in Nat /\ file' = file
      /\ r \in Nat /\ c \in Nat /\ Rows[f] \in Nat /\ LastCol[f] \in Nat
    BY StepsInFile, Sizes DEF InFileFrame
<1>2. file = f
    BY <1>1 DEF ReadSoFar
<1>3. ~ (r < row) /\ (r = row => ~ c < col)
    BY <1>1, <1>2 DEF ReadSoFar
<1>4. CASE Looks
    BY <1>1, <1>4 DEF Looks, ReadSoFar
<1>5. CASE EndsRow
  <2>1. row' = row + 1 /\ col' = 0 /\ col = LastCol[f] + 1 /\ phase' = "reading"
      BY <1>1, <1>2, <1>5 DEF EndsRow
  <2>2. r < row + 1 \/ (r = row + 1 /\ c < 0)
      BY <1>1, <1>2, <2>1 DEF ReadSoFar
  <2>3. r = row
      BY <1>1, <1>3, <2>2
  <2> QED
      BY <1>1, <1>3, <2>1, <2>3
<1>6. CASE EndsFile
    BY <1>1, <1>2, <1>3, <1>6 DEF EndsFile
<1>7. CASE LeavesOut \/ Returns
  <2>1. row' = row /\ col' = col + 1 /\ phase' = "reading"
      BY <1>1, <1>7 DEF LeavesOut, Returns
  <2>2. r < row \/ (r = row /\ c < col + 1)
      BY <1>1, <1>2, <2>1 DEF ReadSoFar
  <2> QED
      BY <1>1, <1>2, <1>3, <2>1, <2>2
<1> QED
    BY <1>4, <1>5, <1>6, <1>7, StepsInFile

LEMMA SentKept ==
    ASSUME CtrlInv, SayInv, [Next]_vars
    PROVE  SentInv'
<1> USE FilesAre
<1> SUFFICES ASSUME CO2E \notin missing'
             PROVE  /\ \A y \in YearCols : ReadSoFar(CO2E, 0, y)' => Sent(YearInsert(y))'
                    /\ \A r \in 1..Rows[CO2E] :
                          Named(CO2E, r) /\ ReadSoFar(CO2E, r, 1)' => SentCountry(r)'
    BY DEF SentInv
<1>1. /\ CO2E \notin missing /\ FifoInv /\ SentInv /\ BufferInv /\ CellInv /\ DataTypes
      /\ Rows[CO2E] \in Nat /\ LastCol[CO2E] \in Nat
    BY MissingGrows, Sizes DEF SayInv
<1>2. ASSUME NEW y \in YearCols, ReadSoFar(CO2E, 0, y)'
      PROVE  Sent(YearInsert(y))'
  <2>1. y \in 0..LastCol[CO2E] /\ y \in Nat /\ 0 \in 0..Rows[CO2E]
      BY <1>1, YearColumns
  <2>2. CASE ReadSoFar(CO2E, 0, y)
    <3>1. Sent(YearInsert(y))
        BY <1>1, <2>2 DEF SentInv
    <3> QED
        BY <3>1, StaysSent
  <2>3. CASE ~ ReadSoFar(CO2E, 0, y)
    <3>1. InFile
        BY <1>2, <2>1, <2>3, ReadsOn
    <3>2. file = CO2E /\ row = 0 /\ col = y /\ row' = row /\ col' # col
        BY <1>2, <2>1, <2>3, <3>1, ReadsCell
    <3>3. Enqueue(YearInsert(col))
        BY <1>1, <3>1, <3>2, YearSaid
    <3>4. YearInsert(y) \in Queries /\ Enqueue(YearInsert(y))
        BY <3>2, <3>3 DEF Queries, Blocking
    <3> QED
        BY <1>1, <3>4, IsSent
  <2> QED
      BY <2>2, <2>3
<1>3. ASSUME NEW r \in 1..Rows[CO2E], Named(CO2E, r), ReadSoFar(CO2E, r, 1)'
      PROVE  SentCountry(r)'
  <2>1. r \in 0..Rows[CO2E] /\ r \in Nat /\ r > 0 /\ 1 \in 0..LastCol[CO2E]
      BY <1>1, <1>3 DEF Named
  <2>2. CASE ReadSoFar(CO2E, r, 1)
    <3>1. PICK d \in SUBSET Details : Sent(CountryInsert(r, d))
        BY <1>1, <1>3, <2>2 DEF SentInv, SentCountry
    <3>2. Sent(CountryInsert(r, d))'
        BY <3>1, StaysSent
    <3> QED
        BY <3>2 DEF SentCountry
  <2>3. CASE ~ ReadSoFar(CO2E, r, 1)
    <3>1. InFile
        BY <1>3, <2>1, <2>3, ReadsOn
    <3>2. file = CO2E /\ row = r /\ col = 1 /\ row' = row /\ col' # col
        BY <1>3, <2>1, <2>3, <3>1, ReadsCell
    <3>3. CountryCode /\ phase = "reading"
        BY <1>1, <1>3, <2>1, <3>1, <3>2, CountrySaid, StepsInFile
    <3>4. cbdata.is = "name" /\ ~ countries_updated
        BY <1>1, <1>3, <2>1, <3>2, <3>3 DEF BufferInv
    <3>5. Enqueue(CountryInsert(r, ccodes[r]))
        BY <3>2, <3>3, <3>4 DEF CountryCode
    <3>6. r \in Countries /\ ccodes[r] \in SUBSET Details
        BY <1>1, <2>1, <1>3, CountriesAre DEF DataTypes
    <3>7. PICK d \in SUBSET Details : d = ccodes[r]
        BY <3>6
    <3>8. CountryInsert(r, d) \in Queries /\ Enqueue(CountryInsert(r, d))
        BY <3>5, <3>6, <3>7 DEF Queries, Blocking
    <3>9. Sent(CountryInsert(r, d))'
        BY <1>1, <3>8, IsSent
    <3> QED
        BY <3>9 DEF SentCountry
  <2> QED
      BY <2>2, <2>3
<1> QED
    BY <1>2, <1>3

-----------------------------------------------------------------------------
(* The theorems *)

LEMMA SayCorrect == Spec => [](CtrlInv /\ SayInv)
<1>1. Init => CtrlInv /\ SayInv
    BY CtrlInit, SayInit
<1>2. CtrlInv /\ SayInv /\ [Next]_vars => CtrlInv' /\ SayInv'
  <2> SUFFICES ASSUME CtrlInv, SayInv, [Next]_vars
               PROVE  CtrlInv' /\ SayInv'
      OBVIOUS
  <2>1. FlagTypes' /\ DataTypes' /\ CellInv' /\ BufferInv'
      BY FlagTypesKept, DataTypesKept, CellKept, BufferKept DEF SayInv
  <2>2. SentInv' /\ FifoInv' /\ RefInv'
      BY SentKept, QueueGrows, RefKept
  <2> QED
      BY <2>1, <2>2, CtrlNext DEF SayInv
<1> QED
    BY <1>1, <1>2, PTL DEF Spec

(* TypeOK, for files of any size: every query that is enqueued is of a country *)
(* and a year of the files.                                                 *)
THEOREM TypeCorrect == Spec => []TypeOK
<1>1. CtrlInv /\ SayInv => TypeOK
  <2> SUFFICES ASSUME CtrlInv, SayInv
               PROVE  TypeOK
      OBVIOUS
  <2>1. callback_ids \in [0..5 -> 0..8] /\ file \in Files
      BY CtrlFacts DEF ShapeInv, StandInv
  <2>2. phase \in {"begin", "open", "reading", "read", "year", "clear_year", "wait",
                   "record", "recorded", "failed", "crash", "loop"}
      BY CtrlFacts DEF StandInv
  <2>3. enqueued \in Seq(Queries) /\ barrier \in SUBSET Blocking
      BY DEF SayInv, FifoInv
  <2>4. {enqueued[i] : i \in DOMAIN enqueued} \subseteq Queries
      BY <2>3
  <2>5. FlagTypes /\ DataTypes
      BY DEF SayInv
  <2> QED
      BY <2>1, <2>2, <2>3, <2>4, <2>5 DEF TypeOK, FlagTypes, DataTypes
<1> QED
    BY <1>1, SayCorrect, PTL

(* ReferencesStored: however many queries are under way, a data point or the    *)
(* metadata of a country goes to the database when the inserts it refers to     *)
(* have completed, if the file with the years was read.                       *)
THEOREM StoredFirst == Spec => []ReferencesStored
<1>1. CtrlInv /\ SayInv => ReferencesStored
  <2> SUFFICES ASSUME SayInv, CO2E \notin missing, NEW i \in DOMAIN dequeued
               PROVE  /\ dequeued[i].query \in {"Datapoint", "Meta"} =>
                             \E d \in SUBSET Details :
                                 CountryInsert(dequeued[i].country, d) \in Completed
                      /\ dequeued[i].query = "Datapoint" =>
                             YearInsert(dequeued[i].year) \in Completed
      BY DEF ReferencesStored
  <2>1. /\ enqueued \in Seq(Queries) /\ dequeued \in Seq(Queries)
        /\ Len(dequeued) <= Len(enqueued) /\ Len(dequeued) \in Nat /\ Len(enqueued) \in Nat
        /\ \A k \in 1..Len(dequeued) : dequeued[k] = enqueued[k]
        /\ \A j, k \in 1..Len(enqueued) : enqueued[j] = enqueued[k] => j = k
        /\ barrier # {} => barrier = {dequeued[Len(dequeued)]}
        /\ i \in 1..Len(dequeued)
      BY DEF SayInv, FifoInv
  <2>2. Refers(i) /\ dequeued[i] = enqueued[i]
      BY <2>1 DEF SayInv, RefInv
  <2>3. ASSUME NEW j \in 1..(i - 1), enqueued[j] \in Blocking
        PROVE  enqueued[j] \in Completed
    <3>1. j \in DOMAIN dequeued /\ dequeued[j] = enqueued[j]
        BY <2>1
    <3>2. dequeued[j] # dequeued[Len(dequeued)]
        BY <2>1
    <3>3. enqueued[j] \notin barrier
        BY <2>1, <3>1, <3>2
    <3> QED
        BY <2>3, <3>1, <3>3 DEF Completed
  <2>4. \A j \in 1..(i - 1) : enqueued[j].query \in {"Country", "YearData"} =>
            enqueued[j] \in Blocking
    <3> SUFFICES ASSUME NEW j \in 1..(i - 1), enqueued[j].query \in {"Country", "YearData"}
                 PROVE  enqueued[j] \in Blocking
        OBVIOUS
    <3>1. enqueued[j] \in Queries
        BY <2>1
    <3> QED
        BY <3>1 DEF Queries, CountryUpdate, DatapointUpsert
  <2>5. /\ \A c, d : CountryInsert(c, d).query = "Country"
        /\ \A y : YearInsert(y).query = "YearData"
      BY DEF CountryInsert, YearInsert
  <2>6. ASSUME dequeued[i].query \in {"Datapoint", "Meta"}
        PROVE  \E d \in SUBSET Details : CountryInsert(dequeued[i].country, d) \in Completed
    <3>1. PICK j \in 1..(i - 1), d \in SUBSET Details :
              enqueued[j] = CountryInsert(dequeued[i].country, d)
        BY <2>2, <2>6 DEF Refers
    <3> QED
        BY <2>3, <2>4, <2>5, <3>1
  <2>7. ASSUME dequeued[i].query = "Datapoint"
        PROVE  YearInsert(dequeued[i].year) \in Completed
    <3>1. PICK j \in 1..(i - 1) : enqueued[j] = YearInsert(dequeued[i].year)
        BY <2>2, <2>7 DEF Refers
    <3> QED
        BY <2>3, <2>4, <2>5, <3>1
  <2> QED
      BY <2>6, <2>7
<1> QED
    BY <1>1, SayCorrect, PTL
===============================================================================
