------------------------- MODULE UpdateRecordedProofs -------------------------
(***************************************************************************)
(* The proof that a recorded update of UpdateParse has sent what its files *)
(* amount to, and nothing else: for complete files of any size, any of     *)
(* them missing.                                                           *)
(***************************************************************************)
EXTENDS UpdateSentProofs

-----------------------------------------------------------------------------
(* The invariant: the files that were read, and what they amount to so far *)

(* A missing file has been passed, and the one being read is not missing.    *)
MissInv ==
    /\ missing \subseteq 0..file
    /\ phase \in {"begin", "open", "reading"} => file \notin missing

(* A file starts with an empty queue.                                        *)
QuietInv ==
    /\ phase \in {"begin", "open", "year", "record", "recorded", "failed", "crash"} =>
          Len(dequeued) = Len(enqueued)
    /\ file = Codes => Len(enqueued) = 0
    /\ phase \in {"record", "recorded", "failed"} => file = POPT

(* The countries are inserted from the first data file that is read.         *)
UpdatedInv ==
    CO2E \notin missing
        /\ (file \in {Meta, POPT} \/ (file = CO2E /\ phase \in {"clear_year", "wait"}))
    => countries_updated

(* The columns of the codes are registered as their headers are read.         *)
HeaderInv ==
    file = Codes /\ phase \in {"open", "reading"} =>
        /\ \A i \in 5..7 : tbl[i] # NULL => On(i)
        /\ \A h \in DOMAIN CodesHeader :
              CodesHeader[h] \in Details /\ ReadSoFar(Codes, 0, h) =>
                  callback_ids[IdOf(CodesHeader[h])] # 0
        /\ (phase = "open" \/ row = 0) /\ (\E k \in 1..3 : callback_ids[k] = 0) => On(2)

(* No column is registered, and the search for columns does not know it.      *)
Bare == callback_ids[1] = 0 /\ offs # 255

OffsInv ==
    /\ file = Codes /\ (phase = "reading" => place = "eor" \/ (place = "row" /\ col = 0)) =>
          offs # 255
    /\ file = CO2E /\ (phase = "open" \/ CO2E \in missing) => Bare
    /\ file = Meta /\ phase = "open" /\ CO2E \in missing => Bare

(* If it was not read but is taken for read, the countries are not inserted any  *)
(* more; but the metadata has no callbacks then, and the reader does not get   *)
(* past its header; or, without the metadata, not past the clearing of it.     *)
HeaderLost ==
    /\ file = Meta /\ phase = "reading" /\ row = 0 /\ callback_ids[0] = 0 /\ Bare
    /\ \A c \in 0..LastCol[Meta] : SurelySays(Meta, 0, c) => col <= c
    /\ place \in {"row", "search", "columns", "crash"}
    /\ place = "columns" => at # 255

Lost ==
    \/ file = CO2E /\ (phase = "wait" => callback_ids[0] = 0)
    \/ file = Meta /\ phase = "open" /\ callback_ids[0] = 0
    \/ HeaderLost
    \/ file = Meta /\ phase = "read" /\ Meta \in missing /\ callback_ids[1] = 0
    \/ Broken
    \/ file = POPT /\ phase \in {"clear_year", "loop", "wait", "record", "recorded", "failed"}

LostInv == CO2E \in missing /\ countries_updated => Lost

(* Between the code of a country and its last detail, the buffer holds the code. *)
CodesBuffer ==
    file = Codes /\ phase = "reading" /\ row > 0 =>
        \A h, l \in DOMAIN CodesHeader :
            /\ CodesHeader[h] = "iso_a3" /\ h < col
            /\ CodesHeader[l] \in Details /\ col <= l
            => cbdata = Buffer("code", row)

(* What is known of a country is what the cells read so far say of it.       *)
CodesSoFar(c) ==
    {d \in Details : \E h \in DOMAIN CodesHeader :
        CodesHeader[h] = d /\ SaysSomething(Codes, c, h) /\ ReadSoFar(Codes, c, h)}

CcodesInv ==
    \A c \in Countries : ccodes[c] = IF Codes \in missing THEN {} ELSE CodesSoFar(c)

(* The buffer in a row that is under way.                                     *)
RowInv ==
    phase = "reading" /\ row > 0 =>
        /\ file = Meta /\ col \in 1..3 => cbdata = Buffer("code", row)
        /\ file \in DataFiles /\ col = 0 => cbdata = Blank
        /\ file \in DataFiles /\ col = 1 => cbdata = Blank \/ <<file, row, 0>> \notin Ignored

(* No cell is lost,                                                          *)
DataInv ==
    \A f \in DataFiles : \A r \in 1..Rows[f] : \A y \in YearCols :
        f \notin missing /\ SaysSomething(f, r, y) /\ ReadSoFar(f, r, y) =>
            Sent(DatapointUpsert(f, r, y))

NotesInv ==
    \A r \in 1..Rows[Meta] :
        Meta \notin missing /\ ReadSoFar(Meta, r, 3) => Sent(CountryUpdate(r))

(* nor is a country, though the first data file could not be read;            *)
InsertInv ==
    CO2E \in missing /\ POPT \notin missing =>
        \A r \in 1..Rows[POPT] : Named(POPT, r) /\ ReadSoFar(POPT, r, 1) => SentCountry(r)

(* and nothing else is sent.                                                 *)
Begun(f) == file > f \/ (file = f /\ phase \notin {"begin", "open"})

Right(q) ==
    \/ \E f \in DataFiles \ missing :
          /\ Begun(f) /\ (f = POPT => CO2E \in missing)
          /\ \E c \in 1..Rows[f] : HasCountry(f, c) /\ q = CountryInsert(c, CodesOf(c))
    \/ CO2E \notin missing /\ Begun(CO2E) /\ \E y \in YearCols : q = YearInsert(y)
    \/ /\ Meta \notin missing /\ Begun(Meta)
       /\ \E c \in 1..Rows[Meta] : q = CountryUpdate(c)
    \/ \E f \in DataFiles \ missing :
          /\ Begun(f)
          /\ \E c \in 1..Rows[f], y \in YearCols :
                SaysSomething(f, c, y) /\ q = DatapointUpsert(f, c, y)

RightInv == \A i \in 1..Len(enqueued) : Right(enqueued[i])

RecInv ==
    /\ MissInv /\ QuietInv /\ UpdatedInv /\ OffsInv /\ LostInv
    /\ HeaderInv /\ CodesBuffer /\ CcodesInv /\ RowInv
    /\ DataInv /\ NotesInv /\ InsertInv /\ RightInv

-----------------------------------------------------------------------------
(* Which files have been read *)

(* Where a step from file to file leads.                                     *)
LEMMA Walk ==
    ASSUME CtrlInv, FromFileToFile
    PROVE  \/ /\ UNCHANGED <<missing, countries_updated>> /\ file = 0
              /\ \/ phase = "begin" /\ phase' = "open" /\ file' = 0
                 \/ phase = "read" /\ phase' = "year" /\ file' = 0
                 \/ phase = "year" /\ phase' = "open" /\ file' = 1
           \/ /\ phase = "open" /\ file' = file /\ UNCHANGED countries_updated
              /\ \/ phase' = "reading" /\ row' = 0 /\ col' = 0 /\ missing' = missing
                 \/ phase' = "read" /\ missing' = missing \cup {file}
                 \/ phase' = "crash" /\ missing' = missing /\ file \in {2, 3}
           \/ /\ phase = "open" /\ missing' = missing \cup {file}
              /\ UNCHANGED countries_updated
              /\ \/ phase' = "open" /\ file = 1 /\ file' = 2
                 \/ phase' = "record" /\ file = 3 /\ file' = 3
           \/ /\ file' = file /\ missing' = missing /\ file # 0
              /\ \/ phase = "read" /\ phase' = "clear_year"
                    /\ IF file = 2 THEN UNCHANGED countries_updated ELSE countries_updated'
                 \/ /\ phase = "clear_year" /\ UNCHANGED countries_updated
                    /\ phase' = "wait" \/ (phase' = "loop" /\ file \in {2, 3})
                 \/ phase = "record" /\ phase' \in {"recorded", "failed"}
                    /\ UNCHANGED countries_updated
           \/ /\ phase = "wait" /\ Len(dequeued) = Len(enqueued) /\ file # 0
              /\ UNCHANGED <<missing, countries_updated>>
              /\ \/ phase' = "open" /\ file < 3 /\ file' = file + 1
                 \/ phase' = "record" /\ file = 3 /\ file' = 3
<1> USE CtrlFacts, FilesAre
<1>1. CASE Begin \/ AfterCodes \/ RegisterYear
    BY <1>1 DEF Begin, AfterCodes, RegisterYear, Register, countryVars, StandInv
<1>2. CASE OpenCodes \/ OpenMeta
  <2>1. /\ phase = "open" /\ file' = file /\ UNCHANGED countries_updated
        /\ ReadFile
      BY <1>2 DEF OpenCodes, OpenMeta, countryVars
  <2> QED
      BY <2>1 DEF ReadFile, Csv!StartFile, Csv!Move
<1>3. CASE OpenData
  <2>1. phase = "open" /\ file \in {1, 3} /\ UNCHANGED countries_updated
      BY <1>3 DEF OpenData, countryVars
  <2>2. \/ /\ phase' = "reading" /\ row' = 0 /\ col' = 0 /\ file' = file
           /\ missing' = missing
        \/ phase' = "read" /\ missing' = missing \cup {file} /\ file' = file
        \/ /\ missing' = missing \cup {file}
           /\ \/ phase' = "open" /\ file' = file + 1 /\ file < 3
              \/ phase' = "record" /\ file' = file /\ ~ file < 3
      BY <1>3 DEF OpenData, ReadFile, NextFile, Csv!StartFile, Csv!Move
  <2> QED
      BY <2>1, <2>2
<1>4. CASE OpenCrashes \/ AfterData \/ Wait \/ Record
  <2>1. /\ missing' = missing /\ file # 0
        /\ \/ phase = "open" /\ phase' = "crash" /\ file' = file /\ Broken
              /\ UNCHANGED countries_updated
           \/ phase = "read" /\ phase' = "clear_year" /\ file' = file /\ file # 2
              /\ countries_updated'
           \/ /\ phase = "wait" /\ Len(dequeued) = Len(enqueued)
              /\ UNCHANGED countries_updated
              /\ \/ phase' = "open" /\ file' = file + 1 /\ file < 3
                 \/ phase' = "record" /\ file' = file /\ file = 3
           \/ phase = "record" /\ phase' \in {"recorded", "failed"} /\ file' = file
              /\ UNCHANGED countries_updated
      BY <1>4 DEF OpenCrashes, AfterData, Wait, WaitWhen, NextFile, Record, StandInv, Broken,
                  countryVars
  <2>2. phase = "open" /\ Broken => file \in {2, 3}
      BY DEF StandInv
  <2> QED
      BY <2>1, <2>2
<1>5. CASE AfterMeta \/ ClearYear
  <2>1. /\ UNCHANGED countries_updated /\ missing' = missing /\ file' = file /\ file # 0
        /\ \/ phase = "read" /\ phase' = "clear_year" /\ file = 2
           \/ phase = "clear_year" /\ phase' = "wait"
           \/ phase = "clear_year" /\ phase' = "loop" /\ skip[0] = 0
      BY <1>5 DEF AfterMeta, AfterMetaClearing, ClearYear, countryVars, StandInv
  <2>2. ~ Broken => skip[0] # 0
      BY ReaderFacts
  <2>3. phase' = "loop" => file \in {2, 3}
      BY <2>1, <2>2 DEF StandInv
  <2> QED
      BY <2>1, <2>3
<1> QED
    BY <1>1, <1>2, <1>3, <1>4, <1>5 DEF FromFileToFile

(* The other steps keep to the file.                                         *)
LEMMA InTheFile ==
    ASSUME CtrlInv, ~ FromFileToFile, [Next]_vars
    PROVE  /\ UNCHANGED <<file, missing, empty, countries_updated>>
           /\ \/ InFile /\ phase = "reading" /\ phase' \in {"reading", "read"}
              \/ UNCHANGED <<phase, row, col, cbdata, ccodes, enqueued>>
<1>1. CASE InFile
    BY <1>1, StepsInFile DEF InFileFrame, Looks, LeavesOut, EndsRow, EndsFile, Returns
<1>2. CASE TakeQuery \/ CompleteQuery \/ UNCHANGED vars
  <2>1. UNCHANGED parseVars
      BY <1>2 DEF TakeQuery, CompleteQuery, vars, parseVars
  <2>2. enqueued' = enqueued
      BY <1>2 DEF TakeQuery, CompleteQuery, vars, queueVars, Queue!Dequeue, Queue!Complete
  <2> QED
      BY <2>1, <2>2 DEF parseVars, fileVars, readerVars, countryVars
<1> QED
    BY <1>1, <1>2 DEF Next, Main

LEMMA MissKept ==
    ASSUME CtrlInv, MissInv, [Next]_vars
    PROVE  MissInv'
<1> USE CtrlFacts, FilesAre
<1>1. CASE FromFileToFile
  <2>1. missing \subseteq 0..file /\ (phase \in {"begin", "open", "reading"} => file \notin missing)
      BY DEF MissInv
  <2> QED
      BY <1>1, <2>1, Walk DEF MissInv
<1>2. CASE ~ FromFileToFile
    BY <1>2, InTheFile DEF MissInv
<1> QED
    BY <1>1, <1>2

LEMMA UpdatedKept ==
    ASSUME CtrlInv, FlagTypes, UpdatedInv, [Next]_vars
    PROVE  UpdatedInv'
<1> USE CtrlFacts, FilesAre
<1>1. CASE FromFileToFile
    BY <1>1, Walk DEF UpdatedInv
<1>2. CASE ~ FromFileToFile
    BY <1>2, InTheFile DEF UpdatedInv
<1> QED
    BY <1>1, <1>2

(* Nothing is enqueued from the file of country codes.                        *)
LEMMA CodesEnqueueNothing ==
    ASSUME CtrlInv, SayInv, [Next]_vars, enqueued' # enqueued
    PROVE  InFile /\ phase = "reading" /\ file # Codes /\ Calling
<1> USE FilesAre
<1>1. InFile /\ phase = "reading"
    BY QueueGrows, StepsInFile
<1>2. Calling
    BY <1>1, StepsInFile DEF Looks, LeavesOut, EndsRow, EndsFile, Returns
<1>3. CountryCode \/ Year \/ Data \/ DataOfMeta
    BY <1>2 DEF Calling, NoCallback, CodeIso3, CodeIndependency, CodeIso2, CodeDetail,
                CountryName, MetaColumn, CountryNothing, queueVars
<1>4. file # Codes
    BY <1>3, CallsAre DEF CountryCode, Year, Data, DataOfMeta, Details
<1> QED
    BY <1>1, <1>2, <1>4

LEMMA QuietKept ==
    ASSUME CtrlInv, SayInv, QuietInv, [Next]_vars
    PROVE  QuietInv'
<1> USE CtrlFacts, FilesAre
<1>0. /\ Len(dequeued) \in Nat /\ Len(enqueued) \in Nat /\ Len(dequeued) <= Len(enqueued)
    BY DEF SayInv, FifoInv
<1>1. CASE FromFileToFile
  <2>1. enqueued' = enqueued /\ dequeued' = dequeued
      BY <1>1, BetweenFiles DEF queueVars
  <2> QED
      BY <1>0, <1>1, <2>1, Walk DEF QuietInv
<1>2. CASE InFile
  <2>1. file' = file /\ phase = "reading" /\ phase' \in {"reading", "read"}
      BY <1>2, StepsInFile DEF InFileFrame, Looks, LeavesOut, EndsRow, EndsFile, Returns
  <2>2. file = Codes => enqueued' = enqueued
      BY CodesEnqueueNothing
  <2> QED
      BY <2>1, <2>2 DEF QuietInv
<1>3. CASE TakeQuery
  <2>1. /\ Len(dequeued) < Len(enqueued) /\ enqueued' = enqueued
        /\ phase' = phase /\ file' = file
      BY <1>3 DEF TakeQuery, Queue!Dequeue, parseVars, fileVars
  <2> QED
      BY <1>0, <2>1 DEF QuietInv
<1>4. CASE CompleteQuery \/ UNCHANGED vars
    BY <1>4 DEF CompleteQuery, Queue!Complete, vars, parseVars, fileVars, queueVars, QuietInv
<1> QED
    BY <1>1, <1>2, <1>3, <1>4 DEF Next, Main

LEMMA EmptyStays ==
    ASSUME CtrlInv, [Next]_vars
    PROVE  empty' = empty
<1>1. CASE FromFileToFile
    BY <1>1, BetweenFiles
<1>2. CASE ~ FromFileToFile
    BY <1>2, InTheFile
<1> QED
    BY <1>1, <1>2

-----------------------------------------------------------------------------
(* The columns of the country codes *)

LEMMA HeaderColumns ==
    /\ LastCol[Codes] \in Nat /\ Rows[Codes] \in Nat
    /\ \A h \in DOMAIN CodesHeader : h \in Nat /\ h <= LastCol[Codes]
    /\ \A h \in Nat : h <= LastCol[Codes] => h \in DOMAIN CodesHeader
BY UpdateAssumption, Sizes, FilesAre

(* A cell that surely says something is not left out.                         *)
LEMMA SaysHere ==
    ASSUME CellInv, NEW f, NEW r, NEW c, SurelySays(f, r, c),
           file = f, row = r, col = c
    PROVE  Cell \notin Ignored /\ Cell \notin empty
BY DEF CellInv, SurelySays, Cell

LEMMA IdsDiffer ==
    \A d, e \in Details : IdOf(d) = IdOf(e) => d = e
BY DEF Details, IdOf

LEMMA HeaderKept ==
    ASSUME FilesComplete, CtrlInv, SayInv, HeaderInv, [Next]_vars
    PROVE  HeaderInv'
<1> USE CtrlFacts, FilesAre, HeaderColumns
<1> DEFINE Registered == \A h \in DOMAIN CodesHeader :
               CodesHeader[h] \in Details /\ ReadSoFar(Codes, 0, h) =>
                   callback_ids[IdOf(CodesHeader[h])] # 0
           AllOn == \A i \in 5..7 : tbl[i] # NULL => On(i)
           HeaderOn == (phase = "open" \/ row = 0) /\ (\E k \in 1..3 : callback_ids[k] = 0)
                           => On(2)
<1>0. HeaderInv <=> (file = 0 /\ phase \in {"open", "reading"} =>
                         AllOn /\ Registered /\ HeaderOn)
    BY DEF HeaderInv
<1>00. HeaderInv' <=> (file' = 0 /\ phase' \in {"open", "reading"} =>
                         AllOn' /\ Registered' /\ HeaderOn')
    BY DEF HeaderInv
<1>1. CASE FromFileToFile
  <2>1. CASE Begin
    <3>1. /\ phase' = "open" /\ file' = 0
          /\ Csv!Enlist(HeaderCallback) /\ UNCHANGED readerVars /\ place = "out"
          /\ file = 0 /\ ~ Broken /\ Reader!SafeInv /\ \A i \in 1..8 : tbl[i] = NULL
        BY <2>1 DEF Begin, Register, StandInv, ShapeInv, DataShape, InCodes
    <3> DEFINE e == HeaderCallback
    <3>2. e \in Entries /\ First(e) = 2 /\ Past(e) = 5
        BY DEF HeaderCallback, Callback, Entries, First, Past
    <3>3. /\ Csv!Enlist(e) /\ First(e) <= 2 /\ 2 < Past(e) /\ 2 \in 1..8
          /\ \A k \in 1..8 : First(e) <= k /\ k < 2 => tbl[k] # NULL /\ tbl[k].at < e.at
          /\ \A k \in 1..8 : 2 <= k /\ k < Past(e) => tbl[k] = NULL
        BY <3>1, <3>2
    <3> HIDE DEF e
    <3>4. tbl' = [tbl EXCEPT ![2] = e] /\ skip'[2] # 0
        BY <3>1, <3>2, <3>3, EnlistEffect
    <3>5. AllOn' /\ HeaderOn'
        BY <3>1, <3>4 DEF On, ShapeInv
    <3>6. Registered'
        BY <3>1 DEF ReadSoFar
    <3> QED
        BY <1>00, <3>5, <3>6
  <2>2. CASE OpenCodes
    <3>1. /\ phase = "open" /\ file = 0 /\ ReadFile /\ callback_ids' = callback_ids
          /\ ~ Broken /\ file' = 0
        BY <2>2 DEF OpenCodes, StandInv
    <3>2. tbl' = tbl /\ skip' = skip
        BY <3>1, ReadFileEffect
    <3>3. phase' = "reading" => row' = 0 /\ col' = 0
        BY <3>1, <1>1, Walk
    <3>4. AllOn' /\ HeaderOn'
        BY <1>0, <3>1, <3>2 DEF On
    <3>5. phase' = "reading" => Registered'
        BY <3>1, <3>3 DEF ReadSoFar
    <3>6. phase' # "open"
        BY <3>1 DEF ReadFile
    <3> QED
        BY <1>00, <3>4, <3>5, <3>6
  <2>3. CASE ~ (Begin \/ OpenCodes)
    <3>1. ~ (file' = 0 /\ phase' \in {"open", "reading"})
      <4>1. CASE OpenData \/ OpenMeta \/ OpenCrashes \/ AfterData \/ AfterMeta
          BY <1>1, <4>1, Walk DEF OpenData, OpenMeta, OpenCrashes, AfterData, AfterMeta,
                                  AfterMetaClearing
      <4>2. CASE AfterCodes \/ RegisterYear \/ ClearYear \/ Wait \/ Record
          BY <1>1, <4>2, Walk DEF AfterCodes, RegisterYear, ClearYear, Wait, WaitWhen, Record,
                                  StandInv
      <4> QED
          BY <1>1, <2>3, <4>1, <4>2 DEF FromFileToFile
    <3> QED
        BY <3>1 DEF HeaderInv
  <2> QED
      BY <2>1, <2>2, <2>3
<1>2. CASE InFile /\ file = 0 /\ phase' = "reading"
  <2>1. /\ phase = "reading" /\ place # "out" /\ file' = 0 /\ row \in Nat /\ col \in Nat
        /\ AllOn /\ Registered /\ HeaderOn
        /\ Looks \/ LeavesOut \/ EndsRow \/ EndsFile \/ Returns
        /\ ~ Broken /\ Reader!SafeInv /\ HeaderShape
      BY <1>0, <1>2, StepsInFile, ReadingFacts DEF InFileFrame, ShapeInv, InCodes
  <2>2. CASE Calling \/ ReadCell \/ EndRow \/ EndRowDone \/ EorRegister \/ EorWaitDone
    <3>1. tbl' = tbl /\ skip' = skip /\ callback_ids' = callback_ids
      <4>1. CASE Calling
          BY <4>1, CallingKeeps DEF tableVars
      <4>2. CASE ReadCell \/ EndRow \/ EndRowDone \/ EorWaitDone
          BY <4>2 DEF ReadCell, EndRow, EndRowDone, EorWaitDone, Csv!SkipField, Csv!Field,
                      Csv!EndRow, Csv!EorReturn, Csv!tableVars, tableVars, Csv!Move
      <4>3. ~ EorRegister
          BY <1>2 DEF EorRegister, SetInv
      <4> QED
          BY <2>2, <4>1, <4>2, <4>3
    <3>2. row' = row \/ row' = row + 1
        BY <2>1 DEF Looks, LeavesOut, EndsRow, EndsFile, Returns
    <3>3. AllOn' /\ HeaderOn'
        BY <1>2, <2>1, <3>1, <3>2 DEF On
    <3>4. ASSUME NEW h \in DOMAIN CodesHeader, CodesHeader[h] \in Details,
                 ReadSoFar(Codes, 0, h)'
          PROVE  callback_ids'[IdOf(CodesHeader[h])] # 0
      <4>1. CASE ReadSoFar(Codes, 0, h)
          BY <2>1, <3>1, <3>4, <4>1
      <4>2. CASE ~ ReadSoFar(Codes, 0, h)
        <5>1. row = 0 /\ col = h /\ row' = row /\ col' # col
            BY <1>2, <3>4, <4>2, ReadsCell
        <5>2. SurelySays(0, 0, h)
            BY <3>4 DEF FilesComplete, CodesComplete
        <5>3. Cell \notin Ignored /\ Cell \notin empty
            BY <1>2, <5>1, <5>2, SaysHere DEF SayInv
        <5>4. Calling
          <6>1. place = "call"
              BY <2>1, <5>1, <5>3 DEF Looks, LeavesOut, EndsRow, EndsFile, Returns
          <6>2. ~ (ReadCell \/ EndRow \/ EndRowDone \/ EorRegister \/ EorWaitDone)
              BY <6>1 DEF ReadCell, EndRow, EndRowDone, EorRegister, EorWaitDone, Csv!SkipField,
                          Csv!Field, Csv!EndRow, Csv!EorReturn, Csv!Move
          <6> QED
              BY <2>2, <6>2
        <5>5. place = "call" /\ at = 0
          <6>1. NoCallback
              BY <1>2, <5>1, <5>4, CallsAre
              DEF Calling, NoCallback, CodeIso3, CodeIndependency, CodeIso2, CodeDetail,
                  CountryName, CountryCode, MetaColumn, CountryNothing, Year, Data,
                  DataOfMeta, Details
          <6> QED
              BY <6>1, CallsAre DEF NoCallback, Calls, Details
        <5>6. ~ On(2)
          <6>1. Matches(2)
              BY <2>1, <5>1 DEF HeaderShape, Matches, HeaderCallback, Callback
          <6> QED
              BY <5>5, <6>1 DEF CallInv
        <5>7. IdOf(CodesHeader[h]) \in 1..3
            BY <3>4, IdIs
        <5> QED
            BY <2>1, <3>1, <5>1, <5>6, <5>7
      <4> QED
          BY <4>1, <4>2
    <3> QED
        BY <1>00, <3>3, <3>4
  <2>3. CASE Search
    <3>1. Csv!Search /\ callback_ids' = callback_ids
        BY <2>3 DEF Search
    <3>2. /\ tbl' = tbl /\ row' = row /\ col' = col
          /\ \A i \in 1..8 : skip[i] # 0 /\ skip'[i] = 0 => i < 5 /\ tbl[i].at < row
        BY <2>1, <3>1, SearchEffect
    <3>3. tbl[2].at = 0
        BY <2>1 DEF HeaderShape, HeaderCallback, Callback
    <3>4. AllOn' /\ HeaderOn'
        BY <2>1, <3>1, <3>2, <3>3, <1>2 DEF On
    <3>5. Registered'
        BY <1>2, <2>1, <3>1, <3>2 DEF ReadSoFar
    <3> QED
        BY <1>00, <3>4, <3>5
  <2>4. CASE HeaderRegister
    <3>1. UNCHANGED <<row, col>>
        BY <2>4 DEF HeaderRegister, readerVars
    <3>2. PICK k \in 1..3, s \in 5..7 :
              /\ callback_ids' = [callback_ids EXCEPT ![k] = s]
              /\ tbl' = [tbl EXCEPT ![s] = CodeCallback(col)]
              /\ \A i \in 1..8 : skip'[i] # 0 <=> (skip[i] # 0 \/ i = s)
        BY <2>4, HeaderRegistered
    <3>3. AllOn' /\ HeaderOn'
        BY <1>2, <2>1, <3>1, <3>2 DEF On, ShapeInv
    <3>4. \A l \in 1..3 : callback_ids[l] # 0 => callback_ids'[l] # 0
        BY <3>2 DEF ShapeInv
    <3>5. Registered'
        BY <1>2, <2>1, <3>1, <3>4, IdIs DEF ReadSoFar
    <3> QED
        BY <1>00, <3>3, <3>5
  <2>5. CASE HeaderDone
    <3>1. /\ Calls("codes_data_header") /\ Csv!Return /\ row' = row
          /\ CodesHeader[col] \in Details => callback_ids[IdOf(CodesHeader[col])] # 0
          /\ IF \A k \in 1..3 : callback_ids[k] # 0
               THEN Csv!Toggle(callback_ids[0]) /\ callback_ids' = [callback_ids EXCEPT ![0] = 0]
               ELSE UNCHANGED tableVars /\ callback_ids' = callback_ids
        BY <2>5 DEF HeaderDone, SetId, Csv!Return, Csv!Move
    <3>2. at = 2 /\ place = "call" /\ callback_ids[0] = 2
        BY <2>1, <3>1, CallsAre DEF HeaderShape, Details, Calls
    <3>3. \A l \in 1..3 : callback_ids'[l] = callback_ids[l]
        BY <3>1 DEF ShapeInv
    <3>4. AllOn' /\ HeaderOn'
      <4>1. CASE \A k \in 1..3 : callback_ids[k] # 0
        <5>1. Csv!Toggle(2) /\ 2 \in 1..8
            BY <3>1, <3>2, <4>1
        <5>2. tbl' = tbl /\ \A i \in 1..8 : i # 2 => (skip'[i] # 0 <=> skip[i] # 0)
            BY <2>1, <3>1, <5>1, ToggleReturnEffect
        <5> QED
            BY <2>1, <3>3, <4>1, <5>2 DEF On
      <4>2. CASE ~ \A k \in 1..3 : callback_ids[k] # 0
          BY <1>2, <2>1, <3>1, <3>3, <4>2 DEF On, tableVars
      <4> QED
          BY <4>1, <4>2
    <3>5. ASSUME NEW h \in DOMAIN CodesHeader, CodesHeader[h] \in Details,
                 ReadSoFar(Codes, 0, h)'
          PROVE  callback_ids'[IdOf(CodesHeader[h])] # 0
      <4>1. IdOf(CodesHeader[h]) \in 1..3
          BY <3>5, IdIs
      <4>2. ReadSoFar(Codes, 0, h) \/ h = col
          BY <1>2, <3>5, ReadsCell
      <4> QED
          BY <2>1, <3>1, <3>3, <3>5, <4>1, <4>2
    <3> QED
        BY <1>00, <3>4, <3>5
  <2>6. ~ EndFile
      BY <1>2 DEF EndFile
  <2> QED
      BY <1>2, <2>2, <2>3, <2>4, <2>5, <2>6 DEF InFile, Calling
<1>3. CASE InFile /\ ~ (file = 0 /\ phase' = "reading")
  <2>1. file' = file /\ phase' \in {"reading", "read"}
      BY <1>3, StepsInFile DEF InFileFrame, Looks, LeavesOut, EndsRow, EndsFile, Returns
  <2> QED
      BY <1>3, <2>1 DEF HeaderInv
<1>4. CASE TakeQuery \/ CompleteQuery \/ UNCHANGED vars
  <2>1. UNCHANGED parseVars
      BY <1>4 DEF TakeQuery, CompleteQuery, vars, parseVars
  <2>2. UNCHANGED <<phase, file, row, col, tbl, skip, callback_ids>>
      BY <2>1 DEF parseVars, fileVars, tableVars, readerVars
  <2> QED
      BY <2>2 DEF HeaderInv, On, ReadSoFar
<1> QED
    BY <1>1, <1>2, <1>3, <1>4 DEF Next, Main

(* A field in the column of a detail is given to the callback of the detail.   *)
LEMMA CodeSaid ==
    ASSUME FilesComplete, CtrlInv, SayInv, HeaderInv, Calling, file = Codes, row > 0,
           CodesHeader[col] \in Details
    PROVE  /\ CodesHeader[col] = "iso_a3" => CodeIso3
           /\ CodesHeader[col] = "independency" => CodeIndependency
           /\ CodesHeader[col] = "iso_a2" => CodeIso2
           /\ Calls(CodesHeader[col])
<1> USE CtrlFacts, FilesAre, HeaderColumns
<1>1. /\ place = "call" /\ phase = "reading" /\ row \in Nat /\ col \in Nat
      /\ row <= Rows[file] /\ col <= LastCol[file] /\ HeaderShape
  <2>1. place = "call"
      BY CallingKeeps DEF Csv!Return, Csv!Move
  <2> QED
      BY <2>1, ReadingFacts DEF StandInv, ShapeInv, InCodes
<1> PICK k : k = IdOf(CodesHeader[col])
    OBVIOUS
<1>2. k \in 1..3 /\ col \in DOMAIN CodesHeader
    BY <1>1, IdIs
<1>3. callback_ids[k] # 0
    BY <1>1, <1>2 DEF HeaderInv, ReadSoFar
<1>4. PICK c \in DOMAIN CodesHeader :
          /\ tbl[callback_ids[k]] = CodeCallback(c)
          /\ CodesHeader[c] \in Details /\ IdOf(CodesHeader[c]) = k
    BY <1>1, <1>2, <1>3 DEF HeaderShape
<1>5. c = col
    BY <1>2, <1>4, IdsDiffer DEF FilesComplete, CodesComplete
<1> PICK i \in 5..7 : i = callback_ids[k]
    BY <1>1, <1>2, <1>3 DEF HeaderShape
<1>6. On(i) /\ Matches(i)
  <2>1. tbl[i] = CodeCallback(col) /\ tbl[i] # NULL
      BY <1>4, <1>5, CodeEntry, EntriesAssumption
  <2>2. On(i)
      BY <1>1, <2>1 DEF HeaderInv
  <2>3. CodeCallback(col).by = "COLUMN" /\ CodeCallback(col).at = col
      BY DEF CodeCallback, Callback
  <2> QED
      BY <2>1, <2>2, <2>3 DEF Matches
<1>7. at # 0
    BY <1>1, <1>6 DEF CallInv
<1> PICK fn : fn = IF at = 0 THEN default_callback ELSE tbl[at].fn
    OBVIOUS
<1>8. Calls(fn)
    BY <1>1 DEF Calls
<1>9. fn = CodesHeader[col]
    BY <1>7, <1>8, CallsAre
<1>10. \A g : Calls(g) => g = fn
    BY <1>8 DEF Calls
<1>11. ~ (NoCallback \/ CountryName \/ CountryCode \/ MetaColumn \/ CountryNothing \/ Year
          \/ Data \/ DataOfMeta)
    BY <1>9, <1>10 DEF NoCallback, CountryName, CountryCode, MetaColumn, CountryNothing, Year,
                       Data, DataOfMeta, Details
<1>12. /\ CodeIso3 => fn = "iso_a3"
       /\ CodeIndependency => fn = "independency"
       /\ CodeIso2 => fn = "iso_a2"
    BY <1>10 DEF CodeIso3, CodeIndependency, CodeIso2, CodeDetail
<1> QED
    BY <1>8, <1>9, <1>11, <1>12 DEF Calling

(* Every other field of a row of the codes is not looked at.                   *)
LEMMA CodeUnsaid ==
    ASSUME CtrlInv, Calling, file = Codes, row = 0 \/ CodesHeader[col] \notin Details
    PROVE  UNCHANGED <<cbdata, ccodes>>
BY FilesAre, CallsAre
DEF Calling, NoCallback, CodeIso3, CodeIndependency, CodeIso2, CodeDetail, CountryName,
    CountryCode, MetaColumn, CountryNothing, Year, Data, DataOfMeta, Details, countryVars

LEMMA CodesBufferKept ==
    ASSUME FilesComplete, CtrlInv, SayInv, HeaderInv, CodesBuffer, [Next]_vars
    PROVE  CodesBuffer'
<1> USE CtrlFacts, FilesAre, HeaderColumns
<1> SUFFICES ASSUME file' = 0, phase' = "reading", row' > 0,
                    NEW h \in DOMAIN CodesHeader, NEW l \in DOMAIN CodesHeader,
                    CodesHeader[h] = "iso_a3", h < col', CodesHeader[l] \in Details, col' <= l
             PROVE  cbdata' = Buffer("code", row')
    BY DEF CodesBuffer
<1>1. CASE FromFileToFile
    BY <1>1, BetweenFiles
<1>2. CASE ~ FromFileToFile /\ UNCHANGED <<phase, row, col, cbdata, ccodes, enqueued>>
    BY <1>2, InTheFile DEF CodesBuffer
<1>3. CASE InFile
  <2>1. /\ phase = "reading" /\ file = 0 /\ row \in Nat /\ col \in Nat
        /\ Looks \/ LeavesOut \/ EndsRow \/ EndsFile \/ Returns
      BY <1>3, StepsInFile DEF InFileFrame
  <2>2. CASE Looks
      BY <2>1, <2>2 DEF Looks, CodesBuffer
  <2>3. ~ EndsRow /\ ~ EndsFile
      BY <2>1 DEF EndsRow, EndsFile
  <2>4. CASE LeavesOut
    <3>1. /\ row' = row /\ col' = col + 1 /\ cbdata' = cbdata /\ row <= Rows[0]
          /\ Cell \in Ignored \/ Cell \in empty
        BY <2>1, <2>4 DEF LeavesOut
    <3>2. h # col
      <4> SUFFICES ASSUME h = col
                   PROVE  FALSE
          OBVIOUS
      <4>1. row \in 1..Rows[0] /\ "iso_a3" \in Details
          BY <2>1, <3>1 DEF Details
      <4>2. SurelySays(0, row, h)
          BY <4>1 DEF FilesComplete, CodesComplete
      <4> QED
          BY <2>1, <3>1, <4>2, SaysHere DEF SayInv
    <3>3. cbdata = Buffer("code", row)
        BY <2>1, <3>1, <3>2 DEF CodesBuffer
    <3> QED
        BY <3>1, <3>3
  <2>5. CASE Returns
    <3>1. /\ row' = row /\ col' = col + 1 /\ row > 0 /\ col \in DOMAIN CodesHeader
        BY <2>1, <2>5 DEF Returns
    <3>2. CASE HeaderDone
        BY <2>1, <3>1, <3>2, CallsAre DEF HeaderDone, Details
    <3>3. CASE Calling /\ h = col
      <4>1. CodeIso3
          BY <2>1, <3>1, <3>3, CodeSaid DEF Details
      <4> QED
          BY <3>1, <4>1 DEF CodeIso3
    <3>4. CASE Calling /\ h # col
      <4>1. cbdata = Buffer("code", row)
          BY <2>1, <3>1, <3>4 DEF CodesBuffer
      <4>2. CASE CodesHeader[col] \notin Details
          BY <2>1, <3>1, <3>4, <4>1, <4>2, CodeUnsaid
      <4>3. CASE CodesHeader[col] = "iso_a3"
          BY <3>1, <3>4, <4>3 DEF FilesComplete, CodesComplete, Details
      <4>4. CASE CodesHeader[col] = "independency"
        <5>1. CodeIndependency
            BY <2>1, <3>1, <3>4, <4>4, CodeSaid DEF Details
        <5> QED
            BY <3>1, <4>1, <5>1 DEF CodeIndependency, CodeDetail
      <4>5. CASE CodesHeader[col] = "iso_a2"
        <5>1. col < l
            BY <2>1, <3>1
        <5>2. CodesHeader[l] # "iso_a2" /\ CodesHeader[l] # "iso_a3"
            BY <3>1, <3>4, <4>5, <5>1 DEF FilesComplete, CodesComplete
        <5>3. CodesHeader[l] = "independency" => l < col
            BY <3>1, <4>5 DEF FilesComplete, CodesComplete, Details
        <5> QED
            BY <3>1, <5>1, <5>2, <5>3 DEF Details
      <4> QED
          BY <4>2, <4>3, <4>4, <4>5 DEF Details
    <3> QED
        BY <2>5, <3>2, <3>3, <3>4 DEF Returns
  <2> QED
      BY <2>1, <2>2, <2>3, <2>4, <2>5
<1> QED
    BY <1>1, <1>2, <1>3, InTheFile

-----------------------------------------------------------------------------
(* What is known of a country *)

LEMMA ReadAlready ==
    ASSUME CtrlInv, [Next]_vars, NEW f \in Files, NEW r \in 0..Rows[f], NEW c \in 0..LastCol[f],
           ReadSoFar(f, r, c)
    PROVE  ReadSoFar(f, r, c)'
<1> USE CtrlFacts, FilesAre
<1>1. r \in Nat /\ c \in Nat /\ Rows[f] \in Nat /\ LastCol[f] \in Nat
    BY Sizes
<1>2. CASE FromFileToFile
    BY <1>2, Walk, BetweenFiles DEF ReadSoFar
<1>3. CASE ~ FromFileToFile /\ UNCHANGED <<phase, row, col, cbdata, ccodes, enqueued>>
    BY <1>3, InTheFile DEF ReadSoFar
<1>4. CASE InFile
  <2>1. /\ phase = "reading" /\ file' = file /\ row \in Nat /\ col \in Nat
        /\ Looks \/ LeavesOut \/ EndsRow \/ EndsFile \/ Returns
      BY <1>4, StepsInFile DEF InFileFrame
  <2>2. CASE Looks \/ LeavesOut \/ Returns
      BY <1>1, <2>1, <2>2 DEF Looks, LeavesOut, Returns, ReadSoFar
  <2>3. CASE EndsRow
      BY <1>1, <2>1, <2>3 DEF EndsRow, ReadSoFar
  <2>4. CASE EndsFile
      BY <1>1, <2>1, <2>4 DEF EndsFile, ReadSoFar
  <2> QED
      BY <2>1, <2>2, <2>3, <2>4
<1> QED
    BY <1>2, <1>3, <1>4, InTheFile

LEMMA SaidStays ==
    ASSUME CtrlInv, [Next]_vars, NEW f, NEW r, NEW c
    PROVE  SaysSomething(f, r, c)' <=> SaysSomething(f, r, c)
BY EmptyStays DEF SaysSomething

(* Of a country nothing is known before its row,                             *)
LEMMA CodesUnread ==
    ASSUME CtrlInv, NEW c \in Countries, file = Codes, phase \in {"begin", "open"}
    PROVE  CodesSoFar(c) = {}
BY FilesAre DEF CodesSoFar, ReadSoFar

(* what changes when no cell of it is read that says something is nothing,     *)
LEMMA SameCodes ==
    ASSUME CtrlInv, [Next]_vars, NEW c \in Countries,
           \A h \in DOMAIN CodesHeader :
               CodesHeader[h] \in Details /\ SaysSomething(Codes, c, h)
               /\ ReadSoFar(Codes, c, h)' => ReadSoFar(Codes, c, h)
    PROVE  CodesSoFar(c)' = CodesSoFar(c)
<1> USE HeaderColumns, FilesAre
<1>1. c \in Nat /\ c > 0
    BY CountriesAre
<1>2. \A h \in DOMAIN CodesHeader :
          SaysSomething(Codes, c, h)' <=> SaysSomething(Codes, c, h)
    BY SaidStays
<1>3. \A h \in DOMAIN CodesHeader : SaysSomething(Codes, c, h) /\ ReadSoFar(Codes, c, h) =>
          ReadSoFar(Codes, c, h)'
  <2> SUFFICES ASSUME NEW h \in DOMAIN CodesHeader, SaysSomething(Codes, c, h),
                      ReadSoFar(Codes, c, h)
               PROVE  ReadSoFar(Codes, c, h)'
      OBVIOUS
  <2>1. c \in 0..Rows[Codes] /\ h \in 0..LastCol[Codes]
      BY <1>1 DEF SaysSomething
  <2> QED
      BY <2>1, ReadAlready
<1>4. ASSUME NEW d \in Details
      PROVE  (\E h \in DOMAIN CodesHeader : CodesHeader[h] = d /\ SaysSomething(Codes, c, h)'
                                            /\ ReadSoFar(Codes, c, h)')
             <=> (\E h \in DOMAIN CodesHeader : CodesHeader[h] = d /\ SaysSomething(Codes, c, h)
                                            /\ ReadSoFar(Codes, c, h))
    BY <1>2, <1>3
<1> QED
    BY <1>4 DEF CodesSoFar

(* and a cell that is read adds what its column is about.                     *)
LEMMA MoreCodes ==
    ASSUME FilesComplete, CtrlInv, [Next]_vars, InFile,
           file = Codes, row > 0, row' = row, col' # col, row \in Countries,
           col \in DOMAIN CodesHeader, CodesHeader[col] \in Details,
           phase' = "reading", col' = col + 1, SaysSomething(Codes, row, col)
    PROVE  \A c \in Countries :
               CodesSoFar(c)' = IF c = row THEN CodesSoFar(c) \cup {CodesHeader[col]}
                                           ELSE CodesSoFar(c)
<1> USE HeaderColumns, FilesAre
<1>1. /\ phase = "reading" /\ file' = 0 /\ row \in Nat /\ col \in Nat
    BY StepsInFile DEF InFileFrame
<1>2. \A c \in Countries : c \in Nat
    BY CountriesAre
<1>3. ASSUME NEW c \in Countries, c # row
      PROVE  CodesSoFar(c)' = CodesSoFar(c)
  <2>1. \A h \in DOMAIN CodesHeader : ReadSoFar(Codes, c, h)' => ReadSoFar(Codes, c, h)
      BY <1>1, <1>2, <1>3 DEF ReadSoFar
  <2> QED
      BY <2>1, SameCodes
<1>4. ASSUME NEW c \in Countries, c = row
      PROVE  CodesSoFar(c)' = CodesSoFar(c) \cup {CodesHeader[col]}
  <2>1. \A h \in DOMAIN CodesHeader : /\ ReadSoFar(Codes, c, h) <=> h < col
                                      /\ ReadSoFar(Codes, c, h)' <=> h < col + 1
      BY <1>1, <1>4 DEF ReadSoFar
  <2>2. \A h \in DOMAIN CodesHeader :
            SaysSomething(Codes, c, h)' <=> SaysSomething(Codes, c, h)
      BY SaidStays
  <2>3. CodesSoFar(c) = {d \in Details : \E h \in DOMAIN CodesHeader :
                            CodesHeader[h] = d /\ SaysSomething(Codes, c, h) /\ h < col}
      BY <2>1 DEF CodesSoFar
  <2>4. CodesSoFar(c)' = {d \in Details : \E h \in DOMAIN CodesHeader :
                            CodesHeader[h] = d /\ SaysSomething(Codes, c, h) /\ h < col + 1}
      BY <2>1, <2>2 DEF CodesSoFar
  <2>5. \A h \in DOMAIN CodesHeader : h < col + 1 <=> h < col \/ h = col
      BY <1>1
  <2>6. SaysSomething(Codes, c, col)
      BY <1>4
  <2> QED
      BY <2>3, <2>4, <2>5, <2>6
<1> QED
    BY <1>3, <1>4

LEMMA CcodesKept ==
    ASSUME FilesComplete, CtrlInv, SayInv, MissInv, HeaderInv, CodesBuffer, CcodesInv,
           [Next]_vars
    PROVE  CcodesInv'
<1> USE CtrlFacts, FilesAre, HeaderColumns
<1> SUFFICES ASSUME NEW c \in Countries
             PROVE  ccodes'[c] = IF Codes \in missing' THEN {} ELSE CodesSoFar(c)'
    BY DEF CcodesInv
<1>0. /\ ccodes[c] = IF Codes \in missing THEN {} ELSE CodesSoFar(c)
      /\ c \in Nat /\ c > 0 /\ ccodes \in [Countries -> SUBSET Details]
    BY CountriesAre DEF CcodesInv, SayInv, DataTypes
<1>1. CASE FromFileToFile
  <2>1. ccodes' = ccodes /\ missing \subseteq missing'
      BY <1>1, BetweenFiles
  <2>2. Codes \notin missing' => CodesSoFar(c)' = CodesSoFar(c)
    <3>1. Codes \notin missing' =>
              \A h \in DOMAIN CodesHeader : ReadSoFar(Codes, c, h)' => ReadSoFar(Codes, c, h)
        BY <1>0, <1>1, BetweenFiles
    <3> QED
        BY <3>1, SameCodes
  <2>3. Codes \in missing' /\ Codes \notin missing => CodesSoFar(c) = {}
    <3>1. Codes \in missing' /\ Codes \notin missing => phase = "open" /\ file = Codes
        BY <1>1, Walk
    <3> QED
        BY <3>1, CodesUnread
  <2> QED
      BY <1>0, <2>1, <2>2, <2>3
<1>2. CASE ~ FromFileToFile /\ UNCHANGED <<phase, row, col, cbdata, ccodes, enqueued>>
  <2>1. UNCHANGED <<file, missing, empty>>
      BY <1>2, InTheFile
  <2>2. CodesSoFar(c)' = CodesSoFar(c)
      BY <1>2, <2>1 DEF CodesSoFar, SaysSomething, ReadSoFar
  <2> QED
      BY <1>0, <1>2, <2>1, <2>2
<1>3. CASE InFile /\ file # Codes
  <2>1. InFileFrame /\ phase = "reading" /\ (Looks \/ LeavesOut \/ EndsRow \/ EndsFile \/ Returns)
      BY <1>3, StepsInFile
  <2>2. ccodes' = ccodes
    <3>1. CASE Calling
        BY <1>3, <3>1, CallsAre
        DEF Calling, NoCallback, CodeIso3, CodeIndependency, CodeIso2, CodeDetail, CountryName,
            CountryCode, MetaColumn, CountryNothing, Year, Data, DataOfMeta, countryVars
    <3> QED
        BY <1>3, <2>1, <3>1 DEF Looks, LeavesOut, EndsRow, EndsFile, Returns
  <2>3. \A h \in DOMAIN CodesHeader : ReadSoFar(Codes, c, h)
      BY <1>3 DEF ReadSoFar
  <2>4. CodesSoFar(c)' = CodesSoFar(c)
      BY <2>3, SameCodes
  <2> QED
      BY <1>0, <2>1, <2>2, <2>4 DEF InFileFrame
<1>4. CASE InFile /\ file = Codes
  <2>1. /\ InFileFrame /\ phase = "reading" /\ row \in Nat /\ col \in Nat
        /\ Looks \/ LeavesOut \/ EndsRow \/ EndsFile \/ Returns
        /\ Codes \notin missing /\ Codes \notin missing' /\ file' = 0
        /\ ccodes[c] = CodesSoFar(c)
      BY <1>0, <1>4, StepsInFile DEF InFileFrame, MissInv
  <2>2. ASSUME ccodes' = ccodes,
               \A h \in DOMAIN CodesHeader :
                   CodesHeader[h] \in Details /\ SaysSomething(Codes, c, h)
                   /\ ReadSoFar(Codes, c, h)' => ReadSoFar(Codes, c, h)
        PROVE  ccodes'[c] = CodesSoFar(c)'
      BY <2>1, <2>2, SameCodes
  <2>3. CASE Looks
      BY <1>4, <2>1, <2>2, <2>3 DEF Looks, ReadSoFar
  <2>4. CASE EndsRow
      BY <1>0, <1>4, <2>1, <2>2, <2>4 DEF EndsRow, ReadSoFar
  <2>5. CASE EndsFile
      BY <1>0, <1>4, <2>1, <2>2, <2>5 DEF EndsFile, ReadSoFar, SaysSomething
  <2>6. CASE LeavesOut
    <3>1. /\ row' = row /\ col' = col + 1 /\ phase' = phase /\ ccodes' = ccodes
          /\ Cell \in Ignored \/ Cell \in empty
        BY <2>6 DEF LeavesOut
    <3>2. ~ SaysSomething(Codes, row, col)
        BY <1>4, <3>1 DEF SaysSomething, Cell
    <3>3. \A h \in DOMAIN CodesHeader : ReadSoFar(Codes, c, h)' =>
              ReadSoFar(Codes, c, h) \/ (c = row /\ h = col)
        BY <1>0, <1>4, <2>1, <3>1 DEF ReadSoFar
    <3>4. \A h \in DOMAIN CodesHeader : SaysSomething(Codes, c, h)
              /\ ReadSoFar(Codes, c, h)' => ReadSoFar(Codes, c, h)
        BY <3>2, <3>3
    <3> QED
        BY <2>1, <2>2, <3>1, <3>4
  <2>7. CASE Returns
    <3>1. /\ row' = row /\ col' = col + 1 /\ phase' = "reading" /\ place = "call"
          /\ row <= Rows[Codes] /\ col \in DOMAIN CodesHeader
          /\ Calling \/ (HeaderDone /\ ccodes' = ccodes)
        BY <1>4, <2>1, <2>7 DEF Returns
    <3>2. \A h \in DOMAIN CodesHeader : ReadSoFar(Codes, c, h)' =>
              ReadSoFar(Codes, c, h) \/ (c = row /\ h = col)
        BY <1>0, <1>4, <2>1, <3>1 DEF ReadSoFar
    <3>3. CASE row = 0 \/ CodesHeader[col] \notin Details
      <4>1. ccodes' = ccodes
          BY <1>4, <3>1, <3>3, CodeUnsaid
      <4>2. \A h \in DOMAIN CodesHeader : CodesHeader[h] \in Details
                /\ ReadSoFar(Codes, c, h)' => ReadSoFar(Codes, c, h)
          BY <1>0, <3>2, <3>3
      <4> QED
          BY <2>1, <2>2, <4>1, <4>2
    <3>4. CASE row > 0 /\ CodesHeader[col] \in Details
      <4>1. Calling
          BY <3>1, <3>4, CallsAre DEF HeaderDone, Details
      <4>2. SaysSomething(Codes, row, col)
        <5>1. ignore_empty
            BY <1>4 DEF SetInv
        <5> QED
            BY <1>4, <3>1, <5>1 DEF SayInv, CellInv, SaysSomething, Cell
      <4>3. row \in Countries
          BY <2>1, <3>1, <3>4, CountriesAre
      <4>4. CodesSoFar(c)' = IF c = row THEN CodesSoFar(c) \cup {CodesHeader[col]}
                                        ELSE CodesSoFar(c)
          BY <1>4, <2>1, <3>1, <3>4, <4>2, <4>3, MoreCodes
      <4>6. CASE CodesHeader[col] = "iso_a3"
        <5>1. ccodes' = [ccodes EXCEPT ![row] = {"iso_a3"}]
            BY <1>4, <3>4, <4>1, <4>6, CodeSaid DEF CodeIso3
        <5>2. c = row => CodesSoFar(c) = {}
          <6> SUFFICES ASSUME NEW h \in DOMAIN CodesHeader, CodesHeader[h] \in Details,
                              c = row, ReadSoFar(Codes, c, h)
                       PROVE  FALSE
              BY DEF CodesSoFar
          <6>1. h < col
              BY <1>4, <2>1 DEF ReadSoFar
          <6>2. PICK l \in DOMAIN CodesHeader : CodesHeader[l] = "iso_a3" /\ l <= h
              BY DEF FilesComplete, CodesComplete
          <6>3. l = col
              BY <3>1, <4>6, <6>2 DEF FilesComplete, CodesComplete, Details
          <6> QED
              BY <2>1, <6>1, <6>2, <6>3
        <5> QED
            BY <1>0, <2>1, <4>3, <4>4, <4>6, <5>1, <5>2
      <4>7. CASE CodesHeader[col] # "iso_a3"
        <5>1. cbdata = Buffer("code", row)
          <6>1. PICK h \in DOMAIN CodesHeader : CodesHeader[h] = "iso_a3" /\ h <= col
              BY <3>1, <3>4 DEF FilesComplete, CodesComplete
          <6>2. h < col
              BY <2>1, <4>7, <6>1
          <6> QED
              BY <1>4, <2>1, <3>1, <3>4, <6>1, <6>2 DEF CodesBuffer
        <5>2. CodeIndependency \/ CodeIso2
            BY <1>4, <3>4, <4>1, <4>7, CodeSaid DEF Details
        <5>3. \E fn \in Details : Calls(fn)
                   /\ ccodes' = [ccodes EXCEPT ![row] = ccodes[row] \cup {fn}]
            BY <5>1, <5>2 DEF CodeIndependency, CodeIso2, CodeDetail, Buffer, Details
        <5>4. Calls(CodesHeader[col])
            BY <1>4, <3>4, <4>1, CodeSaid
        <5>5. ccodes' = [ccodes EXCEPT ![row] = ccodes[row] \cup {CodesHeader[col]}]
            BY <5>3, <5>4 DEF Calls
        <5> QED
            BY <1>0, <2>1, <4>3, <4>4, <5>5
      <4> QED
          BY <4>6, <4>7
    <3> QED
        BY <2>1, <3>3, <3>4
  <2> QED
      BY <2>1, <2>3, <2>4, <2>5, <2>6, <2>7
<1> QED
    BY <1>1, <1>2, <1>3, <1>4, InTheFile

-----------------------------------------------------------------------------
(* What a row has in the buffer, and what its cells say *)

LEMMA RowKept ==
    ASSUME FilesComplete, CtrlInv, SayInv, RowInv, [Next]_vars
    PROVE  RowInv'
<1> USE CtrlFacts, FilesAre
<1>1. CASE FromFileToFile
    BY <1>1, BetweenFiles DEF RowInv
<1>2. CASE ~ FromFileToFile /\ UNCHANGED <<phase, row, col, cbdata, ccodes, enqueued>>
    BY <1>2, InTheFile DEF RowInv
<1>3. CASE InFile
  <2>1. /\ InFileFrame /\ phase = "reading" /\ row \in Nat /\ col \in Nat
        /\ Looks \/ LeavesOut \/ EndsRow \/ EndsFile \/ Returns
      BY <1>3, StepsInFile
  <2>2. CASE Looks \/ EndsFile
      BY <2>1, <2>2 DEF Looks, EndsFile, InFileFrame, RowInv
  <2>3. CASE EndsRow
      BY <2>1, <2>3 DEF EndsRow, InFileFrame, RowInv
  <2>4. CASE LeavesOut \/ Returns
    <3> SUFFICES ASSUME row > 0
                 PROVE  RowInv'
        BY <2>4 DEF LeavesOut, Returns, RowInv
    <3>1. /\ row' = row /\ col' = col + 1 /\ file' = file /\ phase' = phase
          /\ row <= Rows[file]
        BY <2>1, <2>4 DEF LeavesOut, Returns, InFileFrame
    <3>2. HeaderDone => row = 0
        BY CallsAre DEF HeaderDone, Details
    <3>3. CASE file = 2 /\ col = 0
      <4>1. SurelySays(2, row, 0)
        <5>1. row \in 1..Rows[Meta]
            BY <2>1, <3>1, <3>3
        <5> QED
            BY <5>1 DEF FilesComplete
      <4>2. Cell \notin Ignored /\ Cell \notin empty
          BY <3>3, <4>1, SaysHere DEF SayInv
      <4>3. Calling
          BY <2>4, <3>2, <4>2 DEF LeavesOut, Returns
      <4>4. MetaColumn
          BY <3>3, <4>2, <4>3, CallsAre
          DEF Calling, NoCallback, CodeIso3, CodeIndependency, CodeIso2, CodeDetail, CountryName,
              CountryCode, CountryNothing, Year, Data, DataOfMeta, Details, Full
      <4> QED
          BY <3>1, <3>3, <4>4 DEF MetaColumn, RowInv
    <3>4. CASE file = 2 /\ col \in 1..2
      <4>1. cbdata = Buffer("code", row)
          BY <2>1, <3>4 DEF RowInv
      <4>2. CASE Calling
        <5>1. cbdata' = cbdata
            BY <3>4, <4>2, CallsAre
            DEF Calling, NoCallback, CodeIso3, CodeIndependency, CodeIso2, CodeDetail,
                CountryName, CountryCode, MetaColumn, CountryNothing, Year, Data, DataOfMeta,
                Details
        <5> QED
            BY <3>1, <3>4, <4>1, <5>1 DEF RowInv
      <4>3. CASE LeavesOut
          BY <3>1, <3>4, <4>1, <4>3 DEF LeavesOut, RowInv
      <4> QED
          BY <2>4, <3>2, <4>2, <4>3 DEF Returns
    <3>5. CASE file \in {1, 3} /\ col = 0
      <4>1. CASE LeavesOut
          BY <2>1, <3>1, <3>5, <4>1 DEF LeavesOut, RowInv
      <4>2. CASE Returns
        <5>1. <<file, row, 0>> \notin Ignored
            BY <3>5, <4>2 DEF Returns, SayInv, CellInv, Cell
        <5> QED
            BY <3>1, <3>5, <5>1 DEF RowInv
      <4> QED
          BY <2>4, <4>1, <4>2
    <3>6. CASE ~ (file = 2 /\ col \in 0..2) /\ ~ (file \in {1, 3} /\ col = 0)
        BY <2>1, <3>1, <3>6 DEF RowInv
    <3> QED
        BY <3>3, <3>4, <3>5, <3>6
  <2> QED
      BY <2>1, <2>2, <2>3, <2>4
<1> QED
    BY <1>1, <1>2, <1>3, InTheFile

(* A value of the range's years is sent, of its own row,                      *)
LEMMA ValueSaid ==
    ASSUME CtrlInv, SayInv, InFile, file \in DataFiles, row > 0, col \in YearCols,
           SaysSomething(file, row, col), row' = row, col' # col
    PROVE  Enqueue(DatapointUpsert(file, row, col))
<1> USE CtrlFacts, FilesAre
<1>1. col >= 4 /\ col \in Nat /\ phase = "reading" /\ row \in Nat
    BY YearColumns, StepsInFile
<1>2. Cell \notin Ignored /\ Cell \notin empty
    BY DEF SaysSomething, Cell
<1>3. Calling
    BY <1>2, StepsInFile DEF Looks, LeavesOut, EndsRow, EndsFile, Returns
<1>4. Data
    BY <1>1, <1>3, CallsAre
    DEF Calling, NoCallback, CodeIso3, CodeIndependency, CodeIso2, CodeDetail, CountryName,
        CountryCode, MetaColumn, CountryNothing, Year, DataOfMeta, Details
<1>5. Enqueue(DatapointUpsert(file, cbdata.of, col))
    BY <1>1, <1>4 DEF Data
<1>6. Named(file, row)
  <2>1. row \in 1..Rows[file]
      BY <1>1 DEF SaysSomething
  <2>2. MaySay(file, row, col)
      BY <1>2 DEF SayInv, CellInv, Cell, MaySay
  <2> QED
      BY <2>1, <2>2, FilesAssumption
<1>7. cbdata = Buffer("code", row)
    BY <1>1, <1>6 DEF SayInv, BufferInv
<1> QED
    BY <1>5, <1>7 DEF Buffer

(* and so is a note.                                                         *)
LEMMA NoteSent ==
    ASSUME FilesComplete, CtrlInv, SayInv, RowInv, InFile, file = Meta, row > 0, col = 3,
           row' = row, col' # col
    PROVE  Enqueue(CountryUpdate(row))
<1> USE CtrlFacts, FilesAre
<1>1. phase = "reading" /\ row \in Nat /\ ~ ignore_empty
    BY StepsInFile DEF SetInv
<1>2. ~ LeavesOut
  <2> SUFFICES ASSUME LeavesOut
               PROVE  FALSE
      OBVIOUS
  <2>1. row \in 1..Rows[Meta] /\ Cell \in Ignored
      BY <1>1 DEF LeavesOut
  <2> QED
      BY <2>1 DEF FilesComplete, Cell
<1>3. Calling
    BY <1>2, StepsInFile DEF Looks, EndsRow, EndsFile, Returns
<1>4. DataOfMeta
    BY <1>1, <1>3, CallsAre
    DEF Calling, NoCallback, CodeIso3, CodeIndependency, CodeIso2, CodeDetail, CountryName,
        CountryCode, MetaColumn, CountryNothing, Year, Data, Details
<1>5. cbdata = Buffer("code", row)
    BY <1>1 DEF RowInv
<1> QED
    BY <1>1, <1>4, <1>5 DEF DataOfMeta, Buffer

LEMMA DataKept ==
    ASSUME CtrlInv, SayInv, DataInv, [Next]_vars
    PROVE  DataInv'
<1> USE FilesAre
<1> SUFFICES ASSUME NEW f \in DataFiles, NEW r \in 1..Rows[f], NEW y \in YearCols,
                    f \notin missing', SaysSomething(f, r, y)', ReadSoFar(f, r, y)'
             PROVE  Sent(DatapointUpsert(f, r, y))'
    BY DEF DataInv
<1>1. /\ f \notin missing /\ SaysSomething(f, r, y) /\ f \in Files
      /\ Rows[f] \in Nat /\ LastCol[f] \in Nat
    BY MissingGrows, SaidStays, Sizes
<1>2. /\ r \in 0..Rows[f] /\ r \in Nat /\ r > 0 /\ y \in Nat /\ y \in 0..LastCol[f]
    BY <1>1, YearColumns DEF SaysSomething
<1>3. CASE ReadSoFar(f, r, y)
    BY <1>1, <1>3, StaysSent DEF DataInv
<1>4. CASE ~ ReadSoFar(f, r, y)
  <2>1. InFile
      BY <1>1, <1>2, <1>4, ReadsOn
  <2>2. file = f /\ row = r /\ col = y /\ row' = row /\ col' # col
      BY <1>1, <1>2, <1>4, <2>1, ReadsCell
  <2>3. Enqueue(DatapointUpsert(file, row, col))
      BY <1>1, <1>2, <2>1, <2>2, ValueSaid
  <2>4. DatapointUpsert(f, r, y) \in Queries
      BY <1>1, <1>2, CountriesAre DEF Queries
  <2> QED
      BY <2>2, <2>3, <2>4, IsSent DEF SayInv
<1> QED
    BY <1>3, <1>4

LEMMA NotesKept ==
    ASSUME FilesComplete, CtrlInv, SayInv, RowInv, NotesInv, [Next]_vars
    PROVE  NotesInv'
<1> USE FilesAre
<1> SUFFICES ASSUME NEW r \in 1..Rows[Meta], Meta \notin missing', ReadSoFar(Meta, r, 3)'
             PROVE  Sent(CountryUpdate(r))'
    BY DEF NotesInv
<1>1. Meta \notin missing /\ Rows[Meta] \in Nat /\ LastCol[Meta] \in Nat /\ LastCol[Meta] >= 3
    BY MissingGrows, Sizes DEF FilesComplete
<1>2. r \in 0..Rows[Meta] /\ r \in Nat /\ r > 0 /\ 3 \in 0..LastCol[Meta]
    BY <1>1
<1>3. CASE ReadSoFar(Meta, r, 3)
    BY <1>1, <1>3, StaysSent DEF NotesInv
<1>4. CASE ~ ReadSoFar(Meta, r, 3)
  <2>1. InFile
      BY <1>1, <1>2, <1>4, ReadsOn
  <2>2. file = Meta /\ row = r /\ col = 3 /\ row' = row /\ col' # col
      BY <1>1, <1>2, <1>4, <2>1, ReadsCell
  <2>3. Enqueue(CountryUpdate(row))
      BY <1>2, <2>1, <2>2, NoteSent
  <2>4. CountryUpdate(r) \in Queries
      BY <1>1, <1>2, CountriesAre DEF Queries
  <2> QED
      BY <2>2, <2>3, <2>4, IsSent DEF SayInv
<1> QED
    BY <1>3, <1>4

-----------------------------------------------------------------------------
(* An update without the first data file *)

(* Callbacks for rows do not change where the search for columns starts.      *)
LEMMA OffsStays ==
    ASSUME CtrlInv, Begin \/ RegisterYear \/ ClearYear
    PROVE  offs' = offs
<1> USE CtrlFacts, FilesAre
<1>1. ASSUME NEW e \in {HeaderCallback, YearCallback}, Csv!Enlist(e), ~ Broken, place = "out",
             UNCHANGED readerVars, \A i \in 1..8 : tbl[i] = NULL
      PROVE  offs' = offs
  <2>1. /\ e \in Entries /\ First(e) = 2 /\ Past(e) = 5 /\ e.by = "ROW"
      BY DEF HeaderCallback, YearCallback, Callback, Entries, First, Past
  <2> HIDE DEF HeaderCallback, YearCallback
  <2>2. /\ First(e) <= 2 /\ 2 < Past(e) /\ 2 \in 1..8
        /\ \A k \in 1..8 : First(e) <= k /\ k < 2 => tbl[k] # NULL /\ tbl[k].at < e.at
        /\ \A k \in 1..8 : 2 <= k /\ k < Past(e) => tbl[k] = NULL
      BY <1>1, <2>1
  <2>3. Csv!SlotFor(e) = 2 /\ tbl' = [tbl EXCEPT ![2] = e]
      BY <1>1, <2>1, <2>2, EnlistEffect
  <2>4. tbl'[2].by = "ROW"
      BY <2>1, <2>3 DEF ShapeInv
  <2> QED
      BY <1>1, <2>3, <2>4 DEF Csv!Enlist, Csv!ToggleIn
<1>2. CASE Begin \/ RegisterYear
  <2>1. /\ ~ Broken /\ place = "out" /\ UNCHANGED readerVars /\ \A i \in 1..8 : tbl[i] = NULL
        /\ Csv!Enlist(HeaderCallback) \/ Csv!Enlist(YearCallback)
      BY <1>2 DEF Begin, RegisterYear, Register, StandInv, ShapeInv, DataShape, InCodes
  <2> QED
      BY <1>1, <2>1
<1>3. CASE ClearYear
  <2>1. CASE UNCHANGED tableVars
      BY <2>1 DEF tableVars
  <2>2. CASE callback_ids[0] # 0 /\ Csv!Clear(callback_ids[0])
    <3>1. callback_ids[0] = 2 /\ tbl[2] = YearCallback
        BY <1>3, <2>2 DEF ShapeInv, DataShape, InCodes, ClearYear, StandInv
    <3>2. tbl[2].by = "ROW"
        BY <3>1 DEF YearCallback, Callback
    <3> QED
        BY <2>2, <3>1, <3>2 DEF Csv!Clear, Csv!ClearWith, Csv!ToggleIn
  <2> QED
      BY <1>3, <2>1, <2>2 DEF ClearYear
<1> QED
    BY <1>2, <1>3

(* The codes leave the search at the place of a column.                       *)
LEMMA CodesOffs ==
    ASSUME FilesComplete, CtrlInv, HeaderInv, OffsInv, InFile, file = Codes
    PROVE  OffsInv'
<1> USE CtrlFacts, FilesAre, HeaderColumns
<1>1. /\ phase = "reading" /\ file' = Codes /\ row \in Nat /\ col \in Nat
      /\ ~ Broken /\ Reader!SafeInv /\ HeaderShape
    BY StepsInFile, ReadingFacts DEF InFileFrame, ShapeInv, InCodes
<1>2. CASE EndRow
  <2>1. /\ phase' = "reading" /\ col = LastCol[Codes] + 1 /\ offs' = Csv!FirstColumn
      BY <1>1, <1>2 DEF EndRow, Csv!EndRow, fileVars
  <2>2. PICK h \in DOMAIN CodesHeader : CodesHeader[h] \in Details
      BY DEF FilesComplete, CodesComplete
  <2>3. ReadSoFar(Codes, 0, h)
      BY <1>1, <2>1 DEF ReadSoFar
  <2>4. IdOf(CodesHeader[h]) \in 1..3 /\ callback_ids[IdOf(CodesHeader[h])] # 0
      BY <1>1, <2>2, <2>3, IdIs DEF HeaderInv
  <2>5. PICK i \in 5..7 : tbl[i] # NULL
    <3>1. PICK k \in 1..3 : callback_ids[k] # 0
        BY <2>4
    <3>2. /\ callback_ids[k] \in 5..7
          /\ \E c \in DOMAIN CodesHeader : tbl[callback_ids[k]] = CodeCallback(c)
        BY <1>1, <3>1 DEF HeaderShape
    <3>3. \A c \in DOMAIN CodesHeader : CodeCallback(c) # NULL
        BY EntriesAssumption DEF Entries
    <3> QED
        BY <3>2, <3>3
  <2>6. On(i)
      BY <1>1, <2>5 DEF HeaderInv
  <2> DEFINE S == {k \in 1..8 : skip[k] # 0 /\ k >= 5}
  <2>7. i \in S /\ \A k \in S : k \in 5..8
      BY <2>6 DEF On
  <2>8. \E x \in S : \A y \in S : x <= y
      BY <2>7
  <2>9. Min(S) \in S
      BY <2>8 DEF Min
  <2>10. Csv!FirstColumn = Min(S)
    <3>1. {k \in Csv!Enabled : k >= Csv!ColStart} = S
        BY ReaderLayout DEF Csv!Enabled
    <3> HIDE DEF S
    <3> QED
        BY <2>7, <3>1, SameMin DEF Csv!FirstColumn
  <2> QED
      BY <1>1, <2>1, <2>7, <2>9, <2>10 DEF OffsInv
<1>3. CASE EndFile \/ EndRowDone
  <2>1. offs' = offs /\ (place = "eor" \/ (place = "row" /\ col = 0))
      BY <1>3 DEF EndFile, EndRowDone, Csv!EndFile, Csv!EorReturn, Csv!Move, tableVars,
                  Csv!tableVars
  <2> QED
      BY <1>1, <2>1 DEF OffsInv
<1>4. CASE ~ (EndRow \/ EndFile \/ EndRowDone)
  <2>1. ~ EorRegister /\ ~ EorWaitDone
      BY <1>1 DEF EorRegister, EorWaitDone, SetInv
  <2>2. phase' = "reading" /\ place' # "eor" /\ ~ (place' = "row" /\ col' = 0)
    <3>1. CASE ReadCell
        BY <1>1, <3>1 DEF ReadCell, Csv!SkipField, Csv!Field, Csv!Move, fileVars
    <3>2. CASE Search
        BY <1>1, <3>2, SearchEffect DEF Search, fileVars
    <3>3. CASE HeaderRegister
        BY <1>1, <3>3 DEF HeaderRegister, Calls, readerVars, fileVars
    <3>4. CASE Calling \/ HeaderDone
        BY <1>1, <3>4, CallingKeeps DEF HeaderDone, Csv!Return, Csv!Move, fileVars
    <3> QED
        BY <1>4, <2>1, <3>1, <3>2, <3>3, <3>4 DEF InFile, Calling
  <2> QED
      BY <1>1, <2>2 DEF OffsInv
<1> QED
    BY <1>2, <1>3, <1>4

LEMMA OffsKept ==
    ASSUME FilesComplete, CtrlInv, MissInv, HeaderInv, OffsInv, [Next]_vars
    PROVE  OffsInv'
<1> USE CtrlFacts, FilesAre
<1>1. CASE InFile
  <2>1. file' = file /\ phase = "reading" /\ phase' \in {"reading", "read"} /\ missing' = missing
      BY <1>1, InTheFile, StepsInFile
      DEF InFileFrame, Looks, LeavesOut, EndsRow, EndsFile, Returns
  <2> QED
      BY <1>1, <2>1, CodesOffs DEF OffsInv, MissInv
<1>2. CASE FromFileToFile
  <2>1. CASE Begin \/ RegisterYear
    <3>1. /\ offs' = offs /\ missing' = missing /\ file = Codes /\ phase \in {"begin", "year"}
          /\ \/ phase' = "open" /\ file' = Codes
             \/ /\ phase = "year" /\ phase' = "open" /\ file' = CO2E
                /\ callback_ids'[1] = callback_ids[1]
        BY <2>1, OffsStays DEF Begin, RegisterYear, Register, StandInv, ShapeInv
    <3>2. phase = "year" => callback_ids[1] = 0
        BY <3>1 DEF ShapeInv, DataShape, InCodes
    <3> QED
        BY <3>1, <3>2 DEF OffsInv, Bare
  <2>2. CASE OpenCodes \/ OpenData \/ OpenMeta
    <3>1. callback_ids' = callback_ids /\ phase = "open"
        BY <2>2 DEF OpenCodes, OpenData, OpenMeta
    <3>2. offs' = offs
        BY <2>2 DEF OpenCodes, OpenData, OpenMeta, ReadFile, Csv!StartFile, Csv!tableVars,
                    tableVars
    <3>3. /\ file' = CO2E => file = CO2E
          /\ file' = Codes => file = Codes
          /\ file' = Meta /\ phase' = "open" => file = CO2E
        BY <1>2, <2>2, <3>1, Walk DEF OpenMeta, ReadFile
    <3> QED
        BY <3>1, <3>2, <3>3 DEF OffsInv, Bare
  <2>3. CASE OpenCrashes \/ AfterData \/ Record
    <3>1. /\ callback_ids' = callback_ids /\ offs' = offs /\ file' = file /\ file # Codes
          /\ phase' # "open" /\ missing' = missing
        BY <2>3 DEF OpenCrashes, AfterData, Record, tableVars, StandInv
    <3> QED
        BY <3>1 DEF OffsInv, Bare
  <2>4. CASE AfterCodes \/ AfterMeta
    <3>1. \/ file' = Codes /\ file = Codes /\ phase = "read" /\ offs' = offs
          \/ file' = Meta /\ phase' # "open"
        BY <2>4 DEF AfterCodes, AfterMeta, AfterMetaClearing, Csv!ClearAll
    <3> QED
        BY <3>1 DEF OffsInv
  <2>5. CASE ClearYear
    <3>1. /\ offs' = offs /\ callback_ids'[1] = callback_ids[1] /\ file' = file /\ file # Codes
          /\ phase' # "open" /\ missing' = missing
        BY <2>5, OffsStays DEF ClearYear, SetId, ShapeInv, StandInv
    <3> QED
        BY <3>1 DEF OffsInv, Bare
  <2>6. CASE Wait
    <3>1. /\ offs' = offs /\ callback_ids' = callback_ids /\ file # Codes /\ missing' = missing
          /\ file' = file + 1 \/ file' = 3
        BY <2>6 DEF Wait, WaitWhen, NextFile, tableVars, StandInv
    <3> QED
        BY <3>1 DEF OffsInv, Bare
  <2> QED
      BY <1>2, <2>1, <2>2, <2>3, <2>4, <2>5, <2>6 DEF FromFileToFile
<1>3. CASE TakeQuery \/ CompleteQuery \/ UNCHANGED vars
  <2>1. UNCHANGED parseVars
      BY <1>3 DEF TakeQuery, CompleteQuery, vars, parseVars
  <2> QED
      BY <2>1 DEF parseVars, fileVars, readerVars, tableVars, OffsInv, Bare
<1> QED
    BY <1>1, <1>2, <1>3 DEF Next, Main

(* In a header row of the metadata without any callback, the search ends at an  *)
(* absent entry.                                                            *)
LEMMA HeaderLostKept ==
    ASSUME FilesComplete, CtrlInv, SayInv, HeaderLost, InFile
    PROVE  HeaderLost'
<1> USE CtrlFacts, FilesAre
<1>1. PICK l \in 0..LastCol[Meta] : SurelySays(Meta, 0, l)
    BY DEF FilesComplete
<1>2. /\ file = 2 /\ file' = 2 /\ phase = "reading" /\ row = 0 /\ callback_ids[0] = 0
      /\ callback_ids[1] = 0 /\ offs # 255 /\ place \in {"row", "search", "columns", "crash"}
      /\ col \in Nat /\ col <= l /\ Reader!SafeInv /\ ~ Broken
    BY <1>1, StepsInFile, ReadingFacts DEF HeaderLost, Bare, InFileFrame
<1>3. \A i \in 1..9 : tbl[i] = NULL
  <2>1. tbl[9] = NULL
      BY <1>2, ReaderLayout DEF Reader!SafeInv, Reader!TableInv
  <2>2. \A i \in 1..8 : tbl[i] = NULL
      BY <1>2 DEF ShapeInv, DataShape, InCodes
  <2> QED
      BY <2>1, <2>2
<1>4. offs \in 5..9
    BY <1>2, ReaderLayout DEF Reader!SafeInv, Reader!TypeOK
<1>5. CASE ReadCell
  <2>1. /\ phase' = phase /\ callback_ids' = callback_ids /\ row' = row /\ offs' = offs
        /\ \/ place' = "search" /\ col' = col
           \/ /\ place' = "row" /\ col' = col + 1
              /\ Cell \in Ignored \/ (Cell \in empty /\ ignore_empty)
      BY <1>5 DEF ReadCell, Csv!SkipField, Csv!Field, Csv!Move, Csv!tableVars, fileVars
  <2>2. ASSUME NEW c \in 0..LastCol[Meta], SurelySays(Meta, 0, c)
        PROVE  col' <= c
    <3>1. col <= c
        BY <2>2 DEF HeaderLost
    <3>2. col = c => Cell \notin Ignored /\ Cell \notin empty
        BY <1>2, <2>2, SaysHere DEF SayInv
    <3> QED
        BY <1>2, <2>1, <3>1, <3>2
  <2> QED
      BY <1>2, <2>1, <2>2 DEF HeaderLost, Bare
<1>6. CASE Search
  <2>1. Csv!Search /\ phase' = phase /\ callback_ids' = callback_ids
      BY <1>6 DEF Search, fileVars
  <2>2. place = "search" => at = 255
    <3>1. \A i \in 1..8 : skip[i] = 0
        BY <1>2, <1>3, ReaderFacts
    <3> QED
        BY <1>2, <3>1, ReaderLayout DEF Reader!SafeInv, Reader!SearchInv, Reader!Enabled
  <2>3. place = "columns" => at \in 5..9
    <3>1. Reader!Columns = {}
        BY <1>3, ReaderLayout DEF Reader!Columns
    <3> QED
        BY <1>2, <3>1, ReaderLayout DEF HeaderLost, Reader!SafeInv, Reader!SearchInv
  <2>4. CASE place = "search"
    <3>1. Csv!SearchColumns
        BY <2>1, <2>2, <2>4, ReaderLayout
        DEF Csv!Search, Csv!SearchText, Csv!SearchRow, Csv!SearchColumn,
            Csv!SearchColumnThen, Csv!SearchFails
    <3>2. /\ place' = "columns" /\ at' = offs /\ offs' = offs /\ row' = row /\ col' = col
        BY <3>1 DEF Csv!SearchColumns, Csv!GoTo, Csv!tableVars
    <3> QED
        BY <1>2, <2>1, <3>2 DEF HeaderLost, Bare
  <2>5. CASE place = "columns"
    <3>1. tbl[at] = NULL
        BY <1>3, <2>3, <2>5
    <3>2. /\ place' = "crash" /\ offs' = offs /\ row' = row /\ col' = col
        BY <2>1, <2>3, <2>5, <3>1
        DEF Csv!Search, Csv!SearchText, Csv!SearchRow, Csv!SearchColumns, Csv!SearchColumn,
            Csv!SearchColumnThen, Csv!SearchFails, Csv!GoTo, Csv!tableVars
    <3> QED
        BY <1>2, <2>1, <3>2 DEF HeaderLost, Bare
  <2> QED
      BY <1>2, <2>1, <2>4, <2>5, SearchEffect
<1>7. ~ (EndRow \/ EndFile)
    BY <1>1, <1>2 DEF EndRow, EndFile
<1>8. ~ (EndRowDone \/ EorRegister \/ EorWaitDone)
    BY <1>2 DEF EndRowDone, EorRegister, EorWaitDone, Csv!EorReturn, Csv!Move
<1>9. ~ (Calling \/ HeaderRegister \/ HeaderDone)
    BY <1>2, CallingKeeps DEF HeaderRegister, HeaderDone, Calls, Csv!Return, Csv!Move
<1> QED
    BY <1>5, <1>6, <1>7, <1>8, <1>9 DEF InFile, Calling

LEMMA LostKept ==
    ASSUME FilesComplete, CtrlInv, SayInv, MissInv, OffsInv, LostInv, [Next]_vars
    PROVE  LostInv'
<1> USE CtrlFacts, FilesAre
<1> SUFFICES ASSUME (CO2E \in missing /\ countries_updated)'
             PROVE  Lost'
    BY DEF LostInv
<1>1. CASE InFile
  <2>1. /\ file' = file /\ missing' = missing /\ countries_updated' = countries_updated
        /\ phase = "reading" /\ phase' \in {"reading", "read"} /\ ~ Broken
      BY <1>1, InTheFile, StepsInFile, ReadingFacts
      DEF InFileFrame, Looks, LeavesOut, EndsRow, EndsFile, Returns
  <2>2. file = CO2E \/ HeaderLost
      BY <2>1 DEF LostInv, Lost
  <2>3. CASE file = CO2E
      BY <2>1, <2>3 DEF Lost
  <2>4. CASE HeaderLost
      BY <1>1, <2>4, HeaderLostKept DEF Lost
  <2> QED
      BY <2>2, <2>3, <2>4
<1>2. CASE FromFileToFile
  <2>1. CASE Begin \/ OpenCodes \/ AfterCodes \/ RegisterYear
    <3>1. /\ file = Codes /\ countries_updated' = countries_updated
          /\ phase \notin {"clear_year", "wait"}
        BY <2>1 DEF Begin, OpenCodes, AfterCodes, RegisterYear, countryVars, StandInv
    <3> QED
        BY <3>1 DEF SayInv, BufferInv
  <2>2. CASE OpenData
    <3>1. phase = "open" /\ file \in {1, 3} /\ countries_updated' = countries_updated /\ ~ Broken
        BY <2>2 DEF OpenData, countryVars, Broken
    <3>2. file = 3 /\ missing' \subseteq missing \cup {3}
        BY <1>2, <3>1, Walk DEF SayInv, BufferInv
    <3>3. Lost
        BY <3>1, <3>2 DEF LostInv
    <3> QED
        BY <3>1, <3>2, <3>3 DEF Lost, HeaderLost
  <2>3. CASE OpenMeta
    <3>1. /\ phase = "open" /\ file = 2 /\ file' = 2 /\ countries_updated' = countries_updated
          /\ callback_ids' = callback_ids /\ ~ Broken /\ ReadFile
        BY <2>3 DEF OpenMeta, countryVars, Broken
    <3>2. missing' \subseteq missing \cup {2}
        BY <3>1 DEF ReadFile
    <3>3. callback_ids[0] = 0 /\ Bare
        BY <3>1, <3>2 DEF LostInv, Lost, HeaderLost, OffsInv
    <3>4. CASE phase' = "read"
      <4>1. Meta \in missing'
          BY <3>1, <3>4 DEF ReadFile
      <4> QED
          BY <3>1, <3>3, <3>4, <4>1 DEF Lost, Bare
    <3>5. CASE phase' # "read"
      <4>1. Csv!StartFile /\ phase' = "reading"
          BY <3>1, <3>5 DEF ReadFile
      <4>2. row' = 0 /\ col' = 0 /\ place' = "row" /\ offs' = offs
          BY <4>1 DEF Csv!StartFile, Csv!Move, Csv!tableVars
      <4> QED
          BY <3>1, <3>3, <4>1, <4>2 DEF Lost, HeaderLost, Bare
    <3> QED
        BY <3>4, <3>5
  <2>4. CASE OpenCrashes
      BY <2>4 DEF OpenCrashes, Lost, Broken, tableVars
  <2>5. CASE AfterData
      BY <2>5 DEF AfterData, Lost
  <2>6. CASE AfterMeta
    <3>1. /\ phase = "read" /\ file = 2 /\ Csv!Clear(callback_ids[5]) /\ ~ Broken
          /\ missing' = missing /\ countries_updated' = countries_updated
        BY <2>6 DEF AfterMeta, AfterMetaClearing, countryVars, StandInv
    <3>2. callback_ids[1] = 0
        BY <3>1 DEF LostInv, Lost, HeaderLost
    <3>3. callback_ids[5] = 0
        BY <3>1, <3>2 DEF ShapeInv, DataShape, InCodes
    <3>4. tbl'[0] = NULL
        BY <3>1, <3>3 DEF Csv!Clear, Csv!ClearWith, ShapeInv
    <3> QED
        BY <3>4 DEF Lost, Broken
  <2>7. CASE ClearYear
    <3>1. /\ phase = "clear_year" /\ phase' \in {"wait", "loop"} /\ file' = file /\ file # 0
          /\ missing' = missing /\ countries_updated' = countries_updated
        BY <2>7 DEF ClearYear, countryVars, StandInv
    <3>2. Lost
        BY <3>1 DEF LostInv
    <3>3. CASE file = CO2E
      <4>1. ~ Broken
          BY <3>3 DEF StandInv
      <4>2. callback_ids'[0] = 0
          BY <2>7, <4>1, ReaderFacts DEF ClearYear, SetId, ShapeInv
      <4> QED
          BY <3>1, <3>3, <4>2 DEF Lost
    <3>4. CASE Broken
      <4>1. tbl'[0] = NULL
        <5>1. callback_ids[0] \in {0, 2}
            BY DEF ShapeInv
        <5> QED
            BY <2>7, <3>4, <5>1
            DEF ClearYear, Csv!Clear, Csv!ClearWith, tableVars, Broken, ShapeInv
      <4> QED
          BY <4>1 DEF Lost, Broken
    <3>5. CASE file = POPT
        BY <3>1, <3>5 DEF Lost
    <3> QED
        BY <3>1, <3>2, <3>3, <3>4, <3>5 DEF Lost, HeaderLost
  <2>8. CASE Wait \/ Record
    <3>1. /\ phase \in {"wait", "record"} /\ missing' = missing
          /\ countries_updated' = countries_updated /\ UNCHANGED <<tbl, callback_ids>>
          /\ \/ phase = "wait" /\ file < 3 /\ file' = file + 1 /\ phase' = "open"
             \/ file' = file /\ phase' \in {"record", "recorded", "failed"}
                /\ (phase = "wait" => file = 3)
        BY <2>8 DEF Wait, WaitWhen, NextFile, Record, countryVars, tableVars, StandInv
    <3>2. Lost
        BY <3>1 DEF LostInv
    <3>3. CASE file = CO2E
        BY <3>1, <3>2, <3>3 DEF Lost, HeaderLost, StandInv
    <3>4. CASE Broken
        BY <3>1, <3>4 DEF Lost, Broken
    <3>5. CASE file = POPT
        BY <3>1, <3>5 DEF Lost
    <3> QED
        BY <3>1, <3>2, <3>3, <3>4, <3>5 DEF Lost, HeaderLost
  <2> QED
      BY <1>2, <2>1, <2>2, <2>3, <2>4, <2>5, <2>6, <2>7, <2>8 DEF FromFileToFile
<1>3. CASE TakeQuery \/ CompleteQuery \/ UNCHANGED vars
  <2>1. UNCHANGED parseVars
      BY <1>3 DEF TakeQuery, CompleteQuery, vars, parseVars
  <2>2. UNCHANGED <<phase, file, missing, countries_updated, row, col, place, at, tbl, offs,
                    callback_ids>>
      BY <2>1 DEF parseVars, fileVars, readerVars, tableVars, countryVars
  <2> QED
      BY <2>2 DEF LostInv, Lost, HeaderLost, Bare, Broken
<1> QED
    BY <1>1, <1>2, <1>3 DEF Next, Main

LEMMA InsertKept ==
    ASSUME CtrlInv, SayInv, LostInv, InsertInv, [Next]_vars
    PROVE  InsertInv'
<1> USE CtrlFacts, FilesAre
<1> SUFFICES ASSUME (CO2E \in missing)', (POPT \notin missing)', NEW r \in 1..Rows[POPT],
                    Named(POPT, r), ReadSoFar(POPT, r, 1)'
             PROVE  SentCountry(r)'
    BY DEF InsertInv
<1>1. POPT \notin missing /\ FifoInv /\ Rows[POPT] \in Nat /\ LastCol[POPT] \in Nat
    BY MissingGrows, Sizes DEF SayInv
<1>2. r \in 0..Rows[POPT] /\ r \in Nat /\ r > 0 /\ 1 \in 0..LastCol[POPT]
    BY <1>1 DEF Named
<1>3. CASE ReadSoFar(POPT, r, 1)
  <2>1. CO2E \in missing
    <3>1. file = 3
        BY <1>3 DEF ReadSoFar
    <3> QED
        BY <3>1, Walk, InTheFile
  <2>2. PICK d \in SUBSET Details : Sent(CountryInsert(r, d))
      BY <1>1, <1>3, <2>1 DEF InsertInv, SentCountry
  <2>3. Sent(CountryInsert(r, d))'
      BY <2>2, StaysSent
  <2> QED
      BY <2>3 DEF SentCountry
<1>4. CASE ~ ReadSoFar(POPT, r, 1)
  <2>1. InFile
      BY <1>1, <1>2, <1>4, ReadsOn
  <2>2. file = POPT /\ row = r /\ col = 1 /\ row' = row /\ col' # col
      BY <1>2, <1>4, <2>1, ReadsCell
  <2>3. CountryCode /\ phase = "reading" /\ ~ Broken /\ CO2E \in missing
    <3>1. phase = "reading" /\ CO2E \in missing /\ ~ Broken
        BY <2>1, StepsInFile, ReadingFacts DEF InFileFrame
    <3> QED
        BY <1>1, <1>2, <2>1, <2>2, <3>1, CountrySaid DEF SayInv
  <2>4. ~ countries_updated
      BY <2>2, <2>3 DEF LostInv, Lost, HeaderLost
  <2>5. cbdata.is = "name"
      BY <1>1, <1>2, <2>2, <2>3, <2>4 DEF SayInv, BufferInv
  <2>6. Enqueue(CountryInsert(r, ccodes[r]))
      BY <2>2, <2>3, <2>4, <2>5 DEF CountryCode
  <2>7. r \in Countries /\ ccodes[r] \in SUBSET Details
      BY <1>1, <1>2, CountriesAre DEF SayInv, DataTypes
  <2>8. PICK d \in SUBSET Details : d = ccodes[r]
      BY <2>7
  <2>9. CountryInsert(r, d) \in Queries /\ Enqueue(CountryInsert(r, d))
      BY <2>6, <2>7, <2>8 DEF Queries, Blocking
  <2>10. Sent(CountryInsert(r, d))'
      BY <1>1, <2>9, IsSent
  <2> QED
      BY <2>10 DEF SentCountry
<1> QED
    BY <1>3, <1>4

-----------------------------------------------------------------------------
(* Nothing else is sent *)

LEMMA RightStays ==
    ASSUME CtrlInv, MissInv, [Next]_vars, file # Codes, NEW q, Right(q)
    PROVE  Right(q)'
<1> USE CtrlFacts, FilesAre
<1>1. Codes \in missing' <=> Codes \in missing
    BY Walk, InTheFile
<1>2. \A c : CodesOf(c)' = CodesOf(c)
    BY <1>1, EmptyStays DEF CodesOf, SaysSomething
<1>3. ASSUME NEW f \in {1, 2, 3}, f \notin missing, Begun(f)
      PROVE  f \notin missing' /\ Begun(f)'
  <2>1. CASE FromFileToFile
      BY <1>3, <2>1, Walk DEF Begun
  <2>2. CASE ~ FromFileToFile
      BY <1>3, <2>2, InTheFile DEF Begun
  <2> QED
      BY <2>1, <2>2
<1>4. CASE \E f \in DataFiles \ missing :
              /\ Begun(f) /\ (f = POPT => CO2E \in missing)
              /\ \E c \in 1..Rows[f] : HasCountry(f, c) /\ q = CountryInsert(c, CodesOf(c))
  <2>1. PICK f \in DataFiles \ missing :
            /\ Begun(f) /\ (f = POPT => CO2E \in missing)
            /\ \E c \in 1..Rows[f] : HasCountry(f, c) /\ q = CountryInsert(c, CodesOf(c))
      BY <1>4
  <2>2. f \notin missing' /\ Begun(f)' /\ (f = POPT => CO2E \in missing')
      BY <1>3, <2>1, MissingGrows
  <2> QED
      BY <1>2, <2>1, <2>2 DEF Right
<1>5. CASE CO2E \notin missing /\ Begun(CO2E) /\ \E y \in YearCols : q = YearInsert(y)
    BY <1>3, <1>5 DEF Right
<1>6. CASE Meta \notin missing /\ Begun(Meta) /\ \E c \in 1..Rows[Meta] : q = CountryUpdate(c)
    BY <1>3, <1>6 DEF Right
<1>7. CASE \E f \in DataFiles \ missing : Begun(f) /\ \E c \in 1..Rows[f], y \in YearCols :
                SaysSomething(f, c, y) /\ q = DatapointUpsert(f, c, y)
  <2>1. PICK f \in DataFiles \ missing :
            Begun(f) /\ \E c \in 1..Rows[f], y \in YearCols :
                SaysSomething(f, c, y) /\ q = DatapointUpsert(f, c, y)
      BY <1>7
  <2>2. f \notin missing' /\ Begun(f)'
      BY <1>3, <2>1
  <2>3. \A c \in 1..Rows[f], y \in YearCols : SaysSomething(f, c, y)' <=> SaysSomething(f, c, y)
      BY SaidStays
  <2> QED
      BY <2>1, <2>2, <2>3 DEF Right
<1> QED
    BY <1>4, <1>5, <1>6, <1>7 DEF Right

(* A query that is enqueued comes from the cell that is read.                  *)
LEMMA NewIsRight ==
    ASSUME FilesComplete, CtrlInv, SayInv, MissInv, UpdatedInv, CcodesInv, RowInv,
           [Next]_vars, enqueued' # enqueued
    PROVE  \E q \in Queries : Enqueue(q) /\ Right(q)
<1> USE CtrlFacts, FilesAre
<1>1. InFile /\ phase = "reading" /\ file # 0 /\ Calling /\ file \notin missing
    BY CodesEnqueueNothing DEF MissInv
<1>2. /\ row \in Nat /\ col \in Nat /\ row <= Rows[file] /\ col <= LastCol[file]
      /\ place = "call" /\ Cell \notin Ignored
  <2>1. place = "call"
      BY <1>1, CallingKeeps DEF Csv!Return, Csv!Move
  <2> QED
      BY <2>1, ReadingFacts DEF StandInv, SayInv, CellInv
<1>3. Begun(file)
    BY <1>1 DEF Begun
<1>4. row > 0 => row \in Countries /\ row \in 1..Rows[file]
    BY <1>2, CountriesAre
<1>5. CASE CountryCode
  <2>1. /\ file \in {1, 3} /\ row >= 1 /\ col = 1
        /\ ~ countries_updated /\ cbdata.is # "nothing"
        /\ Enqueue(CountryInsert(row, ccodes[row]))
      BY <1>5 DEF CountryCode, queueVars
  <2>2. file = POPT => CO2E \in missing
      BY <2>1 DEF UpdatedInv
  <2>3. HasCountry(file, row)
    <3>1. cbdata # Blank
        BY <2>1 DEF Blank, Buffer
    <3>2. <<file, row, 0>> \notin Ignored
        BY <1>1, <1>2, <2>1, <3>1 DEF RowInv
    <3>3. <<file, row, 1>> \notin Ignored
        BY <1>2, <2>1 DEF Cell
    <3>4. \A c \in 0..1 : c = 0 \/ c = 1
        OBVIOUS
    <3> QED
        BY <3>2, <3>3, <3>4 DEF HasCountry
  <2> PICK r \in 1..Rows[file] : r = row
      BY <1>2, <1>4, <2>1
  <2>4. ccodes[r] = CodesOf(r) /\ CodesOf(r) \in SUBSET Details
    <3>1. \A h \in DOMAIN CodesHeader : ReadSoFar(Codes, r, h)
        BY <2>1 DEF ReadSoFar
    <3>2. r \in Countries
        BY <1>2, <1>4, <2>1
    <3> QED
        BY <3>1, <3>2 DEF CcodesInv, CodesSoFar, CodesOf
  <2> DEFINE q == CountryInsert(r, CodesOf(r))
  <2>5. Enqueue(q)
      BY <2>1, <2>4
  <2>6. q \in Queries
      BY <1>2, <1>4, <2>1, <2>4 DEF Queries, Blocking
  <2>7. Right(q)
      BY <1>1, <1>3, <2>1, <2>2, <2>3 DEF Right
  <2> QED
      BY <2>5, <2>6, <2>7
<1>6. CASE Year
  <2>1. Enqueue(YearInsert(col)) /\ col \in YearCols /\ file = CO2E
      BY <1>6 DEF Year, queueVars
  <2> DEFINE q == YearInsert(col)
  <2>2. q \in Queries
      BY <2>1 DEF Queries, Blocking
  <2>3. Right(q)
      BY <1>1, <1>3, <2>1 DEF Right
  <2> QED
      BY <2>1, <2>2, <2>3
<1>7. CASE Data
  <2>1. /\ file \in DataFiles /\ row >= 1 /\ col \in YearCols /\ col >= 4
        /\ Enqueue(DatapointUpsert(file, cbdata.of, col))
      BY <1>7, YearColumns DEF Data, queueVars
  <2>2. ignore_empty
      BY <2>1 DEF SetInv
  <2>3. Cell \notin empty
      BY <1>2, <2>2 DEF SayInv, CellInv
  <2>4. SaysSomething(file, row, col)
      BY <1>2, <2>3 DEF SaysSomething, Cell
  <2>5. MaySay(file, row, col)
      BY <1>2, <2>3 DEF SayInv, CellInv, Cell, MaySay
  <2>6. Named(file, row)
      BY <1>2, <1>4, <2>1, <2>5, FilesAssumption
  <2>7. cbdata = Buffer("code", row)
      BY <1>1, <1>2, <2>1, <2>6 DEF SayInv, BufferInv
  <2> DEFINE q == DatapointUpsert(file, row, col)
  <2>8. Enqueue(q) /\ q \in Queries
      BY <1>2, <1>4, <2>1, <2>7 DEF Buffer, Queries
  <2>9. Right(q)
      BY <1>1, <1>2, <1>3, <1>4, <2>1, <2>4 DEF Right
  <2> QED
      BY <2>8, <2>9
<1>8. CASE DataOfMeta
  <2>1. /\ file = 2 /\ row >= 1 /\ cbdata.is # "nothing"
        /\ Enqueue(CountryUpdate(cbdata.of))
      BY <1>8 DEF DataOfMeta, queueVars
  <2>2. cbdata = Buffer("code", row)
      BY <1>1, <1>2, <2>1 DEF SayInv, BufferInv, Blank, Buffer
  <2> DEFINE q == CountryUpdate(row)
  <2>3. Enqueue(q) /\ q \in Queries
      BY <1>2, <1>4, <2>1, <2>2 DEF Buffer, Queries
  <2>4. Right(q)
      BY <1>1, <1>2, <1>3, <1>4, <2>1 DEF Right
  <2> QED
      BY <2>3, <2>4
<1> QED
    BY <1>1, <1>5, <1>6, <1>7, <1>8
    DEF Calling, NoCallback, CodeIso3, CodeIndependency, CodeIso2, CodeDetail,
        CountryName, MetaColumn, CountryNothing, queueVars

LEMMA RightKept ==
    ASSUME FilesComplete, CtrlInv, SayInv, MissInv, QuietInv, UpdatedInv, CcodesInv, RowInv,
           RightInv, [Next]_vars
    PROVE  RightInv'
<1> USE CtrlFacts, FilesAre
<1> SUFFICES \A i \in 1..Len(enqueued)' : Right(enqueued[i])'
    BY DEF RightInv
<1>1. FifoInv
    BY DEF SayInv
<1>2. ASSUME NEW i \in 1..Len(enqueued), enqueued'[i] = enqueued[i]
      PROVE  Right(enqueued[i])'
  <2>1. file # Codes
      BY DEF QuietInv
  <2> PICK q : q = enqueued[i]
      OBVIOUS
  <2>2. Right(q)
      BY DEF RightInv
  <2>3. Right(q)'
      BY <2>1, <2>2, RightStays
  <2> QED
      BY <1>2, <2>3
<1>3. CASE enqueued' = enqueued
    BY <1>2, <1>3
<1>4. CASE enqueued' # enqueued
  <2>1. PICK q \in Queries : Enqueue(q) /\ Right(q)
      BY <1>4, NewIsRight
  <2>2. /\ Len(enqueued) \in Nat /\ Len(enqueued') = Len(enqueued) + 1
        /\ \A i \in 1..Len(enqueued) : enqueued'[i] = enqueued[i]
        /\ enqueued'[Len(enqueued) + 1] = q
      BY <1>1, <2>1, EnqueueEffect
  <2>3. Right(q)'
      BY <1>4, <2>1, RightStays, CodesEnqueueNothing
  <2>4. \A i \in 1..Len(enqueued)' : i \in 1..Len(enqueued) \/ i = Len(enqueued) + 1
      BY <2>2
  <2>5. ASSUME NEW i, i = Len(enqueued) + 1
        PROVE  Right(enqueued[i])'
    <3>1. enqueued'[i] = q
        BY <2>2, <2>5
    <3> QED
        BY <2>3, <3>1
  <2> QED
      BY <1>2, <2>2, <2>4, <2>5
<1> QED
    BY <1>3, <1>4

-----------------------------------------------------------------------------
(* The theorem *)

LEMMA RecInit == Init => RecInv
<1> SUFFICES ASSUME Init
             PROVE  RecInv
    OBVIOUS
<1> USE FilesAre
<1>1. /\ phase = "begin" /\ file = 0 /\ missing = {} /\ enqueued = <<>> /\ dequeued = <<>>
      /\ ccodes = [c \in Countries |-> {}]
    BY DEF Init, Queue!Init
<1>2. MissInv /\ QuietInv /\ UpdatedInv /\ HeaderInv /\ CodesBuffer /\ RowInv
    BY <1>1 DEF MissInv, QuietInv, UpdatedInv, HeaderInv, CodesBuffer, RowInv
<1>2a. OffsInv /\ LostInv /\ InsertInv
  <2>1. offs = 5
      BY ReaderLayout DEF Init, Csv!Init
  <2> QED
      BY <1>1, <2>1 DEF OffsInv, LostInv, InsertInv
<1>3. CcodesInv
    BY <1>1 DEF CcodesInv, CodesSoFar, ReadSoFar
<1>4. DataInv /\ NotesInv
    BY <1>1 DEF DataInv, NotesInv, ReadSoFar
<1>5. RightInv
    BY <1>1 DEF RightInv
<1> QED
    BY <1>2, <1>3, <1>4, <1>5, <1>2a DEF RecInv

LEMMA RecNext ==
    ASSUME FilesComplete, CtrlInv, SayInv, RecInv, [Next]_vars
    PROVE  RecInv'
<1>1. /\ MissInv /\ QuietInv /\ UpdatedInv /\ OffsInv /\ LostInv /\ HeaderInv
      /\ CodesBuffer /\ CcodesInv /\ RowInv /\ DataInv /\ NotesInv /\ InsertInv
      /\ RightInv /\ FlagTypes
    BY DEF RecInv, SayInv
<1>2. MissInv' /\ QuietInv' /\ UpdatedInv' /\ HeaderInv'
    BY <1>1, MissKept, QuietKept, UpdatedKept, HeaderKept
<1>3. CodesBuffer' /\ CcodesInv' /\ RowInv'
    BY <1>1, CodesBufferKept, CcodesKept, RowKept
<1>3a. OffsInv' /\ LostInv' /\ InsertInv'
    BY <1>1, OffsKept, LostKept, InsertKept
<1>4. DataInv' /\ NotesInv' /\ RightInv'
    BY <1>1, DataKept, NotesKept, RightKept
<1> QED
    BY <1>2, <1>3, <1>4, <1>3a DEF RecInv

(* When the update is recorded, what was handed over is what was expected.     *)
LEMMA SentIsExpected ==
    ASSUME FilesComplete, CtrlInv, SayInv, RecInv, phase = "recorded"
    PROVE  RecordedIsSent
<1> USE CtrlFacts, FilesAre
<1>1. /\ file = 3 /\ Len(dequeued) = Len(enqueued) /\ Len(enqueued) \in Nat
      /\ enqueued \in Seq(Queries) /\ dequeued \in Seq(Queries)
      /\ \A i \in 1..Len(dequeued) : dequeued[i] = enqueued[i]
    BY DEF RecInv, QuietInv, SayInv, FifoInv
<1> DEFINE Out == {dequeued[i] : i \in DOMAIN dequeued}
<1>2. \A q : q \in Out <=> Sent(q)
  <2>1. DOMAIN dequeued = DOMAIN enqueued /\ \A i \in DOMAIN enqueued : dequeued[i] = enqueued[i]
      BY <1>1
  <2> QED
      BY <2>1 DEF Sent
<1>3. \A f \in Files, r, c \in Nat : ReadSoFar(f, r, c)
    BY <1>1 DEF ReadSoFar
<1> DEFINE Read == Files \ missing
<1> DEFINE Inserts == IF Read \cap DataFiles = {} THEN {}
                      ELSE {CountryInsert(c, CodesOf(c)) :
                               c \in {r \in 1..Rows[Min(Read \cap DataFiles)] :
                                         HasCountry(Min(Read \cap DataFiles), r)}}
           Years   == IF CO2E \in Read THEN {YearInsert(y) : y \in YearCols} ELSE {}
           Updates == {CountryUpdate(c) : c \in {r \in 1..Rows[Meta] : Meta \in Read}}
           Values  == {DatapointUpsert(k[1], k[2], k[3]) :
                          k \in {k \in (Read \cap DataFiles) \X Countries \X YearCols :
                                    SaysSomething(k[1], k[2], k[3])}}
           Names(f) == f \in DataFiles \ missing /\ (f = POPT => CO2E \in missing)
<1>4. Read \cap DataFiles = DataFiles \ missing
    OBVIOUS
<1>5. Expected = Inserts \cup Years \cup Updates \cup Values
    BY DEF Expected
<1>5a. \A q : q \in Inserts <=> \E f \in DataFiles : Names(f) /\ \E c \in 1..Rows[f] :
                                    HasCountry(f, c) /\ q = CountryInsert(c, CodesOf(c))
  <2>1. Read \cap DataFiles = {} => \A f \in DataFiles : ~ Names(f)
      BY <1>4
  <2>2. ASSUME NEW g \in DataFiles, Names(g)
        PROVE  /\ Read \cap DataFiles # {} /\ Min(Read \cap DataFiles) = g
               /\ \A f \in DataFiles : Names(f) => f = g
    <3>1. g \in Read \cap DataFiles /\ \A f \in Read \cap DataFiles : g <= f
        BY <1>4, <2>2
    <3>2. \A f \in Read \cap DataFiles : (\A h \in Read \cap DataFiles : f <= h) => f = g
        BY <3>1
    <3>3. Min(Read \cap DataFiles) = g
        BY <3>1, <3>2 DEF Min
    <3> QED
        BY <2>2, <3>1, <3>3
  <2>3. Read \cap DataFiles # {} => \E g \in DataFiles : Names(g)
      BY <1>4
  <2> HIDE DEF Read, Names
  <2>4. CASE Read \cap DataFiles = {}
      BY <2>1, <2>4
  <2>5. CASE Read \cap DataFiles # {}
    <3>1. PICK g \in DataFiles : Names(g)
        BY <2>3, <2>5
    <3>2. Inserts = {CountryInsert(c, CodesOf(c)) : c \in {r \in 1..Rows[g] : HasCountry(g, r)}}
        BY <2>2, <3>1
    <3>3. \A f \in DataFiles : Names(f) <=> f = g
        BY <2>2, <3>1
    <3> HIDE DEF Inserts
    <3> QED
        BY <3>1, <3>2, <3>3
  <2> QED
      BY <2>4, <2>5
<1>6. \A f \in DataFiles : \A c : c \in 1..Rows[f] => c \in Nat /\ c \in Countries
    BY Sizes, CountriesAre
<1>7. ASSUME NEW q, Sent(q)
      PROVE  q \in Expected
  <2>1. PICK i \in 1..Len(enqueued) : enqueued[i] = q
      BY <1>1, <1>7 DEF Sent
  <2>2. Right(q)
      BY <2>1 DEF RecInv, RightInv
  <2>3. CASE \E f \in DataFiles \ missing :
                /\ f = POPT => CO2E \in missing
                /\ \E c \in 1..Rows[f] : HasCountry(f, c) /\ q = CountryInsert(c, CodesOf(c))
    <3>1. q \in Inserts
      <4>1. \E f \in DataFiles : Names(f) /\ \E c \in 1..Rows[f] :
                HasCountry(f, c) /\ q = CountryInsert(c, CodesOf(c))
          BY <2>3
      <4> HIDE DEF Inserts, Names
      <4> QED
          BY <1>5a, <4>1
    <3> QED
        BY <1>5, <3>1
  <2>4. CASE CO2E \notin missing /\ \E y \in YearCols : q = YearInsert(y)
    <3>1. q \in Years
        BY <2>4
    <3> QED
        BY <1>5, <3>1
  <2>5. CASE Meta \notin missing /\ \E c \in 1..Rows[Meta] : q = CountryUpdate(c)
    <3>1. q \in Updates
        BY <2>5
    <3> QED
        BY <1>5, <3>1
  <2>6. CASE \E f \in DataFiles \ missing : \E c \in 1..Rows[f], y \in YearCols :
                SaysSomething(f, c, y) /\ q = DatapointUpsert(f, c, y)
    <3> PICK f \in DataFiles \ missing :
            \E c \in 1..Rows[f], y \in YearCols :
                SaysSomething(f, c, y) /\ q = DatapointUpsert(f, c, y)
        BY <2>6
    <3>1. PICK c \in 1..Rows[f], y \in YearCols :
              SaysSomething(f, c, y) /\ q = DatapointUpsert(f, c, y)
        OBVIOUS
    <3>2. f \in Read \cap DataFiles /\ c \in Countries
        BY <1>4, <1>6, <3>1
    <3>3. <<f, c, y>> \in (Read \cap DataFiles) \X Countries \X YearCols
        BY <3>1, <3>2
    <3>4. q \in Values
        BY <3>1, <3>3
    <3> QED
        BY <1>5, <3>4
  <2> QED
      BY <2>2, <2>3, <2>4, <2>5, <2>6 DEF Right
<1>8. ASSUME NEW f \in DataFiles, Names(f), NEW c \in 1..Rows[f], HasCountry(f, c)
      PROVE  Sent(CountryInsert(c, CodesOf(c)))
  <2>1. Named(f, c) /\ ReadSoFar(f, c, 1)
      BY <1>3, <1>6, <1>8 DEF FilesComplete
  <2>2. SentCountry(c)
    <3>1. CASE f = CO2E
        BY <1>8, <2>1, <3>1 DEF SayInv, SentInv
    <3>2. CASE f = POPT
        BY <1>8, <2>1, <3>2 DEF RecInv, InsertInv
    <3> QED
        BY <3>1, <3>2
  <2>3. PICK d \in SUBSET Details : Sent(CountryInsert(c, d))
      BY <2>2 DEF SentCountry
  <2>4. PICK i \in 1..Len(enqueued) : enqueued[i] = CountryInsert(c, d)
      BY <1>1, <2>3 DEF Sent
  <2>5. Right(CountryInsert(c, d))
      BY <2>4 DEF RecInv, RightInv
  <2>6. d = CodesOf(c)
      BY <2>5 DEF Right, CountryInsert, YearInsert, CountryUpdate, DatapointUpsert
  <2> QED
      BY <2>3, <2>6
<1>9. ASSUME NEW y \in YearCols, CO2E \in Read
      PROVE  Sent(YearInsert(y))
    BY <1>3, <1>9, YearColumns DEF SayInv, SentInv
<1>10. ASSUME NEW c \in 1..Rows[Meta], Meta \in Read
       PROVE  Sent(CountryUpdate(c))
  <2>1. ReadSoFar(Meta, c, 3)
      BY <1>3, Sizes
  <2> QED
      BY <1>10, <2>1 DEF RecInv, NotesInv
<1>11. ASSUME NEW f \in Read \cap DataFiles, NEW c \in Countries, NEW y \in YearCols,
              SaysSomething(f, c, y)
       PROVE  Sent(DatapointUpsert(f, c, y))
  <2>1. c \in Nat /\ c > 0 /\ Rows[f] \in Nat /\ y \in Nat
      BY CountriesAre, Sizes, YearColumns
  <2>2. c \in 1..Rows[f]
      BY <1>11, <2>1 DEF SaysSomething
  <2>3. ReadSoFar(f, c, y)
      BY <1>3, <2>1
  <2> QED
      BY <1>4, <1>11, <2>2, <2>3 DEF RecInv, DataInv
<1>12. ASSUME NEW q \in Expected
       PROVE  Sent(q)
  <2>1. CASE q \in Inserts
    <3>1. PICK f \in DataFiles : Names(f) /\ \E c \in 1..Rows[f] :
              HasCountry(f, c) /\ q = CountryInsert(c, CodesOf(c))
      <4> HIDE DEF Inserts, Names
      <4> QED
          BY <1>5a, <2>1
    <3> QED
        BY <1>8, <3>1
  <2>2. CASE q \in Years
      BY <1>9, <2>2
  <2>3. CASE q \in Updates
      BY <1>10, <2>3
  <2>4. CASE q \in Values
    <3>1. PICK k \in (Read \cap DataFiles) \X Countries \X YearCols :
              SaysSomething(k[1], k[2], k[3]) /\ q = DatapointUpsert(k[1], k[2], k[3])
        BY <2>4
    <3> QED
        BY <1>11, <3>1
  <2> QED
      BY <1>5, <2>1, <2>2, <2>3, <2>4
<1>13. Out = Expected
  <2> HIDE DEF Out
  <2> QED
      BY <1>2, <1>7, <1>12
<1> QED
    BY <1>1, <1>13 DEF RecordedIsSent

(* RecordedIsSent, for complete files of any size, any of them missing: when an  *)
(* update is recorded, every query that the files that were read amount to has  *)
(* been handed to the database, of its own row, and nothing else has.         *)
THEOREM RecordedSent ==
    ASSUME FilesComplete
    PROVE  Spec => []RecordedIsSent
<1>1. Init => RecInv
    BY RecInit
<1>2. CtrlInv /\ SayInv /\ RecInv /\ [Next]_vars => RecInv'
    BY RecNext
<1>3. CtrlInv /\ SayInv /\ RecInv => RecordedIsSent
  <2> SUFFICES ASSUME CtrlInv, SayInv, RecInv
               PROVE  RecordedIsSent
      OBVIOUS
  <2>1. CASE phase = "recorded"
      BY <2>1, SentIsExpected
  <2>2. CASE phase # "recorded"
      BY <2>2 DEF RecordedIsSent
  <2> QED
      BY <2>1, <2>2
<1> QED
    BY <1>1, <1>2, <1>3, SayCorrect, PTL DEF Spec
===============================================================================
