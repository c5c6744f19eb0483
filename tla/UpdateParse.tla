----------------------------- MODULE UpdateParse -----------------------------
(***************************************************************************)
(* emiss_update_parse_send() of src/src/emiss_update.c and its record by   *)
(* run_data_update() of src/src/emiss_resource.c: the files of an update   *)
(* are read one after the other with callbacks of the csv reader, which    *)
(* build queries out of the fields of a row and enqueue them, while the    *)
(* send/poll threads take queries off the queue.  The reader is            *)
(* WlcsvCallbacks, driven here by the files' cells, the queue FifoQueue.   *)
(*                                                                         *)
(* The files come in the order of emiss_retrieve.c:246, and row r of each  *)
(* is about country r.  A cell is empty, matches the ignore regex, or has  *)
(* something to say; a row without a country's name and code has no data,  *)
(* as in the World Bank's files.  The text of queries and fields is left   *)
(* out, but for the country whose code is in the field buffer.  The update *)
(* always previews its data files (last_update is 1, emiss_resource.c:915).*)
(* Files that cannot be read, dates that cannot be parsed, and a record    *)
(* that fails count against MaxFaults; errors that exit() are left out.    *)
(***************************************************************************)
EXTENDS Integers, Sequences, FiniteSetsExt

CONSTANTS
    Rows, LastCol,     \* of each file: rows after the header, last column
    CodesHeader,       \* what the columns of the country codes are headed
    YearCols,          \* columns of the data files with a year of the program's range
    Empty, Optional,   \* cells <<file, row, column>> without text, or perhaps so
    Ignored,           \* cells that match the ignore regex
    MaxFaults,
    NULL

Codes == 0    \* country-codes.csv
CO2E  == 1    \* EN.ATM.CO2E.KT.csv
Meta  == 2    \* Meta.csv
POPT  == 3    \* SP.POP.TOTL.csv
Files == Codes..POPT
DataFiles == {CO2E, POPT}

ASSUME UpdateAssumption ==
    /\ Rows \in [Files -> Nat] /\ LastCol \in [Files -> Nat]
    /\ DOMAIN CodesHeader = 0..LastCol[Codes]
    /\ YearCols \subseteq 4..Max({LastCol[f] : f \in DataFiles})
    /\ MaxFaults \in Nat

VARIABLES
    phase, file,                                 \* where parse_send() stands
    callback_ids,
    eor_callback, default_callback,
    cbdata,                                      \* the field buffer
    ccodes,                                      \* what is known of each country code
    countries_updated,
    ignore_empty,                                \* WLCSV_IGNORE_EMPTY_FIELDS
    tbl, skip, offs, row, col, place, at, field, \* the csv reader
    enqueued, dequeued, barrier,                 \* the queue
    empty,                                       \* the cells without text
    missing,                                     \* history: files not read
    faults

Callback(by, n, fn) == [by |-> by, at |-> n, once |-> FALSE, fn |-> fn]
HeaderCallback  == Callback("ROW", 0, "codes_data_header")
YearCallback    == Callback("ROW", 0, "year")
CountryCallback(c) == Callback("COLUMN", c, "country")
CodeCallback(c)    == Callback("COLUMN", c, CodesHeader[c])
Entries == {HeaderCallback, YearCallback} \cup {CountryCallback(c) : c \in 0..2}
           \cup {CodeCallback(c) : c \in DOMAIN CodesHeader}

Countries == 1..Max({Rows[f] : f \in Files})
Details   == {"iso_a3", "independency", "iso_a2"}
CountryInsert(c, d)   == [query |-> "Country", country |-> c, details |-> d]
YearInsert(y)         == [query |-> "YearData", year |-> y]
DatapointUpsert(f, c, y) == [query |-> "Datapoint", file |-> f, country |-> c, year |-> y]
CountryUpdate(c)      == [query |-> "Meta", country |-> c]

(* Mutant of Blocking: countries are inserted without lock_until_complete.   *)
BlockingYears == {YearInsert(y) : y \in YearCols}

(* wlpq_query_init() with lock_until_complete = 1.                           *)
Blocking == {CountryInsert(c, d) : c \in Countries, d \in SUBSET Details}
            \cup {YearInsert(y) : y \in YearCols}
Queries  == Blocking \cup {CountryUpdate(c) : c \in Countries}
            \cup {DatapointUpsert(f, c, y) : f \in DataFiles, c \in Countries, y \in YearCols}

(* The files are about each other: a row with a value or a note is about a     *)
(* country that the first data file, which has all of the years, names.      *)
MaySay(f, r, c) ==
    <<f, r, c>> \notin Ignored /\ (<<f, r, c>> \in Empty => <<f, r, c>> \in Optional)
SurelySays(f, r, c) == <<f, r, c>> \notin Ignored \cup Empty \cup Optional
Named(f, r) == LastCol[f] >= 1 /\ SurelySays(f, r, 0) /\ SurelySays(f, r, 1)
Known(r)    == r <= Rows[CO2E] /\ Named(CO2E, r)

ASSUME FilesAssumption ==
    /\ \A y \in YearCols : y <= LastCol[CO2E] /\ SurelySays(CO2E, 0, y)
    /\ \A f \in DataFiles : \A r \in 1..Rows[f] :
           (\E y \in YearCols : MaySay(f, r, y)) => Named(f, r) /\ Known(r)
    /\ \A r \in 1..Rows[Meta] : MaySay(Meta, r, 0) => Known(r)

Csv == INSTANCE WlcsvCallbacks WITH
           NKey <- 1, NRgx <- 0, NRow <- 3, NCol <- 4, END <- 255,
           Texts <- {"cell"},
           MaxRow <- Max({Rows[f] : f \in Files}),
           MaxCol <- Max({LastCol[f] : f \in Files})
Queue == INSTANCE FifoQueue

ASSUME EntriesAssumption == NULL \notin Entries \cup {Csv!DefaultEntry}

queueVars  == <<enqueued, dequeued, barrier>>
fileVars   == <<phase, file, missing, faults, empty>>
readerVars == <<row, col, place, at, field>>
setVars    == <<eor_callback, default_callback, ignore_empty>>
countryVars == <<ccodes, countries_updated>>
tableVars  == <<tbl, skip, offs>>
vars == <<queueVars, fileVars, readerVars, tableVars, setVars, countryVars,
          callback_ids, cbdata>>

Buffer(what, c) == [is |-> what, of |-> c]
Blank == Buffer("nothing", 0)
Fault == faults < MaxFaults /\ faults' = faults + 1

Init ==
    /\ phase = "begin" /\ file = Codes /\ missing = {} /\ faults = 0
    /\ \E S \in SUBSET Optional : empty = Empty \cup S
    /\ callback_ids = [k \in 0..5 |-> 0]
    /\ eor_callback = "none" /\ default_callback = "none" /\ ignore_empty = TRUE
    /\ cbdata = Blank
    /\ ccodes = [c \in Countries |-> {}] /\ countries_updated = FALSE
    /\ Csv!Init /\ Queue!Init

Register(k, e) ==
    /\ Csv!Enlist(e)
    /\ callback_ids' = [callback_ids EXCEPT ![k] = Csv!SlotFor(e)]

SetId(k, i) == callback_ids' = [callback_ids EXCEPT ![k] = i]

(* One enqueuing thread; the lock is kept while a blocking query is in       *)
(* progress.                                                                *)
Enqueue(q) == barrier = {} /\ Queue!Enqueue(q)

-----------------------------------------------------------------------------
(* From file to file                                                        *)

Begin ==
    /\ phase = "begin" /\ phase' = "open"
    /\ Register(0, HeaderCallback)
    /\ UNCHANGED <<queueVars, file, missing, faults, empty, readerVars, setVars, countryVars,
                   cbdata>>

(* wlcsv_file_read() starts on a file, or it returns -1, which the caller     *)
(* takes for success.                                                       *)
ReadFile ==
    \/ Csv!StartFile /\ phase' = "reading" /\ UNCHANGED <<missing, faults>>
    \/ Fault /\ phase' = "read" /\ missing' = missing \cup {file}
       /\ UNCHANGED <<tableVars, readerVars>>

OpenCodes ==
    /\ phase = "open" /\ file = Codes
    /\ ReadFile
    /\ UNCHANGED <<queueVars, file, empty, setVars, countryVars, callback_ids, cbdata>>

(* Mutant of NextFile: one file too many.                                    *)
NextFileBeyond == file' = file + 1 /\ phase' = "open"

NextFile ==
    IF file < POPT THEN file' = file + 1 /\ phase' = "open"
                   ELSE phase' = "record" /\ UNCHANGED file

(* The preview leaves a file's date in the buffer; the file is skipped when    *)
(* the date makes no sense.                                                 *)
OpenData ==
    /\ phase = "open" /\ file \in DataFiles /\ tbl[0] # NULL
    /\ eor_callback' = "wait" /\ default_callback' = "data"
    /\ cbdata' = Buffer("date", 0)
    /\ \/ ReadFile /\ UNCHANGED file
       \/ Fault /\ NextFile /\ missing' = missing \cup {file}
          /\ UNCHANGED <<tableVars, readerVars>>
    /\ UNCHANGED <<queueVars, empty, ignore_empty, countryVars, callback_ids>>

(* wlcsv_state_options_set() flips the option.                               *)
OpenMeta ==
    /\ phase = "open" /\ file = Meta /\ tbl[0] # NULL
    /\ eor_callback' = "wait" /\ default_callback' = "data"
    /\ ignore_empty' = ~ ignore_empty
    /\ ReadFile
    /\ UNCHANGED <<queueVars, file, empty, countryVars, callback_ids, cbdata>>

(* wlcsv_callbacks_default_set() without a default entry to set.              *)
OpenCrashes ==
    /\ phase = "open" /\ file # Codes /\ tbl[0] = NULL
    /\ phase' = "crash"
    /\ UNCHANGED <<queueVars, file, missing, faults, empty, tableVars, readerVars, setVars,
                   countryVars, callback_ids, cbdata>>

(* After a file: the codes' callbacks are all cleared,                       *)
AfterCodes ==
    /\ phase = "read" /\ file = Codes /\ phase' = "year"
    /\ Csv!ClearAll
    /\ callback_ids' = [k \in 0..5 |-> 0]
    /\ UNCHANGED <<queueVars, file, missing, faults, empty, readerVars, setVars, countryVars,
                   cbdata>>

RegisterYear ==
    /\ phase = "year" /\ phase' = "open" /\ file' = CO2E
    /\ Register(0, YearCallback)
    /\ UNCHANGED <<queueVars, missing, faults, empty, readerVars, setVars, countryVars, cbdata>>

AfterData ==
    /\ phase = "read" /\ file \in DataFiles /\ phase' = "clear_year"
    /\ countries_updated' = TRUE
    /\ UNCHANGED <<queueVars, file, missing, faults, empty, tableVars, readerVars, setVars,
                   ccodes, callback_ids, cbdata>>

AfterMetaClearing(i) ==
    /\ phase = "read" /\ file = Meta /\ phase' = "clear_year"
    /\ Csv!Clear(i)
    /\ SetId(5, 0)
    /\ ignore_empty' = ~ ignore_empty
    /\ UNCHANGED <<queueVars, file, missing, faults, empty, readerVars, eor_callback,
                   default_callback, countryVars, cbdata>>

(* Mutant of AfterMeta: the identifier is reset before it is used.           *)
AfterMetaForgetting == AfterMetaClearing(0)

(* the metadata's third column is, whatever its identifier names,            *)
AfterMeta == AfterMetaClearing(callback_ids[5])

(* and so is the year callback, once.  When the chain begins with the cleared *)
(* default entry, the toggle never ends.                                    *)
ClearYear ==
    /\ phase = "clear_year"
    /\ IF callback_ids[0] = 0
         THEN phase' = "wait" /\ UNCHANGED <<tableVars, callback_ids>>
         ELSE IF skip[0] = 0
                THEN phase' = "loop" /\ UNCHANGED <<tableVars, callback_ids>>
                ELSE phase' = "wait" /\ Csv!Clear(callback_ids[0]) /\ SetId(0, 0)
    /\ UNCHANGED <<queueVars, file, missing, faults, empty, readerVars, setVars, countryVars,
                   cbdata>>

WaitWhen(done) ==
    /\ phase = "wait" /\ done
    /\ NextFile
    /\ UNCHANGED <<queueVars, missing, faults, empty, tableVars, readerVars, setVars, countryVars,
                   callback_ids, cbdata>>

(* Mutant of Wait: the next file does not wait for the queries of this one.  *)
WaitNot == WaitWhen(TRUE)

(* wlpq_query_queue_empty() holds.                                          *)
Wait == WaitWhen(Len(dequeued) = Len(enqueued))

(* run_data_update(): the update is recorded.                               *)
Record ==
    /\ phase = "record"
    /\ \/ phase' = "recorded" /\ UNCHANGED faults
       \/ phase' = "failed" /\ Fault
    /\ UNCHANGED <<queueVars, file, missing, empty, tableVars, readerVars, setVars, countryVars,
                   callback_ids, cbdata>>

FromFileToFile ==
    \/ Begin \/ OpenCodes \/ OpenData \/ OpenMeta \/ OpenCrashes \/ AfterCodes
    \/ RegisterYear \/ AfterData \/ AfterMeta \/ ClearYear \/ Wait \/ Record

-----------------------------------------------------------------------------
(* In a file                                                                *)

Cell == <<file, row, col>>

(* callbacks_forward() is given the cells, and decides which it leaves out.   *)
ReadCell ==
    /\ phase = "reading" /\ row <= Rows[file] /\ col <= LastCol[file]
    /\ IF Cell \in Ignored \/ (Cell \in empty /\ ignore_empty)
         THEN Csv!SkipField
         ELSE Csv!Field("cell")
    /\ UNCHANGED <<queueVars, fileVars, setVars, countryVars, callback_ids, cbdata>>

Search ==
    /\ Csv!Search
    /\ UNCHANGED <<queueVars, fileVars, setVars, countryVars, callback_ids, cbdata>>

EndRow ==
    /\ phase = "reading" /\ col = LastCol[file] + 1
    /\ Csv!EndRow
    /\ UNCHANGED <<queueVars, fileVars, setVars, countryVars, callback_ids, cbdata>>

EndFile ==
    /\ phase = "reading" /\ row = Rows[file] + 1 /\ phase' = "read"
    /\ Csv!EndFile
    /\ UNCHANGED <<queueVars, file, missing, faults, empty, setVars, countryVars, callback_ids,
                   cbdata>>

(* The end-of-row callbacks: none, eor_flush_cbdata_buffer(),                *)
EorNothing == eor_callback = "none" /\ UNCHANGED cbdata

EorFlush == eor_callback = "flush" /\ cbdata' = Blank

EndRowDone ==
    /\ Csv!EorReturn
    /\ EorNothing \/ EorFlush
    /\ UNCHANGED <<queueVars, fileVars, tableVars, setVars, countryVars, callback_ids>>

(* and eor_wait_until_queries_done(), which registers the country columns     *)
(* after a header row, one by one, and installs the flush.                   *)
(* Mutant of Wanted: the columns are registered from the right.              *)
WantedBackwards == CASE callback_ids[2] = 0 -> {2}
                     [] callback_ids[2] # 0 /\ callback_ids[1] = 0 -> {1}
                     [] OTHER -> {}

Wanted == CASE callback_ids[1] = 0 -> {1}
            [] callback_ids[1] # 0 /\ callback_ids[2] = 0 -> {2}
            [] callback_ids[1] # 0 /\ callback_ids[2] # 0 /\ file = Meta /\ callback_ids[5] = 0 -> {5}
            [] OTHER -> {}

CountryColumn(k) == CASE k = 1 -> 0 [] k = 2 -> 1 [] k = 5 -> 2

EorRegister ==
    /\ place = "eor" /\ eor_callback = "wait"
    /\ \E k \in Wanted : Register(k, CountryCallback(CountryColumn(k)))
    /\ UNCHANGED <<queueVars, fileVars, readerVars, setVars, countryVars, cbdata>>

EorWaitDone ==
    /\ eor_callback = "wait" /\ Wanted = {}
    /\ Csv!EorReturn
    /\ eor_callback' = "flush" /\ cbdata' = Blank
    /\ UNCHANGED <<queueVars, fileVars, tableVars, default_callback, ignore_empty,
                   countryVars, callback_ids>>
-----------------------------------------------------------------------------
(* The callbacks                                                            *)

Calls(fn) == place = "call" /\ fn = IF at = 0 THEN default_callback ELSE tbl[at].fn
Full      == Cell \notin empty

NoCallback ==
    /\ Calls("none")
    /\ Csv!Return
    /\ UNCHANGED <<queueVars, fileVars, tableVars, setVars, countryVars, callback_ids, cbdata>>

IdOf(label) == CASE label = "iso_a3" -> 1 [] label = "iso_a2" -> 2 [] label = "independency" -> 3

(* cb_codes_data_header(): a column it looks for gets its callback.  When it  *)
(* has all three it switches itself off.                                    *)
HeaderRegister ==
    /\ Calls("codes_data_header") /\ CodesHeader[col] \in Details
    /\ callback_ids[IdOf(CodesHeader[col])] = 0
    /\ Register(IdOf(CodesHeader[col]), CodeCallback(col))
    /\ UNCHANGED <<queueVars, fileVars, readerVars, setVars, countryVars, cbdata>>

HeaderDone ==
    /\ Calls("codes_data_header")
    /\ CodesHeader[col] \in Details => callback_ids[IdOf(CodesHeader[col])] # 0
    /\ Csv!Return
    /\ IF \A k \in 1..3 : callback_ids[k] # 0
         THEN Csv!Toggle(callback_ids[0]) /\ SetId(0, 0)
         ELSE UNCHANGED <<tableVars, callback_ids>>
    /\ UNCHANGED <<queueVars, fileVars, setVars, countryVars, cbdata>>

(* cb_codes_iso_a3() makes an entry for the country and leaves its code in    *)
(* the buffer,                                                              *)
CodeIso3 ==
    /\ Calls("iso_a3")
    /\ Csv!Return
    /\ ccodes' = [ccodes EXCEPT ![row] = {"iso_a3"}]
    /\ cbdata' = Buffer("code", row)
    /\ UNCHANGED <<queueVars, fileVars, tableVars, setVars, countries_updated, callback_ids>>

(* by which the other two find it; cb_codes_iso_a2() clears the buffer.       *)
CodeDetail(fn, buffer) ==
    /\ Calls(fn)
    /\ Csv!Return
    /\ IF cbdata.is = "code"
         THEN /\ ccodes' = [ccodes EXCEPT ![cbdata.of] = @ \cup {fn}]
              /\ cbdata' = buffer
         ELSE UNCHANGED <<ccodes, cbdata>>
    /\ UNCHANGED <<queueVars, fileVars, tableVars, setVars, countries_updated, callback_ids>>

CodeIndependency == CodeDetail("independency", cbdata)
CodeIso2         == CodeDetail("iso_a2", Blank)

(* cb_country() of a data file: the name, then the code, and between them the  *)
(* insert of the country, unless an earlier file has made them.              *)
CountryName ==
    /\ Calls("country") /\ file \in DataFiles /\ row >= 1 /\ col = 0
    /\ Csv!Return
    /\ cbdata' = IF countries_updated THEN cbdata ELSE Buffer("name", row)
    /\ UNCHANGED <<queueVars, fileVars, tableVars, setVars, countryVars, callback_ids>>

CountryCode ==
    /\ Calls("country") /\ file \in DataFiles /\ row >= 1 /\ col = 1
    /\ Csv!Return
    /\ cbdata' = Buffer("code", row)
    /\ IF ~ countries_updated /\ cbdata.is # "nothing"
         THEN Enqueue(CountryInsert(row, ccodes[row]))
         ELSE UNCHANGED queueVars
    /\ UNCHANGED <<fileVars, tableVars, setVars, countryVars, callback_ids>>

(* cb_country() of the metadata: the code, then the parts of an update.       *)
MetaColumn ==
    /\ Calls("country") /\ file = Meta /\ row >= 1 /\ Full
    /\ Csv!Return
    /\ cbdata' = IF col = 0 THEN Buffer("code", row) ELSE cbdata
    /\ UNCHANGED <<queueVars, fileVars, tableVars, setVars, countryVars, callback_ids>>

(* cb_country() of a header or an empty field.                               *)
CountryNothing ==
    /\ Calls("country") /\ (row < 1 \/ ~ Full)
    /\ Csv!Return
    /\ UNCHANGED <<queueVars, fileVars, tableVars, setVars, countryVars, callback_ids, cbdata>>

(* cb_year()                                                                *)
Year ==
    /\ Calls("year")
    /\ Csv!Return
    /\ IF file = CO2E /\ col \in YearCols THEN Enqueue(YearInsert(col))
                                          ELSE UNCHANGED queueVars
    /\ UNCHANGED <<fileVars, tableVars, setVars, countryVars, callback_ids, cbdata>>

(* cb_data(): the value of a country in a year of the range,                 *)
Data ==
    /\ Calls("data") /\ file \in DataFiles
    /\ Csv!Return
    /\ IF row >= 1 /\ col \in YearCols
         THEN Enqueue(DatapointUpsert(file, cbdata.of, col))
         ELSE UNCHANGED queueVars
    /\ UNCHANGED <<fileVars, tableVars, setVars, countryVars, callback_ids, cbdata>>

(* or the note of a country, which completes its update.  An empty note is    *)
(* quoted, and counts.                                                      *)
DataOfMeta ==
    /\ Calls("data") /\ file = Meta
    /\ Csv!Return
    /\ IF row >= 1 /\ col <= 3 /\ cbdata.is # "nothing"
         THEN Enqueue(CountryUpdate(cbdata.of)) /\ cbdata' = Blank
         ELSE UNCHANGED <<queueVars, cbdata>>
    /\ UNCHANGED <<fileVars, tableVars, setVars, countryVars, callback_ids>>

InFile ==
    \/ ReadCell \/ Search \/ EndRow \/ EndFile
    \/ EndRowDone \/ EorRegister \/ EorWaitDone
    \/ NoCallback \/ HeaderRegister \/ HeaderDone \/ CodeIso3 \/ CodeIndependency \/ CodeIso2
    \/ CountryName \/ CountryCode \/ MetaColumn \/ CountryNothing \/ Year
    \/ Data \/ DataOfMeta

-----------------------------------------------------------------------------
(* The send/poll threads                                                    *)

parseVars == <<fileVars, tableVars, readerVars, setVars, countryVars, callback_ids, cbdata>>

TakeQuery     == Queue!Dequeue /\ UNCHANGED parseVars
CompleteQuery == Queue!Complete /\ UNCHANGED parseVars

Main == FromFileToFile \/ InFile

Next == Main \/ TakeQuery \/ CompleteQuery

Spec == Init /\ [][Next]_vars

(* The main thread runs, and the threads take and complete queries: what      *)
(* QueryQueue and SendPollLoop show of them while they can work.             *)
FairSpec == Spec /\ WF_vars(Main) /\ WF_vars(TakeQuery) /\ WF_vars(CompleteQuery)

-----------------------------------------------------------------------------
(* Properties                                                               *)

TypeOK ==
    /\ phase \in {"begin", "open", "reading", "read", "year", "clear_year", "wait",
                  "record", "recorded", "failed", "crash", "loop"}
    /\ file \in Files /\ missing \subseteq Files /\ faults \in 0..MaxFaults
    /\ callback_ids \in [0..5 -> 0..8]
    /\ eor_callback \in {"none", "wait", "flush"} /\ default_callback \in {"none", "data"}
    /\ ignore_empty \in BOOLEAN /\ countries_updated \in BOOLEAN
    /\ cbdata \in {Buffer(w, c) : w \in {"nothing", "name", "code", "date"},
                                  c \in {0} \cup Countries}
    /\ ccodes \in [Countries -> SUBSET Details]
    /\ {enqueued[i] : i \in DOMAIN enqueued} \subseteq Queries
    /\ barrier \in SUBSET Blocking

(* The queries known to have completed: another may be in flight for any time. *)
Completed == ({dequeued[i] : i \in DOMAIN dequeued} \cap Blocking) \ barrier

(* A data point or a country's metadata is handed to the database only when   *)
(* the inserts of the country and the year it refers to have completed, by    *)
(* the order of files, rows and columns and by lock_until_complete            *)
(* (emiss_update.c:206, 335), if the file with the years was read.            *)
ReferencesStored ==
    CO2E \notin missing =>
        \A i \in DOMAIN dequeued :
            LET q == dequeued[i]
            IN  /\ q.query \in {"Datapoint", "Meta"} =>
                       \E d \in SUBSET Details : CountryInsert(q.country, d) \in Completed
                /\ q.query = "Datapoint" => YearInsert(q.year) \in Completed

Meant(k) == IF file = Codes THEN CASE k = 0 -> {"codes_data_header"} [] k = 1 -> {"iso_a3"}
                                   [] k = 2 -> {"iso_a2"} [] k = 3 -> {"independency"}
                                   [] OTHER -> {}
            ELSE CASE k = 0 -> {"year"} [] k \in {1, 2, 5} -> {"country"} [] OTHER -> {}

(* An identifier that the update keeps still names the callback it was given   *)
(* for, when it comes to be toggled or cleared (emiss_update.c:160, 547, 553): *)
(* callbacks are registered in an order that never shifts others, and none is *)
(* cleared while it is in use.                                               *)
IdsNameTheirCallbacks ==
    \A k \in 0..5 :
        LET i == callback_ids[k]
        IN  i # 0 =>
                tbl[i] # NULL /\ tbl[i].fn \in Meant(k)
                /\ \A l \in 0..5 : callback_ids[l] = i => l = k

HasCountry(f, r) == \A c \in 0..1 : <<f, r, c>> \notin Ignored
SaysSomething(f, r, c) ==
    r <= Rows[f] /\ c <= LastCol[f] /\ <<f, r, c>> \notin empty \cup Ignored

(* What the country codes say about a country.                               *)
CodesOf(c) ==
    IF Codes \in missing THEN {}
    ELSE {d \in Details : \E h \in DOMAIN CodesHeader :
             CodesHeader[h] = d /\ SaysSomething(Codes, c, h)}

(* What the files that were read amount to.                                  *)
Expected ==
    LET read  == Files \ missing
        first == Min(read \cap DataFiles)
    IN  (IF read \cap DataFiles = {} THEN {}
         ELSE {CountryInsert(c, CodesOf(c)) : c \in {r \in 1..Rows[first] : HasCountry(first, r)}})
        \cup (IF CO2E \in read THEN {YearInsert(y) : y \in YearCols} ELSE {})
        \cup {CountryUpdate(c) : c \in {r \in 1..Rows[Meta] : Meta \in read}}
        \cup {DatapointUpsert(k[1], k[2], k[3]) :
                 k \in {k \in (read \cap DataFiles) \X Countries \X YearCols :
                           SaysSomething(k[1], k[2], k[3])}}

(* The files are as the code expects them (emiss_update.c:88-135, 218-284): the  *)
(* codes have some of the headers it looks for, each for one column; the code  *)
(* of a country comes before its details, and iso_a2, at which the buffer goes *)
(* out, after them; each row has a code. A row of data that is not to be       *)
(* ignored names its country. The metadata has a header that is not to be      *)
(* ignored, and each row a code and a note.                                    *)
CodesComplete ==
    /\ \E h \in DOMAIN CodesHeader : CodesHeader[h] \in Details
    /\ \A h, l \in DOMAIN CodesHeader :
          CodesHeader[h] = CodesHeader[l] /\ CodesHeader[h] \in Details => h = l
    /\ \A h \in DOMAIN CodesHeader : CodesHeader[h] \in Details =>
          /\ SurelySays(Codes, 0, h)
          /\ \E l \in DOMAIN CodesHeader : CodesHeader[l] = "iso_a3" /\ l <= h
          /\ CodesHeader[h] = "iso_a2" =>
                \A l \in DOMAIN CodesHeader : CodesHeader[l] = "independency" => l < h
          /\ CodesHeader[h] = "iso_a3" => \A r \in 1..Rows[Codes] : SurelySays(Codes, r, h)

FilesComplete ==
    /\ CodesComplete
    /\ \A f \in DataFiles : \A r \in 1..Rows[f] : HasCountry(f, r) => Named(f, r)
    /\ \E c \in 0..LastCol[Meta] : SurelySays(Meta, 0, c)
    /\ LastCol[Meta] >= 3
    /\ \A r \in 1..Rows[Meta] : SurelySays(Meta, r, 0) /\ <<Meta, r, 3>> \notin Ignored

(* When the update is recorded, every query that the files that were read      *)
(* amount to has been handed to the database, of its own row and no other,     *)
(* and nothing else has: no cell is lost to another callback, no field of the  *)
(* buffer comes from another row (emiss_update.c:221, 364, 557,                *)
(* emiss_resource.c:202).                                                     *)
RecordedIsSent ==
    phase = "recorded" =>
        /\ {dequeued[i] : i \in DOMAIN dequeued} = Expected
        /\ Len(dequeued) = Len(enqueued)

Ended == phase \in {"recorded", "failed"}

(* The update comes to an end, though each file waits for the queue to be      *)
(* empty; if a file in the middle could not be read, it may end in a crash at  *)
(* an absent callback entry or in a toggle without end (emiss_update.c:542,    *)
(* wlcsv.c:191), but not otherwise.                                          *)
UpdateEnds ==
    <>(Ended \/ (missing \cap {CO2E, Meta} # {}
                 /\ (phase \in {"crash", "loop"} \/ place = "crash")))
==============================================================================
