------------------------------ MODULE EventLog ------------------------------
(***************************************************************************)
(* `tagent init` makes measure-log.json from three event logs: the UEFI    *)
(* and the TXT log, which the firmware, the SINIT module and tboot leave   *)
(* in memory in TCG_PCR_EVENT2 records, and the text file that             *)
(* measure_host writes.  The module models the parsers as the loops they   *)
(* are, on memory that is a sequence of cells.  A cell is one field (a     *)
(* uint8, uint16, uint32 or uint64), one character or one part of a        *)
(* digest; sizes and offsets count cells.                                  *)
(***************************************************************************)
EXTENDS Integers, Sequences, FiniteSets, SequencesExt

CONSTANTS
  Hosts,       \* the logs a host can have, see the record in Init
  DigestSize,  \* cells of a digest, for each algorithm that the agent knows
  UintRange    \* 2^32: sizes are uint32 and wrap

VARIABLES
  host,        \* the memory and the files that are parsed (never changes)
  pc,          \* where tagent init is
  parser,      \* the parser that is at work
  buf,         \* bytes.Buffer: the cells (or the lines) not yet read
  size,        \* the parameter size of createMeasureLog
  offset,      \* its offset
  index501,    \* its event501Index
  second,      \* the TXT log is being read from nextRecordOffset
  rec,         \* the record that is being read
  logs,        \* pcrEventLogs of the parser
  eventLogs,   \* eventLogs of the aggregate parser
  measureLog   \* measure-log.json

parseVars == <<buf, size, offset, index501, rec>>
vars == <<host, pc, parser, parseVars, second, logs, eventLogs, measureLog>>

Wrap(n) == n % UintRange

\* Buffer.Next: what is left when the buffer is too short, without an error.
Take(s, n) == SubSeq(s, 1, IF n < Len(s) THEN n ELSE Len(s))
Drop(s, n) == SubSeq(s, n + 1, Len(s))

-----------------------------------------------------------------------------
(* Event types and their names.  A type 0x800000xx is Efi(0xxx).  The names *)
(* in eventNameList are one value: which of them it is follows from the     *)
(* type, which is published beside it.                                      *)

Efi(x)   == 4096 + x
Event501 == 1281                     \* 0x501
AppEventType == 8193                 \* 0x90000001

NoName       == 0
ListedName   == 1
TBPolicy     == 2
VMLinuz      == 3
Initrd       == 4
AssetTag     == 5
AppEventName == 6

ListedTypes == (0 .. 18) \cup {Efi(x) : x \in (0 .. 12) \cup {16} \cup (224 .. 226)}
                 \cup (1025 .. 1028) \cup (1034 .. 1044) \cup (1046 .. 1050) \cup {1279}

Names501 == <<TBPolicy, TBPolicy, VMLinuz, Initrd, AssetTag>>

TypeName(type, index) ==
  IF type \in ListedTypes THEN ListedName
  ELSE IF type = Event501 /\ index < Len(Names501) THEN Names501[index + 1]
  ELSE NoName

-----------------------------------------------------------------------------
(* getEventTag: what the data of a UEFI event says.  The result is a list   *)
(* of at most one tag, or Panics when the code indexes past a slice.        *)

VariableTypes == {Efi(1), Efi(2), Efi(12), Efi(224)}
BlobTypes     == {Efi(10), Efi(11)}
TextTypes     == {1, 5, 7, 10, 13, 18, Efi(7), Efi(16)}
CompactHash   == 12                  \* text when it is in PCR 6
NoAction      == 3
PfrTypes      == {16, 17}

Nul      == 0
Char(n)  == 48 + n                   \* "%d" of a number below 10
PFR      == <<80, 70, 82>>
pfr      == <<112, 102, 114>>
Panics   == <<<<-1>>>>

\* unicode.IsPrint
removeUnicode(s) == SelectSeq(s, LAMBDA c : c > 31)

\* UEFI_VARIABLE_DATA: the GUID, two lengths, then the name, of which every
\* second byte is a character.
VariableTag(data, eventSize) ==
  IF Len(data) < 3 \/ data[2] + data[3] > Wrap(eventSize - 3) THEN << >>
  ELSE LET name == Take(Drop(data, 3), 2 * data[2])
       IN IF Len(name) < 2 * data[2] - 1 THEN Panics
          ELSE <<[i \in 1 .. data[2] |-> name[2 * i - 1]]>>

BlobTag(data) == IF data = << >> THEN << >> ELSE <<Take(Drop(data, 1), data[1])>>

\* The text up to the first NUL, and nothing if the first character is one.
TextTag(data) ==
  LET nul == SelectInSeq(data, LAMBDA c : c = Nul)
  IN IF nul = 0 THEN <<data>> ELSE IF nul = 1 THEN << >> ELSE <<Take(data, nul - 1)>>

\* "StartupLocality", NUL, 3 gives "StartupLocality3".
NoActionTag(data) ==
  LET nul == SelectInSeq(data, LAMBDA c : c = Nul)
  IN IF nul = 0 THEN <<data>> ELSE IF nul = 1 THEN << >>
     ELSE IF nul = Len(data) THEN Panics
     ELSE <<Append(Take(data, nul - 1), Char(data[nul + 1]))>>

\* PFR_EVENT_DATA: version, CPLD, event id, attribute, reserved, two sizes,
\* then the information and the string.
PfrTag(data, eventSize, pcr) ==
  IF \/ Len(data) < 7
     \/ eventSize # Wrap(7 + data[6] + data[7])
     \/ pcr \notin {0, 1, 7}
     \/ data[1] # 1 \/ data[3] \notin 2 .. 5
     \/ data[4] \notin {0, 1, 2, 128, 129, 130}
     \/ data[7] = 0
  THEN << >>
  ELSE LET string == Take(Drop(data, 7 + data[6]), data[7])
       IN IF IsStrictPrefix(string, PFR) \/ IsStrictPrefix(string, pfr) THEN Panics
          ELSE IF IsPrefix(PFR, string) \/ IsPrefix(pfr, string) THEN <<string>>
          ELSE << >>

EventTag(type, data, eventSize, pcr) ==
  IF type \in VariableTypes THEN VariableTag(data, eventSize)
  ELSE IF type \in BlobTypes THEN BlobTag(data)
  ELSE IF type \in TextTypes \/ (type = CompactHash /\ pcr = 6) THEN TextTag(data)
  ELSE IF type = NoAction THEN NoActionTag(data)
  ELSE IF type \in PfrTypes THEN PfrTag(data, eventSize, pcr)
  ELSE << >>

-----------------------------------------------------------------------------
(* Groups.                                                                  *)

\* Mutant of AddEvent: the bank is not compared.
AddEventByPcr(groups, pcr, bank, event) ==
  LET i == SelectInSeq(groups, LAMBDA g : g.pcr = pcr)
  IN IF i = 0
     THEN Append(groups, [pcr |-> pcr, bank |-> bank, events |-> <<event>>])
     ELSE [groups EXCEPT ![i].events = Append(@, event)]

\* The event goes to the group with its PCR and bank, or to a new one.
AddEvent(groups, pcr, bank, event) ==
  LET i == SelectInSeq(groups, LAMBDA g : g.pcr = pcr /\ g.bank = bank)
  IN IF i = 0
     THEN Append(groups, [pcr |-> pcr, bank |-> bank, events |-> <<event>>])
     ELSE [groups EXCEPT ![i].events = Append(@, event)]

NoRecord == [pcr |-> 0, type |-> 0, count |-> 0, digests |-> << >>, name |-> NoName,
             tags |-> << >>]

-----------------------------------------------------------------------------
(* How a parser ends: its groups are appended to the aggregate's, or it     *)
(* returned an error and the aggregate goes on with the next one.           *)

NextParser == [uefi |-> "txt", txt |-> "app", app |-> "none"]

ParserEnds(groups) ==
  /\ eventLogs' = eventLogs \o groups
  /\ parser' = NextParser[parser]
  /\ pc' = IF parser = "app" THEN "write" ELSE "open"
  /\ buf' = << >> /\ size' = 0 /\ offset' = 0 /\ index501' = 0 /\ rec' = NoRecord
  /\ second' = FALSE /\ logs' = << >>
  /\ UNCHANGED <<host, measureLog>>

ParserFails == ParserEnds(<< >>)

\* main recovers and the process ends with status 0; nothing was written.
Panic ==
  /\ pc' = "panicked"
  /\ UNCHANGED <<host, parser, parseVars, second, logs, eventLogs, measureLog>>

\* Skips the first record, a TCG_PCR_EVENT of four fields
\* and its data; createMeasureLog begins with the rest.
parseTcgSpecEvent(b, s) ==
  \/ /\ Len(b) >= 4
     /\ buf' = Drop(b, 4 + b[4])
     /\ size' = Wrap(s - (b[4] + 4))
     /\ offset' = 0 /\ index501' = 0 /\ rec' = NoRecord
     /\ pc' = "record"
     /\ UNCHANGED <<host, parser, second, logs, eventLogs, measureLog>>
  \/ Len(b) < 4 /\ ParserFails

-----------------------------------------------------------------------------
(* The parsers.                                                             *)

At(p) == pc = "open" /\ parser = p

\* A log in a file has no other bound than the end of the file.
OpenFile(p, file) ==
  /\ At(p)
  /\ parseTcgSpecEvent(file, Wrap(Len(file)))

\* The TPM2 table gives the size and the address of the UEFI log.
OpenUefi ==
  /\ At("uefi")
  /\ host.uefi.source = "memory"
  /\ parseTcgSpecEvent(Take(host.uefi.cells, host.uefi.size), host.uefi.size)

\* There is no TPM2 table, or it is not valid, or the memory cannot be read.
UefiMissing == At("uefi") /\ host.uefi.source = "missing" /\ ParserFails

Heap == host.txt.cells

\* Offsets in the event log pointer count from the container, which begins at
\* host.txt.base of the heap.
FirstEventLogOffset == host.txt.base + host.txt.first
NextEventLogOffset  == host.txt.base + host.txt.next

OpenTxt ==
  /\ At("txt")
  /\ host.txt.source = "memory"
  /\ \/ /\ FirstEventLogOffset + host.txt.allocated <= Len(Heap)
        /\ parseTcgSpecEvent(Take(Drop(Heap, FirstEventLogOffset), host.txt.allocated),
                             host.txt.allocated)
     \/ /\ FirstEventLogOffset + host.txt.allocated > Len(Heap)
        /\ Panic

TxtMissing == At("txt") /\ host.txt.source = "missing" /\ ParserFails

\* createMeasureLog again, from nextRecordOffset to the end of the heap.  The
\* size is that of the container less an offset in the heap.
OpenTxtNext ==
  /\ pc = "parsed" /\ parser = "txt" /\ host.txt.source = "memory"
  /\ ~second /\ host.txt.next # 0
  /\ \/ /\ NextEventLogOffset <= Len(Heap)
        /\ buf' = Drop(Heap, NextEventLogOffset)
        /\ size' = Wrap(host.txt.allocated - NextEventLogOffset)
        /\ offset' = 0 /\ index501' = 0 /\ rec' = NoRecord
        /\ second' = TRUE
        /\ pc' = "record"
        /\ UNCHANGED <<host, parser, logs, eventLogs, measureLog>>
     \/ NextEventLogOffset > Len(Heap) /\ Panic

ParserReturns ==
  /\ pc = "parsed"
  /\ ~(parser = "txt" /\ host.txt.source = "memory" /\ ~second /\ host.txt.next # 0)
  /\ ParserEnds(logs)

OpenApp ==
  /\ At("app")
  /\ \/ /\ host.app.source = "file"
        /\ buf' = host.app.lines
        /\ pc' = "line"
        /\ UNCHANGED <<host, parser, size, offset, index501, rec, second, logs, eventLogs,
                       measureLog>>
     \/ host.app.source = "missing" /\ ParserFails

\* One line: bank, index, name and digest, separated by tabs.
AppEvent(line) == [type |-> AppEventType, name |-> AppEventName, tags |-> <<line.tag>>,
                   measurement |-> line.measurement]

AppLine ==
  /\ pc = "line" /\ buf # << >>
  /\ LET line == Head(buf)
     IN \/ /\ line.fields >= 2 /\ ~line.number
           /\ ParserFails
        \/ /\ line.fields < 2 \/ (line.number /\ line.fields < 4)
           /\ Panic
        \/ /\ line.fields >= 4 /\ line.number
           /\ logs' = AddEvent(logs, line.pcr, line.bank, AppEvent(line))
           /\ buf' = Tail(buf)
           /\ UNCHANGED <<host, pc, parser, size, offset, index501, rec, second, eventLogs,
                          measureLog>>

AppEnds == pc = "line" /\ buf = << >> /\ ParserEnds(logs)

-----------------------------------------------------------------------------
(* createMeasureLog.                                                        *)

\* Mutant of Break: a record that cannot be one does not end the loop.
Continue ==
  /\ pc' = "record"
  /\ UNCHANGED <<host, parser, parseVars, second, logs, eventLogs, measureLog>>

\* The loop ends where the log does, or at a record that cannot be one.
Break ==
  /\ pc' = "parsed"
  /\ UNCHANGED <<host, parser, parseVars, second, logs, eventLogs, measureLog>>

LoopEnds == pc = "record" /\ offset >= size /\ Break

ReadRecord ==
  /\ pc = "record" /\ offset < size
  /\ \/ /\ \/ buf = << >>
           \/ Len(buf) \in {1, 2} /\ buf[1] <= 23
        /\ ParserFails
     \/ /\ buf # << >>
        /\ \/ buf[1] > 23
           \/ Len(buf) >= 3 /\ buf[3] \notin 1 .. 5
        /\ Break
     \/ /\ Len(buf) >= 3 /\ buf[1] <= 23 /\ buf[3] \in 1 .. 5
        /\ rec' = [pcr |-> buf[1], type |-> buf[2], count |-> buf[3], digests |-> << >>,
                   name |-> TypeName(buf[2], index501), tags |-> << >>]
        /\ buf' = Drop(buf, 3) /\ offset' = offset + 3
        /\ pc' = "digest"
        /\ UNCHANGED <<host, parser, size, index501, second, logs, eventLogs, measureLog>>

\* Nothing is read for an algorithm that the agent does not know.
ReadDigest ==
  /\ pc = "digest" /\ buf # << >>
  /\ LET alg   == buf[1]
         known == alg \in DOMAIN DigestSize
         n     == IF known THEN DigestSize[alg] ELSE 0
     IN /\ rec' = [rec EXCEPT !.digests =
                     Append(@, [bank |-> IF known THEN alg ELSE 0,
                                measurement |-> Take(Drop(buf, 1), n)])]
        /\ buf' = Drop(buf, 1 + n) /\ offset' = offset + 1 + n
  /\ pc' = IF Len(rec'.digests) = rec.count THEN "event" ELSE "digest"
  /\ UNCHANGED <<host, parser, size, index501, second, logs, eventLogs, measureLog>>

\* Only the parser of the TXT log in memory passes txtEnabled.
TxtEnabled == parser = "txt" /\ host.txt.source = "memory"

\* Mutant of Tags: the last character of the data is taken for a terminator.
TagsTerminated(data, eventSize) ==
  IF ~TxtEnabled THEN EventTag(rec.type, Take(data, Len(data) - 1), eventSize, rec.pcr)
  ELSE IF rec.name # NoName THEN <<<<rec.name>>>>
  ELSE << >>

Tags(data, eventSize) ==
  IF ~TxtEnabled THEN EventTag(rec.type, data, eventSize, rec.pcr)
  ELSE IF rec.name # NoName THEN <<<<rec.name>>>>
  ELSE << >>

ReadEvent ==
  /\ pc = "event" /\ buf # << >>
  /\ LET eventSize == buf[1]
         tags      == Tags(Take(Drop(buf, 1), eventSize), eventSize)
     IN \/ tags = Panics /\ Panic
        \/ /\ tags # Panics
           /\ rec' = [rec EXCEPT !.tags =
                        [i \in DOMAIN tags |->
                           IF TxtEnabled THEN tags[i] ELSE removeUnicode(tags[i])]]
           /\ buf' = Drop(buf, 1 + eventSize) /\ offset' = offset + 1 + eventSize
           /\ index501' = IF rec.type = Event501 THEN index501 + 1 ELSE index501
           /\ pc' = "publish"
           /\ UNCHANGED <<host, parser, size, second, logs, eventLogs, measureLog>>

\* Mutant of ReadFails: an event whose size cannot be read is published.
ReadErrorIgnored ==
  \/ pc = "digest" /\ buf = << >> /\ ParserFails
  \/ /\ pc = "event" /\ buf = << >>
     /\ pc' = "publish"
     /\ UNCHANGED <<host, parser, parseVars, second, logs, eventLogs, measureLog>>

\* An algorithm or the size of the event cannot be read.
ReadFails == pc \in {"digest", "event"} /\ buf = << >> /\ ParserFails

\* The digests are published in order, one event for each.
PublishEvent ==
  /\ pc = "publish"
  /\ LET d == Head(rec.digests)
     IN logs' = AddEvent(logs, rec.pcr, d.bank,
                         [type |-> rec.type, name |-> rec.name, tags |-> rec.tags,
                          measurement |-> d.measurement])
  /\ rec' = [rec EXCEPT !.digests = Tail(@)]
  /\ pc' = IF Len(rec.digests) = 1 THEN "record" ELSE "publish"
  /\ UNCHANGED <<host, parser, buf, size, offset, index501, second, eventLogs, measureLog>>

-----------------------------------------------------------------------------
(* updateMeasureLog.                                                        *)

Old == <<[pcr |-> 0, bank |-> 0, events |-> << >>]>>   \* written by the last init

UpdateMeasureLog ==
  /\ pc = "write"
  /\ measureLog' = IF eventLogs = << >> THEN measureLog ELSE eventLogs
  /\ pc' = "done"
  /\ UNCHANGED <<host, parser, parseVars, second, logs, eventLogs>>

Init ==
  /\ host \in Hosts
  /\ pc = "open" /\ parser = "uefi"
  /\ buf = << >> /\ size = 0 /\ offset = 0 /\ index501 = 0 /\ rec = NoRecord
  /\ second = FALSE /\ logs = << >> /\ eventLogs = << >>
  /\ measureLog = Old

Next ==
  \/ \E p \in {"uefi", "txt"} :
       host[p].source = "file" /\ OpenFile(p, host[p].cells)
  \/ OpenUefi \/ UefiMissing
  \/ OpenTxt \/ TxtMissing \/ OpenTxtNext
  \/ OpenApp \/ AppLine \/ AppEnds
  \/ ReadRecord \/ ReadDigest \/ ReadEvent \/ ReadFails \/ PublishEvent
  \/ LoopEnds \/ ParserReturns
  \/ UpdateMeasureLog

Spec == Init /\ [][Next]_vars

\* The process runs.
FairSpec == Spec /\ WF_vars(Next)

-----------------------------------------------------------------------------
(* What a log means.  host.uefi.events, host.txt.events and, for records    *)
(* from nextRecordOffset on, host.txt.nextEvents are what the firmware      *)
(* wrote; nothing above looks at them.                                      *)

LoggedDigests == [alg : Nat, value : Seq(Nat)]
LoggedEvents  == [pcr : 0 .. 23, type : Nat, digests : Seq(LoggedDigests), data : Seq(Nat),
                  tags : Seq(Seq(Nat))]

\* One to five digests, of the sizes of their algorithms, and the tags that
\* getEventTag makes of the data if it comes to an end.
WellFormed(e) ==
  LET tags == EventTag(e.type, e.data, Len(e.data), e.pcr)
  IN /\ Len(e.digests) \in 1 .. 5
     /\ \A i \in DOMAIN e.digests : e.digests[i].alg \in DOMAIN DigestSize
          => Len(e.digests[i].value) = DigestSize[e.digests[i].alg]
     /\ tags # Panics => e.tags = [i \in DOMAIN tags |-> removeUnicode(tags[i])]

\* Data that is complete and still cannot be tagged: a variable whose name is
\* said to be longer than the data, an action of which the only NUL is the last
\* character, or a PFR string that stops before the three letters it is known by.
Unreadable(e) ==
  \/ /\ e.type \in VariableTypes
     /\ Len(e.data) >= 3 /\ Len(e.data) < 3 + 2 * e.data[2]
  \/ /\ e.type = NoAction
     /\ Len(e.data) > 1 /\ {i \in DOMAIN e.data : e.data[i] = Nul} = {Len(e.data)}
  \/ /\ e.type \in PfrTypes
     /\ Len(e.data) >= 7 /\ e.data[7] # 0
     /\ \E letters \in {PFR, pfr} :
          IsStrictPrefix(Take(Drop(e.data, 7 + e.data[6]), e.data[7]), letters)

AppLines == [fields : Nat, number : BOOLEAN, pcr : Nat, bank : Nat, tag : Seq(Nat),
             measurement : Seq(Nat)]

\* Sizes are uint32, and a log in memory is not longer than the memory.  The
\* events are well formed; the cells are whatever they are.
ASSUME EventLogAssumption ==
  /\ UintRange \in Nat \ {0}
  /\ \A a \in DOMAIN DigestSize : DigestSize[a] \in Nat \ {0}
  /\ \A h \in Hosts :
       /\ h.uefi.source \in {"memory", "file", "missing"}
       /\ h.uefi.cells \in Seq(Nat) /\ Len(h.uefi.cells) < UintRange
       /\ h.uefi.size \in 0 .. Len(h.uefi.cells)
       /\ h.txt.source \in {"memory", "file", "missing"}
       /\ h.txt.cells \in Seq(Nat) /\ Len(h.txt.cells) < UintRange
       /\ h.txt.base \in Nat /\ h.txt.first \in Nat /\ h.txt.next \in Nat
       /\ h.txt.allocated \in 0 .. UintRange - 1
       /\ \A log \in {h.uefi.events, h.txt.events, h.txt.nextEvents} :
            log \in Seq(LoggedEvents) /\ \A i \in DOMAIN log : WellFormed(log[i])
       /\ h.app.source \in {"file", "missing"}
       /\ h.app.lines \in Seq(AppLines)

Encode(e) ==
  <<e.pcr, e.type, Len(e.digests)>>
    \o FlattenSeq([i \in DOMAIN e.digests |-> <<e.digests[i].alg>> \o e.digests[i].value])
    \o <<Len(e.data)>> \o e.data

EncodeAll(events) == FlattenSeq([i \in DOMAIN events |-> Encode(events[i])])

\* The agent knows the algorithms of the events.
KnownAlgorithms(events) ==
  \A i \in DOMAIN events : \A j \in DOMAIN events[i].digests :
    events[i].digests[j].alg \in DOMAIN DigestSize

\* After the last record comes the end of the memory, a cell that is no PCR, or
\* a record without digests (zeros).
Terminated(rest) ==
  \/ rest = << >>
  \/ rest[1] > 23
  \/ Len(rest) >= 3 /\ rest[3] = 0

Holds(cells, events) ==
  /\ IsPrefix(EncodeAll(events), cells)
  /\ Terminated(Drop(cells, Len(EncodeAll(events))))
  /\ KnownAlgorithms(events)

\* The cells after the first record.
Body(cells) == IF Len(cells) < 4 THEN << >> ELSE Drop(cells, 4 + cells[4])

Whole(cells) == Len(cells) >= 4 /\ Len(cells) >= 4 + cells[4]

UefiArea == IF host.uefi.source = "memory" THEN Take(host.uefi.cells, host.uefi.size)
            ELSE host.uefi.cells

UefiIntact ==
  /\ host.uefi.source # "missing"
  /\ Whole(UefiArea)
  /\ Holds(Body(UefiArea), host.uefi.events)

\* The container that the event log pointer describes, in the heap.
Container == SubSeq(Heap, host.txt.base + 1, host.txt.base + host.txt.allocated)

\* The file, or the container, holds the records from first on and, if there are
\* more of them, those from next on.
TxtIntact ==
  \/ /\ host.txt.source = "file"
     /\ Whole(Heap) /\ Holds(Body(Heap), host.txt.events)
  \/ /\ host.txt.source = "memory"
     /\ host.txt.base + host.txt.allocated <= Len(Heap)
     /\ Whole(Drop(Container, host.txt.first))
     /\ Holds(Body(Drop(Container, host.txt.first)), host.txt.events)
     /\ \/ host.txt.next = 0 /\ host.txt.nextEvents = << >>
        \/ /\ host.txt.next \in 1 .. host.txt.allocated
           /\ Holds(Drop(Container, host.txt.next), host.txt.nextEvents)

\* Cells of the container follow the records that begin after n cells.
Followed(n, events) == n + Len(EncodeAll(events)) < host.txt.allocated

\* The agent takes as many cells from first on as the container has in all, reads
\* from next on to the end of the heap, and bounds that by the size of the
\* container less an offset in the heap.  Intact records lie within these three
\* when the heap goes on after the container as far as the container begins late,
\* something in the container ends each set, and the second set ends early.
TxtCovered ==
  host.txt.source = "memory" =>
    /\ FirstEventLogOffset + host.txt.allocated <= Len(Heap)
    /\ host.txt.first > 0 =>
         Len(EncodeAll(host.txt.events)) < Len(Body(Drop(Container, host.txt.first)))
    /\ host.txt.next # 0 =>
         /\ \/ Followed(host.txt.next, host.txt.nextEvents)
            \/ host.txt.base + host.txt.allocated = Len(Heap)
         /\ \/ /\ NextEventLogOffset + Len(EncodeAll(host.txt.nextEvents))
                   <= host.txt.allocated
            \/ NextEventLogOffset < Len(Heap) /\ host.txt.nextEvents = << >>

AppIntact ==
  /\ host.app.source = "file"
  /\ \A i \in DOMAIN host.app.lines : host.app.lines[i].fields >= 4 /\ host.app.lines[i].number

Count501(events, n) == Cardinality({j \in 1 .. n : events[j].type = Event501})

\* The name of events[i]: 501 events are counted, with those before the log.
NameOf(events, i, before) == TypeName(events[i].type, before + Count501(events, i - 1))

\* What should be published of a log, in order.
Entries(events, txt, before) ==
  FlattenSeq([i \in DOMAIN events |-> [j \in DOMAIN events[i].digests |->
    [pcr |-> events[i].pcr, bank |-> events[i].digests[j].alg,
     event |-> [type |-> events[i].type, name |-> NameOf(events, i, before),
                tags |-> IF ~txt THEN events[i].tags
                         ELSE IF NameOf(events, i, before) = NoName THEN << >>
                         ELSE <<<<NameOf(events, i, before)>>>>,
                measurement |-> events[i].digests[j].value]]]])

UefiEntries == Entries(host.uefi.events, FALSE, 0)

TxtEntriesFrom(before) ==
  IF host.txt.source = "file" THEN Entries(host.txt.events, FALSE, 0)
  ELSE Entries(host.txt.events, TRUE, 0) \o Entries(host.txt.nextEvents, TRUE, before)

\* "The first and second occurrence of 501 events is tb_policy": occurrences in
\* the whole log.
TxtEntries == TxtEntriesFrom(Count501(host.txt.events, Len(host.txt.events)))

\* The second call of createMeasureLog counts from 0 again, which shows when both
\* sets have such events.
TxtEntriesRestarted == TxtEntriesFrom(0)

CountRestarts ==
  /\ host.txt.source = "memory"
  /\ \E i \in DOMAIN host.txt.events : host.txt.events[i].type = Event501
  /\ \E i \in DOMAIN host.txt.nextEvents : host.txt.nextEvents[i].type = Event501

AppEntries ==
  [i \in DOMAIN host.app.lines |->
     [pcr |-> host.app.lines[i].pcr, bank |-> host.app.lines[i].bank,
      event |-> AppEvent(host.app.lines[i])]]

\* The places of a PCR and bank among the entries.
Places(entries, pcr, bank) ==
  {j \in DOMAIN entries : entries[j].pcr = pcr /\ entries[j].bank = bank}

\* The events are those of the PCR and bank among the entries, each of them once
\* and in the order of the entries.
Selects(events, entries, pcr, bank) ==
  LET mine == Places(entries, pcr, bank)
  IN /\ Len(events) = Cardinality(mine)
     /\ \A j \in mine : events[Cardinality({i \in mine : i <= j})] = entries[j].event

-----------------------------------------------------------------------------
(* Properties.                                                              *)

\* One group for each PCR and bank, with exactly its events in their order.
Agrees(groups, entries) ==
  /\ \A i, j \in DOMAIN groups :
       groups[i].pcr = groups[j].pcr /\ groups[i].bank = groups[j].bank => i = j
  /\ {<<g.pcr, g.bank>> : g \in ToSet(groups)} = {<<x.pcr, x.bank>> : x \in ToSet(entries)}
  /\ \A g \in ToSet(groups) : Selects(g.events, entries, g.pcr, g.bank)

Published(entries) ==
  entries # << >> =>
    \E i \in DOMAIN measureLog : \E j \in i .. Len(measureLog) :
      Agrees(SubSeq(measureLog, i, j), entries)

\* The agent reads all of the TXT log.
TxtReadable == TxtIntact /\ TxtCovered

\* When init comes to its end, an intact log is published completely although the
\* parser of another log failed: every digest under its PCR and bank, in the
\* order of the extensions, once, with the names of tboot's events by occurrence
\* and the tags its data says (createMeasureLog, getEventTag,
\* aggregateEventLogParser.GetEventLogs).  Two limits of the code are excepted: a
\* TXT log that getTxtEventLog's sizes do not cover, and names in its second set
\* that are counted from 0 again.  An init that panics publishes nothing, see
\* StaleOnlyIfTorn.
IntactLogsPublished ==
  pc = "done" =>
    /\ UefiIntact => Published(UefiEntries)
    /\ TxtReadable => \/ Published(TxtEntries)
                      \/ CountRestarts /\ Published(TxtEntriesRestarted)
    /\ AppIntact => Published(AppEntries)

Untagged(e) == [type |-> e.type, name |-> e.name, measurement |-> e.measurement]

\* But for their tags, the events of a group are those of its PCR and bank among
\* the first entries.
SelectsPrefix(g, entries) ==
  \E n \in 0 .. Len(entries) :
    Selects([i \in DOMAIN g.events |-> Untagged(g.events[i])],
            [i \in 1 .. n |-> [entries[i] EXCEPT !.event = Untagged(@)]], g.pcr, g.bank)

\* The UEFI log may be cut off anywhere.
UefiCutOff ==
  /\ KnownAlgorithms(host.uefi.events)
  /\ IsPrefix(Body(UefiArea), EncodeAll(host.uefi.events))

\* A log that was cut off anywhere, in the middle of a digest too, gives a prefix
\* of its events for each PCR and bank or nothing, and no event that is not in
\* the log: buf.Next returns short slices without an error, and only the next
\* read finds out (common.go, getHashData).
TruncationSafe ==
  pc = "done" /\ measureLog # Old
  /\ (UefiIntact \/ UefiCutOff \/ host.uefi.source = "missing")
  /\ (TxtReadable \/ host.txt.source = "missing")
  => \A g \in ToSet(measureLog) :
       \E entries \in {UefiEntries, TxtEntries, TxtEntriesRestarted, AppEntries} :
         SelectsPrefix(g, entries)

\* An event whose data the agent panics on.  Events of the TXT log in memory are
\* named and their data is not looked at.
UnreadableData ==
  \/ \E i \in DOMAIN host.uefi.events : Unreadable(host.uefi.events[i])
  \/ /\ host.txt.source = "file"
     /\ \E i \in DOMAIN host.txt.events : Unreadable(host.txt.events[i])

\* measure-log.json of an earlier boot stays, after an init that ends with status
\* 0, only if a log was torn, or the TXT log is not covered by getTxtEventLog's
\* sizes, or there is an event with one of the three kinds of data that
\* getEventTag panics on, or there is no event at all: no other index expression
\* of the parsers panics and no other error loses all logs.
StaleOnlyIfTorn ==
  /\ pc \in {"done", "panicked"}
  /\ UefiIntact \/ host.uefi.source = "missing"
  /\ TxtReadable \/ host.txt.source = "missing"
  /\ AppIntact \/ host.app.source = "missing"
  /\ ~UnreadableData
  /\ \/ UefiIntact /\ host.uefi.events # << >>
     \/ TxtReadable /\ host.txt.events # << >>
     \/ AppIntact /\ host.app.lines # << >>
  => measureLog # Old

\* init ends on every memory: the loop over records does not depend on the log
\* being well formed (createMeasureLog).
InitEnds == <>(pc \in {"done", "panicked"})
=============================================================================
