----------------------------- MODULE MCEventLog -----------------------------
(* Small logs, whole and cut off at every cell, for EventLog.               *)
EXTENDS EventLog, TLC

SHA1 == 4
SHA256 == 11
SHA3 == 39        \* an algorithm the agent does not know

MCDigestSize == (SHA1 :> 1) @@ (SHA256 :> 2)

D1(x) == [alg |-> SHA1, value |-> <<x>>]
D2(x) == [alg |-> SHA256, value |-> <<x, x>>]

Event(pcr, type, digests, data, tags) ==
  [pcr |-> pcr, type |-> type, digests |-> digests, data |-> data, tags |-> tags]

\* One event of each kind of data, in two PCRs and two banks; three are complete
\* and make getEventTag panic.
Separator == Event(0, 4, <<D1(40), D2(41)>>, << >>, << >>)
Variable  == Event(7, Efi(1), <<D2(42)>>, <<9, 2, 1, 65, 0, 66, 0, 5>>, <<<<65, 66>>>>)
Blob      == Event(0, Efi(10), <<D2(43)>>, <<2, 67, 68, 9>>, <<<<67, 68>>>>)
Text      == Event(6, CompactHash, <<D1(44)>>, <<69, Nul, 70>>, <<<<69>>>>)
Locality  == Event(0, NoAction, <<D1(45)>>, <<71, Nul, 3>>, <<<<71, 51>>>>)
Pfr       == Event(0, 17, <<D1(46), D2(47)>>, <<1, 0, 2, 128, 0, 1, 4, 8>> \o pfr \o <<74>>,
                   <<pfr \o <<74>>>>)
Locality0 == Event(0, NoAction, <<D1(45)>>, <<71, Nul>>, << >>)
PfrShort  == Event(0, 17, <<D1(46)>>, <<1, 0, 2, 128, 0, 1, 2, 8, 80, 70>>, << >>)
LongName  == Event(7, Efi(1), <<D2(42)>>, <<9, 2, 0, 65, 0>>, << >>)
Unknown   == Event(0, 4, <<D1(48), [alg |-> SHA3, value |-> <<8, 8>>]>>, << >>, << >>)
Tboot(x)  == Event(17, Event501, <<D2(x)>>, <<1>>, << >>)
Mle       == Event(17, 1028, <<D1(50), D2(51)>>, << >>, << >>)

SpecId == <<0, NoAction, 0, 1, 1>>
Fill(c, n) == [i \in 1 .. n |-> c]

Zeros == 0
Ones  == 255

NoUefi == [source |-> "missing", cells |-> << >>, size |-> 0, events |-> << >>]
NoTxt  == [source |-> "missing", cells |-> << >>, base |-> 0, allocated |-> 0, first |-> 0,
           next |-> 0, events |-> << >>, nextEvents |-> << >>]
NoApp  == [source |-> "missing", lines |-> << >>]

\* The container of the UEFI log ends anywhere, up to four cells after the log.
Uefi(events, fill, n) ==
  [source |-> "memory", events |-> events, size |-> n,
   cells |-> SpecId \o EncodeAll(events) \o Fill(fill, 4)]

UefiFile(events) ==
  [source |-> "file", events |-> events, size |-> 0, cells |-> SpecId \o EncodeAll(events)]

UefiLogs ==
  BoundedSeq({Separator, Variable, Blob, Text, Locality, Pfr, Unknown}, 2)
    \cup {<<Separator, Variable, Separator>>, <<Locality, Pfr, Blob>>}
    \cup {<<Separator, e>> : e \in {Locality0, PfrShort, LongName}}

Uefis == UNION {{Uefi(log, fill, n) : fill \in {Zeros, Ones},
                                      n \in 0 .. Len(EncodeAll(log)) + 9} : log \in UefiLogs}

\* A heap with a container at base, records from the cell first on, a gap, and
\* more records; nextRecordOffset is 0, the end of the first records, the first
\* cell after the gap or past the heap; the heap goes on after the container.
Txt(events, nextEvents, base, first, gap, after, beyond, next) ==
  LET front == Fill(Ones, first) \o SpecId \o EncodeAll(events)
      inner == front \o gap \o EncodeAll(nextEvents)
  IN [source |-> "memory", events |-> events, nextEvents |-> nextEvents, base |-> base,
      first |-> first, cells |-> Fill(Ones, base) \o inner \o after \o beyond,
      allocated |-> Len(inner \o after),
      next |-> CASE next = "none"  -> 0
                 [] next = "end"   -> Len(front)
                 [] next = "set"   -> Len(front \o gap)
                 [] next = "past"  -> Len(inner \o after \o beyond) + 1]

TbootLog(n) == [i \in 1 .. n |-> Tboot(60 + i)]

Txts ==
  {Txt(log, nextLog, base, first, gap, after, beyond, next) :
     log \in {<<Mle>> \o TbootLog(n) : n \in {0, 1, 6}},
     nextLog \in {<< >>, TbootLog(2)}, base \in {0, 2, 9}, first \in {0, 1},
     gap \in {<< >>, <<Ones>>, Fill(Zeros, 2), Fill(Zeros, 3)},
     after \in {<< >>, Fill(Ones, 2), Fill(Zeros, 2), Fill(Zeros, 6)},
     beyond \in {<< >>, Fill(Ones, 2)}, next \in {"none", "end", "set", "past"}}
    \cup {[NoTxt EXCEPT !.source = "file", !.cells = c, !.events = <<Mle>>] :
            c \in {SpecId \o Encode(Mle), <<0>>}}
    \cup {[NoTxt EXCEPT !.source = "file", !.cells = SpecId \o Encode(Locality0),
                         !.events = <<Locality0>>]}

Line(pcr, bank, x) == [fields |-> 4, number |-> TRUE, pcr |-> pcr, bank |-> bank,
                       tag |-> <<x>>, measurement |-> <<x>>]

Lines == {Line(15, SHA1, 80), Line(15, SHA256, 81), Line(14, SHA256, 82),
          [Line(15, SHA1, 83) EXCEPT !.fields = 1], [Line(15, SHA1, 84) EXCEPT !.fields = 3],
          [Line(15, SHA1, 85) EXCEPT !.number = FALSE]}

Apps == {NoApp} \cup {[source |-> "file", lines |-> l] : l \in BoundedSeq(Lines, 3)}

OneApp  == [source |-> "file", lines |-> <<Line(15, SHA256, 81)>>]
OneUefi == Uefi(<<Separator>>, Zeros, 15)
OneTxt  == Txt(<<Mle>>, << >>, 0, 0, << >>, Fill(Zeros, 6), << >>, "end")

MCHosts ==
  {[uefi |-> u, txt |-> OneTxt, app |-> OneApp] : u \in Uefis \cup {NoUefi, UefiFile(<<Pfr>>)}}
    \cup {[uefi |-> OneUefi, txt |-> t, app |-> OneApp] : t \in Txts \cup {NoTxt}}
    \cup {[uefi |-> u, txt |-> NoTxt, app |-> a] : u \in {NoUefi, OneUefi}, a \in Apps}
=============================================================================
