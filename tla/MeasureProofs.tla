---------------------------- MODULE MeasureProofs ---------------------------
(***************************************************************************)
(* The files of /tmp that measure processes share, for any number of       *)
(* processes, any manifests and any directories.                           *)
(***************************************************************************)
EXTENDS Measure, SequenceTheorems, FiniteSetTheorems, WellFoundedInduction, TLAPS

Fields == {"pc", "i", "fq", "out", "off", "sum", "dir", "tw", "fd", "pos", "buf", "len", "xml"}

\* Every process has a state.
ProcessesOK == DOMAIN m = Procs /\ \A p \in Procs : DOMAIN m[p] = Fields

\* It has both files still to remove.
Owner(p) == m[p].pc \notin {"start", "done", "removeList"}

\* A file in /tmp has a process that will remove it.
OwnedInv ==
  \/ killed
  \/ /\ link["measurement"] # NoFile => \E p \in Procs : Owner(p)
     /\ link["temp"] # NoFile => \E p \in Procs : Running(p)

TmpInv == ProcessesOK /\ DOMAIN link = Files /\ OwnedInv

\* p goes to the state r.
Becomes(p, r) == m' = [m EXCEPT ![p] = r] /\ DOMAIN r = Fields

LEMMA BecomesOK ==
  ASSUME ProcessesOK, NEW p \in Procs, NEW r, Becomes(p, r)
  PROVE  /\ ProcessesOK' /\ m'[p] = r
         /\ \A q \in Procs : q # p => m'[q] = m[q]
BY DEF ProcessesOK, Becomes

\* A cell that is written leaves the process where next says.
LEMMA EmitGoesOn ==
  ASSUME ProcessesOK, NEW p \in Procs, NEW cell, NEW next, DOMAIN next = Fields,
         next.pc \notin {"start", "done", "removeList"}, Emit(p, cell, next)
  PROVE  \E r : Becomes(p, r) /\ r.pc \notin {"start", "done", "removeList"}
<1> DEFINE out == Append(m[p].out, cell)
           full == Len(out) >= WriteBlock
           r == [next EXCEPT
                  !.sum = Append(m[p].sum, cell),
                  !.out = IF full THEN <<>> ELSE out,
                  !.off = IF full THEN m[p].off + Len(out) ELSE m[p].off]
<1>1. m' = [m EXCEPT ![p] = r]
  BY DEF Emit
<1>2. DOMAIN r = Fields /\ r.pc = next.pc
  <2> HIDE DEF out, full
  <2> QED
    OBVIOUS
<1> HIDE DEF r
<1> QED
  BY <1>1, <1>2 DEF Becomes

LEMMA PathGoesOn ==
  ASSUME ProcessesOK, NEW p \in Procs, NEW path, NEW rest, DOMAIN rest = Fields,
         rest.pc \notin {"start", "done", "removeList"}, MeasurePath(p, path, rest)
  PROVE  \E r : Becomes(p, r) /\ r.pc \notin {"start", "done", "removeList"}
<1>1. CASE Emit(p, <<"file", path>>, rest)
  BY <1>1, EmitGoesOn
<1>2. CASE m' = [m EXCEPT ![p] = [rest EXCEPT !.pc = "dirOpen", !.dir = path]]
  <2> DEFINE r == [rest EXCEPT !.pc = "dirOpen", !.dir = path]
  <2>1. DOMAIN r = Fields /\ r.pc = "dirOpen"
    OBVIOUS
  <2> HIDE DEF r
  <2>2. m' = [m EXCEPT ![p] = r]
    BY <1>2 DEF r
  <2> QED
    BY <2>1, <2>2 DEF Becomes
<1>3. CASE m' = [m EXCEPT ![p] = rest]
  BY <1>3 DEF Becomes
<1> QED
  BY <1>1, <1>2, <1>3 DEF MeasurePath

\* Until it removes its files, only a signal stops a process.
LEMMA StepGoesOn ==
  ASSUME ProcessesOK, NEW p \in Procs, Start(p) \/ (Step(p) /\ ~RemoveMeasurement(p) /\ ~RemoveList(p))
  PROVE  /\ ProcessesOK' /\ Owner(p)'
         /\ \A q \in Procs : q # p => m'[q] = m[q]
<1>0. DOMAIN m[p] = Fields /\ p \in DOMAIN m
  BY DEF ProcessesOK
<1>run. ASSUME \E r : Becomes(p, r) /\ r.pc \notin {"start", "done", "removeList"}
      PROVE  /\ ProcessesOK' /\ Owner(p)'
             /\ \A q \in Procs : q # p => m'[q] = m[q]
  BY <1>run, BecomesOK DEF Owner
<1>1. CASE Start(p)
  BY <1>0, <1>1 DEF Start, ProcessesOK, Owner
<1>2. CASE MeasureEntry(p)
  <2> DEFINE rest == [m[p] EXCEPT !.i = m[p].i + 1]
  <2>1. DOMAIN rest = Fields /\ rest.pc = "next"
    BY <1>0, <1>2 DEF MeasureEntry
  <2>2. MeasurePath(p, Entry(p).path, rest)
    BY <1>2 DEF MeasureEntry
  <2> HIDE DEF rest
  <2> QED
    BY <1>run, <2>1, <2>2, PathGoesOn
<1>3. CASE SearchOpen(p) \/ DirOpen(p)
  <2>1. CASE SearchOpen(p)
    BY <1>0, <2>1 DEF SearchOpen, ProcessesOK, Owner
  <2>2. CASE DirOpen(p)
    BY <1>0, <2>2 DEF DirOpen, ProcessesOK, Owner
  <2> QED
    BY <1>3, <2>1, <2>2
<1>4. CASE SearchWrite(p) \/ DirWrite(p) \/ SearchFails(p)
  <2>1. CASE SearchWrite(p)
    BY <1>0, <2>1 DEF SearchWrite, ProcessesOK, Owner
  <2>2. CASE DirWrite(p)
    BY <1>0, <2>2 DEF DirWrite, ProcessesOK, Owner
  <2>3. CASE SearchFails(p)
    BY <1>0, <2>3 DEF SearchFails, ProcessesOK, Owner
  <2> QED
    BY <1>4, <2>1, <2>2, <2>3
<1>5. CASE SearchRead(p)
  <2>1. CASE m' = [m EXCEPT ![p].pc = "match", ![p].fd = link["temp"], ![p].pos = 0,
                           ![p].buf = <<>>]
    BY <1>0, <2>1 DEF ProcessesOK, Owner
  <2>2. CASE m' = [m EXCEPT ![p].pc = "next", ![p].i = m[p].i + 1]
    BY <1>0, <2>2 DEF ProcessesOK, Owner
  <2> QED
    BY <1>5, <2>1, <2>2 DEF SearchRead
<1>6. CASE Refill(p)
  <2>1. PICK block : \/ m' = [m EXCEPT ![p].buf = block, ![p].pos = m[p].pos + Len(block)]
                     \/ m' = [m EXCEPT ![p].pc = "next", ![p].i = m[p].i + 1,
                                      ![p].fd = NoFile]
    BY <1>6 DEF Refill
  <2>2. CASE m' = [m EXCEPT ![p].buf = block, ![p].pos = m[p].pos + Len(block)]
    <3>1. m[p].pc = "match"
      BY <1>6 DEF Refill
    <3> QED
      BY <1>0, <2>2, <3>1 DEF ProcessesOK, Owner
  <2>3. CASE m' = [m EXCEPT ![p].pc = "next", ![p].i = m[p].i + 1, ![p].fd = NoFile]
    BY <1>0, <2>3 DEF ProcessesOK, Owner
  <2> QED
    BY <2>1, <2>2, <2>3
<1>7. CASE Match(p)
  <2> DEFINE rest == [m[p] EXCEPT !.buf = Tail(m[p].buf)]
  <2>1. DOMAIN rest = Fields /\ rest.pc = "match"
    BY <1>0, <1>7 DEF Match
  <2>2. MeasurePath(p, Head(m[p].buf), rest)
    BY <1>7 DEF Match
  <2> HIDE DEF rest
  <2> QED
    BY <1>run, <2>1, <2>2, PathGoesOn
<1>8. CASE DirRead(p)
  <2> DEFINE back == IF m[p].fd # NoFile THEN [m[p] EXCEPT !.pc = "match"]
                     ELSE [m[p] EXCEPT !.pc = "next"]
  <2>1. DOMAIN back = Fields /\ back.pc \notin {"start", "done", "removeList"}
    BY <1>0
  <2>2. \/ Emit(p, <<"dir", m[p].dir, data[link["temp"]]>>, back)
        \/ m' = [m EXCEPT ![p] = back]
    BY <1>8 DEF DirRead
  <2> HIDE DEF back
  <2> QED
    BY <1>run, <2>1, <2>2, EmitGoesOn DEF Becomes
<1>9. CASE Close(p) \/ GiveUp(p)
  <2>1. ASSUME NEW pc \in {"read", "remove"}, m' = [m EXCEPT ![p] = [NotStarted EXCEPT !.pc = pc]]
        PROVE  \E r : Becomes(p, r) /\ r.pc \notin {"start", "done", "removeList"}
    <3>1. PICK r : r = [NotStarted EXCEPT !.pc = pc]
      OBVIOUS
    <3>2. DOMAIN r = Fields /\ r.pc = pc
      BY <3>1 DEF NotStarted, Fields
    <3> QED BY <2>1, <3>1, <3>2 DEF Becomes
  <2>2. \/ m' = [m EXCEPT ![p] = [NotStarted EXCEPT !.pc = "read"]]
        \/ m' = [m EXCEPT ![p] = [NotStarted EXCEPT !.pc = "remove"]]
    BY <1>9 DEF Close, GiveUp
  <2> QED BY <1>run, <2>1, <2>2
<1>10. CASE ReadLength(p)
  <2>1. CASE m' = [m EXCEPT ![p].pc = "fread", ![p].fd = link["measurement"],
                           ![p].len = Len(data[link["measurement"]])]
    BY <1>0, <2>1 DEF ProcessesOK, Owner
  <2>2. CASE m' = [m EXCEPT ![p].pc = "remove"]
    BY <1>0, <2>2 DEF ProcessesOK, Owner
  <2> QED
    BY <1>10, <2>1, <2>2 DEF ReadLength
<1>11. CASE Read(p)
  BY <1>0, <1>11 DEF Read, ProcessesOK, Owner
<1> QED
  BY <1>1, <1>2, <1>3, <1>4, <1>5, <1>6, <1>7, <1>8, <1>9, <1>10, <1>11 DEF Step

\* Then it removes one of them and goes on, and the other one, and ends.
LEMMA RemoveGoesOn ==
  ASSUME ProcessesOK, NEW p \in Procs, RemoveMeasurement(p)
  PROVE  /\ ProcessesOK' /\ m'[p] = [m[p] EXCEPT !.pc = "removeList"]
         /\ m'[p].pc = "removeList" /\ m'[p].xml = m[p].xml
         /\ \A q \in Procs : q # p => m'[q] = m[q]
<1>1. PICK r : r = [m[p] EXCEPT !.pc = "removeList"]
  OBVIOUS
<1>2. DOMAIN r = Fields /\ r.pc = "removeList" /\ r.xml = m[p].xml
  BY <1>1 DEF ProcessesOK, Fields
<1>3. m' = [m EXCEPT ![p] = r]
  BY <1>1 DEF RemoveMeasurement
<1> QED BY <1>1, <1>2, <1>3, BecomesOK DEF Becomes

\* There are no other names in /tmp.
LEMMA NamesStay == DOMAIN link = Files /\ [Next]_vars => DOMAIN link' = Files
<1> SUFFICES ASSUME DOMAIN link = Files, [Next]_vars PROVE DOMAIN link' = Files
  OBVIOUS
<1>1. ASSUME NEW p \in Procs, Start(p) \/ SearchOpen(p) \/ DirOpen(p) PROVE DOMAIN link' = Files
  BY <1>1 DEF Start, SearchOpen, DirOpen, Truncate
<1>2. ASSUME NEW p \in Procs, RemoveMeasurement(p) \/ RemoveList(p) PROVE DOMAIN link' = Files
  BY <1>2 DEF RemoveMeasurement, RemoveList
<1>3. ASSUME NEW p \in Procs, \/ MeasureEntry(p) \/ Match(p) \/ SearchWrite(p) \/ SearchFails(p)
                               \/ DirWrite(p) \/ Close(p) \/ GiveUp(p)
      PROVE  link' = link
  BY <1>3 DEF MeasureEntry, Match, SearchWrite, SearchFails, DirWrite, Close, GiveUp
<1>4. ASSUME NEW p \in Procs, \/ DirRead(p) \/ SearchRead(p) \/ Refill(p) \/ ReadLength(p)
                               \/ Read(p) \/ Kill(p)
      PROVE  link' = link
  BY <1>4 DEF DirRead, SearchRead, Refill, ReadLength, Read, Kill
<1>5. CASE UNCHANGED vars
  BY <1>5 DEF vars
<1> QED
  BY <1>1, <1>2, <1>3, <1>4, <1>5 DEF Next, Step

LEMMA TmpStep == TmpInv /\ [Next]_vars => TmpInv'
<1> SUFFICES ASSUME TmpInv, [Next]_vars PROVE TmpInv'
  OBVIOUS
<1>0. ProcessesOK /\ OwnedInv /\ DOMAIN link = Files /\ DOMAIN link' = Files
  BY NamesStay DEF TmpInv
<1>1. ASSUME NEW p \in Procs, Start(p) \/ (Step(p) /\ ~RemoveMeasurement(p) /\ ~RemoveList(p))
      PROVE  TmpInv'
  <2>1. ProcessesOK' /\ Owner(p)'
    BY <1>0, <1>1, StepGoesOn
  <2>2. Running(p)'
    BY <2>1 DEF Owner, Running
  <2> QED
    BY <1>0, <2>1, <2>2 DEF TmpInv, OwnedInv
<1>5. ASSUME NEW p \in Procs, RemoveMeasurement(p) PROVE TmpInv'
  <2>1. ProcessesOK' /\ m'[p].pc = "removeList"
    BY <1>0, <1>5, RemoveGoesOn
  <2>2. link' = [link EXCEPT !["measurement"] = NoFile]
    BY <1>5 DEF RemoveMeasurement
  <2>3. Running(p)'
    BY <2>1 DEF Running
  <2>4. link'["measurement"] = NoFile
    BY <1>0, <2>2 DEF Files
  <2> QED
    BY <1>0, <2>1, <2>3, <2>4 DEF TmpInv, OwnedInv
<1>2. ASSUME NEW p \in Procs, RemoveList(p) PROVE TmpInv'
  <2> DEFINE r == [NotStarted EXCEPT !.pc = "done", !.xml = m[p].xml]
  <2>1. DOMAIN r = Fields
    BY DEF NotStarted, Fields
  <2>2. m' = [m EXCEPT ![p] = r] /\ link' = [link EXCEPT !["temp"] = NoFile]
    BY <1>2 DEF RemoveList
  <2> HIDE DEF r
  <2>3. ProcessesOK' /\ \A q \in Procs : q # p => m'[q] = m[q]
    BY <1>0, <2>1, <2>2, BecomesOK DEF Becomes
  <2>4. ~Owner(p) /\ killed' = killed
    BY <1>2 DEF RemoveList, Owner
  <2>5. \A q \in Procs : Owner(q) => Owner(q)'
    BY <2>3, <2>4 DEF Owner
  <2>6. link'["temp"] = NoFile /\ link'["measurement"] = link["measurement"]
    BY <1>0, <2>2 DEF Files
  <2> QED
    BY <1>0, <2>3, <2>4, <2>5, <2>6 DEF TmpInv, OwnedInv
<1>3. ASSUME NEW p \in Procs, Kill(p) PROVE TmpInv'
  <2> DEFINE r == [NotStarted EXCEPT !.pc = "done"]
  <2>1. DOMAIN r = Fields
    BY DEF NotStarted, Fields
  <2>2. m' = [m EXCEPT ![p] = r] /\ killed' = TRUE
    BY <1>3 DEF Kill
  <2> HIDE DEF r
  <2>3. ProcessesOK'
    BY <1>0, <2>1, <2>2, BecomesOK DEF Becomes
  <2> QED
    BY <1>0, <2>2, <2>3 DEF TmpInv, OwnedInv
<1>4. CASE UNCHANGED vars
  BY <1>0, <1>4 DEF vars, TmpInv, OwnedInv, ProcessesOK, Running, Owner
<1> QED
  BY <1>1, <1>2, <1>3, <1>4, <1>5 DEF Next

\* When the last of any number of overlapping measure processes has ended, and
\* none was killed, neither of the two files is left in /tmp, although each of
\* them removes what others still use and may create it again.
THEOREM TmpIsCleaned == Spec => []NothingLeft
<1>1. Init => TmpInv
  <2>1. ASSUME Init PROVE ProcessesOK
    BY <2>1 DEF Init, ProcessesOK, NotStarted, Fields
  <2>2. ASSUME Init PROVE DOMAIN link = Files /\ OwnedInv
    BY <2>2 DEF Init, OwnedInv, Files
  <2> QED BY <2>1, <2>2 DEF TmpInv
<1>2. TmpInv => NothingLeft
  BY DEF TmpInv, OwnedInv, NothingLeft, Owner, Running, Files
<1> QED
  BY <1>1, <1>2, TmpStep, PTL DEF Spec
-----------------------------------------------------------------------------
(* A process that no other one overlaps.                                    *)

\* What a measurement is made of.
MCells == {<<"header", p>> : p \in Procs} \cup ({"file"} \X STRING)
            \cup ({"dir"} \X STRING \X Seq(STRING))

\* The items of the entries before the i-th, and of the first n paths of that.
Before(p, i, n) == {x \in Items(p) : x[1] < i \/ (x[1] = i /\ x[2] <= n)}

\* The cells are those of the items, in their order.
Measures(p, cells, items) ==
  /\ cells \in Seq(MCells) /\ Len(cells) = Cardinality(items)
  /\ \A x \in items : cells[Rank(items, x)] = CellAt(p, x)
  /\ \A n \in 1 .. Len(cells) : \E x \in items : Rank(items, x) = n

\* Cell k of the result.
Line(p, sum, k) == IF k = 1 THEN <<"header", p>> ELSE sum[k - 1]

\* r is the state of p, lk and dt are link and data.  What is in the result file
\* and in the buffer of its stream is the header and what was hashed.
Writes(p, r, lk, dt) ==
  /\ r.fq \in Inodes /\ lk["measurement"] = r.fq
  /\ r.sum \in Seq(MCells) /\ r.out \in Seq(MCells) /\ dt[r.fq] \in Seq(MCells)
  /\ r.off = Len(dt[r.fq]) /\ Len(dt[r.fq]) + Len(r.out) = 1 + Len(r.sum)
  /\ \A k \in 1 .. Len(dt[r.fq]) : dt[r.fq][k] = Line(p, r.sum, k)
  /\ \A k \in 1 .. Len(r.out) : r.out[k] = Line(p, r.sum, Len(dt[r.fq]) + k)

NoDirs(s) == \A k \in 1 .. Len(s) : ~Exists("dir", s[k])

\* buf has the elements of list from n + 1 to b.
Between(list, n, b, buf) == Len(buf) = b - n /\ \A k \in 1 .. b - n : buf[k] = list[n + k]

\* The search of entry r.i has taken n of its matches.  Its list may have become
\* that of a directory, but not before all of it was in the buffer.
Streams(p, r, lk, dt, n) ==
  LET e    == Manifest[p][r.i]
      list == Matches[e.path]
  IN /\ r.i \in 1 .. Len(Manifest[p]) /\ e.search
     /\ r.fd = lk["temp"] /\ r.fd \in Inodes
     /\ r.pos \in Nat /\ r.buf \in Seq(STRING) /\ dt[r.fd] \in Seq(STRING)
     /\ n \in 0 .. Len(list)
     /\ IF e.kind = "file" \/ r.pos = 0
        THEN dt[r.fd] = list /\ r.pos \in n .. Len(list) /\ Between(list, n, r.pos, r.buf)
        ELSE /\ r.pos >= Len(list) /\ (dt[r.fd] = list \/ NoDirs(dt[r.fd]))
             /\ \/ Between(list, n, Len(list), r.buf)
                \/ n = Len(list) /\ NoDirs(r.buf)

\* Path n of entry k, a directory, is about to be hashed.
Pending(p, r, lk, dt, k, n) ==
  /\ <<k, n>> \in Items(p) /\ Manifest[p][k].kind = "dir"
  /\ r.dir = Paths(Manifest[p][k])[n]
  /\ Measures(p, r.sum, Before(p, k, n - 1))
  /\ IF r.fd = NoFile THEN r.i = k + 1 /\ ~Manifest[p][k].search
     ELSE k = r.i /\ Streams(p, r, lk, dt, n)

\* The list file is made and empty.
TempEmpty(r, lk, dt) == r.tw = lk["temp"] /\ r.tw \in Inodes /\ dt[r.tw] = <<>>

TempHolds(lk, dt, list) == lk["temp"] \in Inodes /\ dt[lk["temp"]] = list

\* It is about to search for entry r.i.
Searches(p, r) ==
  /\ r.i \in 1 .. Len(Manifest[p]) /\ Manifest[p][r.i].search
  /\ r.fd = NoFile /\ Measures(p, r.sum, Before(p, r.i, 0))

Works(p, r, lk, dt) ==
  \/ /\ r.pc = "next" /\ r.i \in 1 .. Len(Manifest[p]) + 1 /\ r.fd = NoFile
     /\ Measures(p, r.sum, Before(p, r.i, 0))
  \/ r.pc = "searchWrite" /\ Searches(p, r) /\ TempEmpty(r, lk, dt)
  \/ /\ r.pc = "searchRead" /\ Searches(p, r)
     /\ TempHolds(lk, dt, Matches[Manifest[p][r.i].path])
  \/ /\ r.pc = "match"
     /\ \E n \in 0 .. Len(Matches[Manifest[p][r.i].path]) :
          Streams(p, r, lk, dt, n) /\ Measures(p, r.sum, Before(p, r.i, n))
  \/ /\ r.pc \in {"dirOpen", "dirWrite", "dirRead"}
     /\ \E x \in Items(p) : Pending(p, r, lk, dt, x[1], x[2])
     /\ r.pc = "dirWrite" => TempEmpty(r, lk, dt)
     /\ r.pc = "dirRead" => TempHolds(lk, dt, Listing[r.dir])

Solo(p, r, lk, dt) ==
  IF ~Digest[p] THEN r.pc \in {"giveUp", "remove", "removeList"} /\ r.xml = Null
  ELSE \/ Writes(p, r, lk, dt) /\ Works(p, r, lk, dt)
       \/ /\ r.pc = "read" /\ lk["measurement"] \in Inodes
          /\ dt[lk["measurement"]] = Reference(p)
       \/ /\ r.pc = "fread" /\ r.fd \in Inodes
          /\ dt[r.fd] = Reference(p) /\ r.len = Len(Reference(p))
       \/ r.pc \in {"remove", "removeList"} /\ r.xml = Reference(p)

Result(p) == IF Digest[p] THEN Reference(p) ELSE Null

\* Files are inodes, and no two files are the same.
LinksInv ==
  /\ link \in [Files -> Inodes \cup {NoFile}] /\ DOMAIN data = Inodes
  /\ link["measurement"] = link["temp"] => link["temp"] = NoFile

StatesInv ==
  ProcessesOK /\ \A p \in Procs : m[p].pc = "start" => m[p] = NotStarted

SoloInv ==
  /\ alone \subseteq Procs
  /\ \A p \in alone :
       /\ m[p].pc # "start"
       /\ Running(p) => \A q \in Procs : Running(q) => q = p
       /\ SearchesFit(p) =>
            IF Running(p) THEN Solo(p, m[p], link, data) ELSE m[p].xml = Result(p)

MeasureInv == LinksInv /\ StatesInv /\ SoloInv

-----------------------------------------------------------------------------
(* There is always an inode for a new file.                                 *)

LEMMA LeastNatural ==
  ASSUME NEW T \in SUBSET Nat, T # {}
  PROVE  \E x \in T : \A y \in T : x <= y
<1> DEFINE R == OpToRel(<, Nat)
<1>1. IsWellFoundedOn(R, Nat)
  BY NatLessThanWellFounded
<1>2. \E x \in T : \A y \in T : ~ (<<y, x>> \in R)
  <2> HIDE DEF R
  <2> QED BY <1>1, WFMin
<1>3. \A x, y \in Nat : y < x => <<y, x>> \in R
  BY DEF OpToRel
<1>4. PICK x \in T : \A y \in T : ~ (<<y, x>> \in R)
  BY <1>2
<1>5. \A y \in T : ~ (y < x)
  <2> HIDE DEF R
  <2> QED BY <1>3, <1>4
<1> QED BY <1>5

\* Each process uses three at most, and the other file one.
LEMMA FreshInode ==
  ASSUME NEW f \in Files, link[f] = NoFile
  PROVE  Fresh \in Inodes /\ ~InUse(Fresh)
<1> DEFINE K == Procs \X (1 .. 3)
           g == [x \in K |-> IF x[2] = 1 THEN m[x[1]].fq
                             ELSE IF x[2] = 2 THEN m[x[1]].tw ELSE m[x[1]].fd]
           img == {g[x] : x \in K}
           other == IF f = "temp" THEN link["measurement"] ELSE link["temp"]
           bound == img \cup {other}
<1>1. PICK c \in Nat : c = Cardinality(Procs)
  BY MeasureAssumption, FS_CardinalityType
<1>2. IsFiniteSet(K) /\ Cardinality(K) = c * 3
  <2>1. IsFiniteSet(1 .. 3) /\ Cardinality(1 .. 3) = 3
    <3>1. 1 \in Int /\ 3 \in Int /\ ~ (1 > 3) /\ (3 - 1) + 1 = 3
      OBVIOUS
    <3> QED BY <3>1, FS_Interval
  <2> QED BY <1>1, <2>1, MeasureAssumption, FS_Product
<1>3. g \in Surjection(K, img)
  <2>1. g \in [K -> img]
    OBVIOUS
  <2> HIDE DEF g
  <2> QED BY <2>1 DEF Surjection
<1>4. IsFiniteSet(img) /\ Cardinality(img) <= c * 3
  <2> HIDE DEF K, g, img
  <2> QED BY <1>2, <1>3, FS_Surjection
<1>5. IsFiniteSet(bound) /\ Cardinality(bound) <= c * 3 + 1
  <2>1. Cardinality(img) \in Nat
    BY <1>4, FS_CardinalityType
  <2> HIDE DEF img, other
  <2> QED BY <1>4, <2>1, FS_AddElement
<1>6. ASSUME NEW n \in Inodes, InUse(n) PROVE n \in bound
  <2>1. CASE \E h \in Files : link[h] = n
    <3>1. n # NoFile
      BY DEF Inodes, NoFile
    <3> QED BY <2>1, <3>1 DEF Files
  <2>2. CASE \E q \in Procs : Running(q) /\ n \in {m[q].fq, m[q].tw, m[q].fd}
    <3>1. PICK q \in Procs : n \in {m[q].fq, m[q].tw, m[q].fd}
      BY <2>2
    <3>2. <<q, 1>> \in K /\ <<q, 2>> \in K /\ <<q, 3>> \in K
      OBVIOUS
    <3>3. g[<<q, 1>>] = m[q].fq /\ g[<<q, 2>>] = m[q].tw /\ g[<<q, 3>>] = m[q].fd
      BY <3>2
    <3> HIDE DEF g, K
    <3> QED BY <3>1, <3>2, <3>3
  <2> QED BY <1>6, <2>1, <2>2 DEF InUse
<1>7. \E n \in Inodes : ~InUse(n)
  <2> SUFFICES ASSUME \A n \in Inodes : InUse(n) PROVE FALSE
    OBVIOUS
  <2> HIDE DEF bound
  <2>1. Inodes \in SUBSET bound
    BY <1>6
  <2>2. Cardinality(Inodes) <= Cardinality(bound)
    BY <2>1, <1>5, FS_Subset
  <2>3. Cardinality(Inodes) = 2 + 3 * c
    <3>1. 2 + 3 * c \in Int /\ 2 + 3 * c >= 1
      OBVIOUS
    <3>2. Inodes = 1 .. 2 + 3 * c
      BY <1>1 DEF Inodes
    <3>3. Cardinality(1 .. 2 + 3 * c) = ((2 + 3 * c) - 1) + 1
      BY <3>1, FS_Interval
    <3> QED BY <3>2, <3>3
  <2>4. Cardinality(bound) \in Nat
    BY <1>5, FS_CardinalityType
  <2> QED BY <2>2, <2>3, <2>4, <1>5
<1>8. PICK n \in Inodes : ~InUse(n) /\ \A k \in Inodes : ~InUse(k) => n <= k
  <2>1. {n \in Inodes : ~InUse(n)} \in SUBSET Nat
    BY DEF Inodes
  <2> QED BY <1>7, <2>1, LeastNatural
<1>9. \A k \in 1 .. n - 1 : InUse(k)
  <2>1. \A k \in 1 .. n - 1 : k \in Inodes /\ ~ (n <= k)
    BY <1>1 DEF Inodes
  <2> QED BY <1>8, <2>1
<1> QED BY <1>8, <1>9 DEF Fresh

-----------------------------------------------------------------------------
(* What is to be measured, in which order.                                  *)

LEMMA ManifestTyped ==
  ASSUME NEW p \in Procs
  PROVE  /\ Manifest[p] \in Seq([kind : {"file", "dir"}, search : BOOLEAN, path : STRING])
         /\ Len(Manifest[p]) \in Nat /\ DOMAIN Manifest[p] = 1 .. Len(Manifest[p])
         /\ Digest[p] \in BOOLEAN
<1>1. Manifest[p] \in Seq([kind : {"file", "dir"}, search : BOOLEAN, path : STRING])
  BY MeasureAssumption
<1>2. PICK M \in Seq([kind : {"file", "dir"}, search : BOOLEAN, path : STRING]) : M = Manifest[p]
  BY <1>1
<1>3. Len(M) \in Nat /\ DOMAIN M = 1 .. Len(M)
  BY <1>2
<1> QED BY <1>1, <1>2, <1>3, MeasureAssumption

LEMMA EntryTyped ==
  ASSUME NEW p \in Procs, NEW k \in 1 .. Len(Manifest[p]), NEW e, e = Manifest[p][k]
  PROVE  /\ e.kind \in {"file", "dir"} /\ e.search \in BOOLEAN /\ e.path \in STRING
         /\ Paths(e) \in Seq(STRING) /\ Len(Paths(e)) \in Nat
         /\ DOMAIN Paths(e) = 1 .. Len(Paths(e))
         /\ e.search => Paths(e) = Matches[e.path]
         /\ ~e.search => Len(Paths(e)) = 1 /\ Paths(e)[1] = e.path
         /\ e.search /\ e.path \in NoBase => Len(Paths(e)) = 0
<1>1. e \in [kind : {"file", "dir"}, search : BOOLEAN, path : STRING]
  <2>1. PICK T : T = [kind : {"file", "dir"}, search : BOOLEAN, path : STRING]
    OBVIOUS
  <2>2. PICK M \in Seq(T) : M = Manifest[p]
    BY <2>1, ManifestTyped
  <2>3. \A h \in 1 .. Len(M) : M[h] \in T
    OBVIOUS
  <2>4. e \in T
    BY <2>2, <2>3
  <2> QED BY <2>1, <2>4
<1>2. /\ e.search => Matches[e.path] \in Seq(STRING)
      /\ e.search /\ e.path \in NoBase => Matches[e.path] = <<>>
  BY ManifestTyped, MeasureAssumption
<1>3. e.kind \in {"file", "dir"} /\ e.search \in BOOLEAN /\ e.path \in STRING
  BY <1>1
<1>4. PICK s \in Seq(STRING) : s = Paths(e)
  <2>1. CASE e.search
    BY <2>1, <1>2 DEF Paths
  <2>2. CASE ~e.search
    <3>1. PICK path \in STRING : path = e.path
      BY <1>3
    <3>2. <<path>> \in Seq(STRING)
      <4>1. PICK T : T = STRING
        OBVIOUS
      <4>2. PICK y \in T : y = path
        BY <4>1, <3>1
      <4>3. <<y>> \in Seq(T)
        OBVIOUS
      <4> QED BY <4>1, <4>2, <4>3
    <3>3. Paths(e) = <<path>>
      BY <2>2, <3>1 DEF Paths
    <3> QED BY <3>2, <3>3
  <2> QED BY <2>1, <2>2, <1>3
<1>5. Len(s) \in Nat /\ DOMAIN s = 1 .. Len(s)
  OBVIOUS
<1>6. e.search => Paths(e) = Matches[e.path]
  BY DEF Paths
<1>7. ~e.search => Len(Paths(e)) = 1 /\ Paths(e)[1] = e.path
  BY <1>3 DEF Paths
<1>8. e.search /\ e.path \in NoBase => Len(Paths(e)) = 0
  BY <1>2, <1>6
<1> QED BY <1>3, <1>4, <1>5, <1>6, <1>7, <1>8

LEMMA ItemAt ==
  ASSUME NEW p \in Procs, NEW k \in 1 .. Len(Manifest[p]),
         NEW n \in 1 .. Len(Paths(Manifest[p][k]))
  PROVE  <<k, n>> \in Items(p) <=> Exists(Manifest[p][k].kind, Paths(Manifest[p][k])[n])
<1>1. k \in DOMAIN Manifest[p]
  BY ManifestTyped
<1>2. n \in DOMAIN Paths(Manifest[p][k])
  BY EntryTyped
<1>3. <<k, n>> \in {k} \X DOMAIN Paths(Manifest[p][k])
  BY <1>2
<1>4. <<k, n>> \in UNION {{h} \X DOMAIN Paths(Manifest[p][h]) : h \in DOMAIN Manifest[p]}
  BY <1>1, <1>3
<1>5. <<k, n>>[1] = k /\ <<k, n>>[2] = n
  OBVIOUS
<1> QED BY <1>4, <1>5 DEF Items

LEMMA ItemParts ==
  ASSUME NEW p \in Procs, NEW x \in Items(p)
  PROVE  /\ x = <<x[1], x[2]>> /\ x[1] \in 1 .. Len(Manifest[p])
         /\ x[2] \in 1 .. Len(Paths(Manifest[p][x[1]]))
         /\ Exists(Manifest[p][x[1]].kind, Paths(Manifest[p][x[1]])[x[2]])
<1>1. PICK k \in DOMAIN Manifest[p] : x \in {k} \X DOMAIN Paths(Manifest[p][k])
  BY DEF Items
<1>2. k \in 1 .. Len(Manifest[p])
  BY <1>1, ManifestTyped
<1>3. x = <<x[1], x[2]>> /\ x[1] = k /\ x[2] \in DOMAIN Paths(Manifest[p][k])
  BY <1>1
<1>4. x[2] \in 1 .. Len(Paths(Manifest[p][k]))
  BY <1>2, <1>3, EntryTyped
<1> QED BY <1>2, <1>3, <1>4 DEF Items

LEMMA ItemsFinite ==
  ASSUME NEW p \in Procs
  PROVE  IsFiniteSet(Items(p))
<1> DEFINE K == 1 .. Len(Manifest[p])
           g == [k \in K |-> {k} \X DOMAIN Paths(Manifest[p][k])]
           img == {g[k] : k \in K}
<1>1. IsFiniteSet(K)
  BY ManifestTyped, FS_Interval
<1>2. g \in Surjection(K, img)
  <2>1. g \in [K -> img]
    OBVIOUS
  <2> HIDE DEF g
  <2> QED BY <2>1 DEF Surjection
<1>3. IsFiniteSet(img)
  <2> HIDE DEF K, g, img
  <2> QED BY <1>1, <1>2, FS_Surjection
<1>4. ASSUME NEW k \in K PROVE IsFiniteSet({k} \X DOMAIN Paths(Manifest[p][k]))
  <2>1. IsFiniteSet({k})
    BY FS_Singleton
  <2>2. PICK l \in Nat : DOMAIN Paths(Manifest[p][k]) = 1 .. l
    BY EntryTyped
  <2>3. IsFiniteSet(1 .. l)
    BY FS_Interval
  <2> QED BY <2>1, <2>2, <2>3, FS_Product
<1>5. IsFiniteSet(UNION img)
  <2>1. \A T \in img : IsFiniteSet(T)
    BY <1>4
  <2> HIDE DEF img
  <2> QED BY <2>1, <1>3, FS_UNION
<1>6. Items(p) \in SUBSET UNION img
  <2>1. UNION img = UNION {{k} \X DOMAIN Paths(Manifest[p][k]) : k \in DOMAIN Manifest[p]}
    BY ManifestTyped
  <2> HIDE DEF img
  <2> QED BY <2>1 DEF Items
<1> HIDE DEF img
<1> QED BY <1>5, <1>6, FS_Subset

LEMMA CellTyped ==
  ASSUME NEW p \in Procs, NEW x \in Items(p)
  PROVE  CellAt(p, x) \in MCells
<1>1. PICK k, n, e, path : /\ x = <<k, n>> /\ k = x[1] /\ n = x[2] /\ e = Manifest[p][k]
                           /\ path = Paths(e)[n]
  BY ItemParts
<1>2. k \in 1 .. Len(Manifest[p]) /\ n \in 1 .. Len(Paths(e)) /\ Exists(e.kind, path)
  BY <1>1, ItemParts
<1>3. e.kind \in {"file", "dir"} /\ path \in STRING
  <2>1. e.kind \in {"file", "dir"} /\ Paths(e) \in Seq(STRING)
    BY <1>1, <1>2, EntryTyped
  <2>2. PICK s \in Seq(STRING) : s = Paths(e)
    BY <2>1
  <2> QED BY <2>1, <2>2, <1>1, <1>2
<1>4. CellAt(p, x) = IF e.kind = "file" THEN <<"file", path>> ELSE <<"dir", path, Listing[path]>>
  BY <1>1 DEF CellAt
<1>5. CASE e.kind = "file"
  BY <1>3, <1>4, <1>5 DEF MCells
<1>6. CASE e.kind # "file"
  <2>1. path \in DOMAIN Listing
    BY <1>2, <1>3, <1>6 DEF Exists
  <2>2. Listing[path] \in Seq(STRING)
    BY <2>1, MeasureAssumption
  <2> QED BY <2>2, <1>3, <1>4, <1>6 DEF MCells
<1> QED BY <1>5, <1>6

LEMMA BeforeFirst == \A p \in Procs : Before(p, 1, 0) = {}
<1> SUFFICES ASSUME NEW p \in Procs, NEW x \in Before(p, 1, 0) PROVE FALSE
  OBVIOUS
<1>1. x \in Items(p) /\ (x[1] < 1 \/ (x[1] = 1 /\ x[2] <= 0))
  BY DEF Before
<1>2. PICK k \in Nat, n \in Nat : k = x[1] /\ n = x[2] /\ k >= 1 /\ n >= 1
  <2>1. \A l : \A y \in 1 .. l : y \in Int /\ y >= 1
    OBVIOUS
  <2> QED BY <1>1, <2>1, ItemParts
<1> QED BY <1>1, <1>2

\* The next path is an item, or nothing is to be measured for it.
LEMMA BeforeNext ==
  ASSUME NEW p \in Procs, NEW i \in 1 .. Len(Manifest[p]), NEW n \in Nat
  PROVE  Before(p, i, n + 1) =
           IF <<i, n + 1>> \in Items(p) THEN Before(p, i, n) \cup {<<i, n + 1>>}
           ELSE Before(p, i, n)
<1>1. ASSUME NEW x \in Items(p)
      PROVE  (x[1] = i /\ x[2] <= n + 1) <=> ((x[1] = i /\ x[2] <= n) \/ x = <<i, n + 1>>)
  <2>1. PICK b \in Nat : b = x[2] /\ x = <<x[1], b>>
    BY ItemParts
  <2>2. b <= n + 1 <=> (b <= n \/ b = n + 1)
    OBVIOUS
  <2>3. x = <<i, n + 1>> <=> (x[1] = i /\ b = n + 1)
    BY <2>1
  <2> QED BY <2>1, <2>2, <2>3
<1> QED BY <1>1 DEF Before

LEMMA BeforeWrap ==
  ASSUME NEW p \in Procs, NEW i \in 1 .. Len(Manifest[p])
  PROVE  Before(p, i, Len(Paths(Manifest[p][i]))) = Before(p, i + 1, 0)
<1>1. ASSUME NEW x \in Items(p)
      PROVE  (x[1] < i \/ (x[1] = i /\ x[2] <= Len(Paths(Manifest[p][i]))))
             <=> (x[1] < i + 1 \/ (x[1] = i + 1 /\ x[2] <= 0))
  <2>1. PICK a \in Nat, b \in Nat : a = x[1] /\ b = x[2] /\ b >= 1
    <3>1. \A l : \A y \in 1 .. l : y \in Int /\ y >= 1
      OBVIOUS
    <3> QED BY <3>1, ItemParts
  <2>2. ASSUME a = i PROVE b <= Len(Paths(Manifest[p][i]))
    <3>1. PICK l \in Nat : l = Len(Paths(Manifest[p][i]))
      BY EntryTyped
    <3>2. b \in 1 .. l
      BY <2>1, <2>2, <3>1, ItemParts
    <3> QED BY <3>1, <3>2
  <2>3. a < i + 1 <=> (a < i \/ a = i)
    OBVIOUS
  <2>4. ~ (b <= 0)
    BY <2>1
  <2> QED BY <2>1, <2>2, <2>3, <2>4
<1> QED BY <1>1 DEF Before

LEMMA BeforeAll == \A p \in Procs : Before(p, Len(Manifest[p]) + 1, 0) = Items(p)
<1> SUFFICES ASSUME NEW p \in Procs, NEW x \in Items(p) PROVE x[1] < Len(Manifest[p]) + 1
  BY DEF Before
<1>1. PICK l \in Nat : l = Len(Manifest[p])
  BY ManifestTyped
<1>2. x[1] \in 1 .. l
  BY <1>1, ItemParts
<1> QED BY <1>1, <1>2

LEMMA BeforeFinite ==
  ASSUME NEW p \in Procs, NEW i, NEW n
  PROVE  IsFiniteSet(Before(p, i, n)) /\ Cardinality(Before(p, i, n)) \in Nat
<1>1. Before(p, i, n) \in SUBSET Items(p)
  BY DEF Before
<1>2. IsFiniteSet(Before(p, i, n))
  BY <1>1, ItemsFinite, FS_Subset
<1> QED BY <1>2, FS_CardinalityType

LEMMA MeasuresNone == \A p \in Procs : Measures(p, <<>>, {})
BY FS_EmptySet DEF Measures

\* A later item goes to the end.
LEMMA MeasuresAppend ==
  ASSUME NEW p \in Procs, NEW D, IsFiniteSet(D), NEW x \in Items(p), x \notin D,
         \A y \in D \cup {x} : Upto(x, y) /\ Upto(y, y), \A y \in D : ~Upto(y, x),
         NEW cells, Measures(p, cells, D)
  PROVE  Measures(p, Append(cells, CellAt(p, x)), D \cup {x})
<1>1. PICK c, E, new : c = CellAt(p, x) /\ E = D \cup {x} /\ new = Append(cells, c)
  OBVIOUS
<1>2. PICK l \in Nat : l = Cardinality(D) /\ l = Len(cells) /\ cells \in Seq(MCells)
  BY FS_CardinalityType DEF Measures
<1>3. Cardinality(E) = l + 1
  BY <1>1, <1>2, FS_AddElement
<1>4. Rank(E, x) = l + 1
  <2>1. {y \in E : Upto(x, y)} = E
    BY <1>1
  <2> QED BY <2>1, <1>3 DEF Rank
<1>5. ASSUME NEW y \in D PROVE Rank(E, y) = Rank(D, y) /\ Rank(D, y) \in 1 .. l
  <2>1. {z \in E : Upto(y, z)} = {z \in D : Upto(y, z)}
    BY <1>1
  <2>2. Rank(E, y) = Rank(D, y)
    BY <2>1 DEF Rank
  <2>3. PICK T : T = {z \in D : Upto(y, z)} /\ T \in SUBSET D /\ y \in T
    OBVIOUS
  <2>4. IsFiniteSet(T) /\ Cardinality(T) <= l
    BY <2>3, <1>2, FS_Subset
  <2>5. Cardinality(T) \in Nat /\ Cardinality(T) # 0
    BY <2>3, <2>4, FS_CardinalityType, FS_EmptySet
  <2> QED BY <2>2, <2>3, <2>4, <2>5 DEF Rank
<1>6. c \in MCells
  BY <1>1, CellTyped
<1>7. /\ new \in Seq(MCells) /\ Len(new) = l + 1 /\ new[l + 1] = c
      /\ \A n \in 1 .. l : new[n] = cells[n]
  BY <1>1, <1>2, <1>6
<1>8. \A y \in D : cells[Rank(D, y)] = CellAt(p, y)
  BY DEF Measures
<1>9. ASSUME NEW y \in E PROVE new[Rank(E, y)] = CellAt(p, y)
  <2>1. CASE y \in D
    BY <2>1, <1>5, <1>7, <1>8
  <2>2. CASE y = x
    BY <2>2, <1>1, <1>4, <1>7
  <2> QED BY <2>1, <2>2, <1>1
<1>10. ASSUME NEW n \in 1 .. l + 1 PROVE \E y \in E : Rank(E, y) = n
  <2>1. CASE n = l + 1
    BY <2>1, <1>1, <1>4
  <2>2. CASE n # l + 1
    <3>1. n \in 1 .. l
      BY <2>2
    <3>2. PICK y \in D : Rank(D, y) = n
      BY <3>1, <1>2 DEF Measures
    <3> QED BY <3>2, <1>1, <1>5
  <2> QED BY <2>1, <2>2
<1>11. Measures(p, new, E)
  BY <1>3, <1>7, <1>9, <1>10 DEF Measures
<1> QED BY <1>1, <1>11

\* The next path of an entry is measured.
LEMMA MeasuresNext ==
  ASSUME NEW p \in Procs, NEW i \in 1 .. Len(Manifest[p]), NEW n \in Nat, NEW cells,
         Measures(p, cells, Before(p, i, n)), <<i, n + 1>> \in Items(p)
  PROVE  Measures(p, Append(cells, CellAt(p, <<i, n + 1>>)), Before(p, i, n + 1))
<1>1. PICK D, x : D = Before(p, i, n) /\ x = <<i, n + 1>> /\ x[1] = i /\ x[2] = n + 1
  OBVIOUS
<1>2. \A y \in Items(p) : y[1] \in Int /\ y[2] \in Int
  BY ItemParts
<1>3. D \subseteq Items(p) /\ \A y \in D : y[1] < i \/ (y[1] = i /\ y[2] <= n)
  BY <1>1 DEF Before
<1>4. ASSUME NEW y \in D PROVE Upto(x, y) /\ Upto(y, y) /\ ~Upto(y, x) /\ y # x
  <2>1. PICK a, b \in Int : a = y[1] /\ b = y[2]
    BY <1>2, <1>3
  <2>2. a < i \/ (a = i /\ b <= n)
    BY <2>1, <1>3
  <2>3. a < i \/ (a = i /\ b <= n + 1)
    BY <2>2
  <2>4. ~ (i < a \/ (i = a /\ n + 1 <= b))
    BY <2>2
  <2>5. Upto(x, y)
    BY <2>1, <2>3, <1>1 DEF Upto
  <2>6. ~Upto(y, x)
    BY <2>1, <2>4, <1>1 DEF Upto
  <2>7. Upto(y, y)
    BY <2>1 DEF Upto
  <2> QED BY <2>5, <2>6, <2>7
<1>5. Upto(x, x)
  BY <1>1 DEF Upto
<1>6. Measures(p, Append(cells, CellAt(p, x)), D \cup {x})
  <2>1. IsFiniteSet(D) /\ x \in Items(p) /\ Measures(p, cells, D)
    BY <1>1, BeforeFinite
  <2> QED BY <2>1, <1>4, <1>5, MeasuresAppend
<1>7. Before(p, i, n + 1) = D \cup {x}
  BY <1>1, BeforeNext
<1> QED BY <1>1, <1>6, <1>7

\* Everything is measured.
LEMMA MeasuresEnd ==
  ASSUME NEW p \in Procs, NEW cells, Measures(p, cells, Items(p))
  PROVE  cells = Measurement(p)
<1>1. PICK D, l : D = Items(p) /\ l = Cardinality(D)
  OBVIOUS
<1>2. cells \in Seq(MCells) /\ Len(cells) = l
  BY <1>1 DEF Measures
<1>3. ASSUME NEW n \in 1 .. l PROVE cells[n] = Measurement(p)[n]
  <2>1. PICK x : x = (CHOOSE y \in D : Rank(D, y) = n)
    OBVIOUS
  <2>2. x \in D /\ Rank(D, x) = n
    <3>1. \E y \in D : Rank(D, y) = n
      BY <1>1, <1>2 DEF Measures
    <3> QED BY <2>1, <3>1
  <2>3. Measurement(p)[n] = CellAt(p, x)
    BY <2>1, <1>1 DEF Measurement
  <2> QED BY <2>2, <2>3, <1>1 DEF Measures
<1>4. cells = [n \in 1 .. l |-> cells[n]]
  BY <1>2
<1>5. Measurement(p) = [n \in 1 .. l |-> Measurement(p)[n]]
  BY <1>1 DEF Measurement
<1> QED BY <1>3, <1>4, <1>5

-----------------------------------------------------------------------------
(* Files.                                                                   *)

LEMMA WriteAtEnd ==
  ASSUME NEW S, NEW c \in Seq(S), NEW s \in Seq(S)
  PROVE  WriteAt(c, s, Len(c)) = c \o s
<1>1. PICK a \in Nat, b \in Nat : a = Len(c) /\ b = Len(s)
  OBVIOUS
<1>2. PICK w : w = WriteAt(c, s, a)
  OBVIOUS
<1>3. w = [k \in 1 .. a + b |-> IF k \in a + 1 .. a + b THEN s[k - a]
                               ELSE IF k <= a THEN c[k] ELSE Hole]
  <2>1. (IF a > a + b THEN a ELSE a + b) = a + b
    OBVIOUS
  <2> QED BY <1>1, <1>2, <2>1 DEF WriteAt
<1>4. c \o s = [k \in 1 .. a + b |-> IF k <= a THEN c[k] ELSE s[k - a]]
  <2>1. PICK d \in Seq(S) : d = c \o s
    BY ConcatProperties
  <2>2. Len(d) = a + b
    BY <1>1, <2>1
  <2>3. \A k \in 1 .. a + b : d[k] = IF k <= a THEN c[k] ELSE s[k - a]
    BY <1>1, <2>1, ConcatProperties
  <2>4. d = [k \in 1 .. a + b |-> d[k]]
    BY <2>2
  <2> QED BY <2>1, <2>3, <2>4
<1>5. ASSUME NEW k \in 1 .. a + b
      PROVE  (IF k \in a + 1 .. a + b THEN s[k - a] ELSE IF k <= a THEN c[k] ELSE Hole)
               = IF k <= a THEN c[k] ELSE s[k - a]
  <2>1. k \in a + 1 .. a + b <=> ~ (k <= a)
    OBVIOUS
  <2> QED BY <2>1
<1>6. w = c \o s
  BY <1>3, <1>4, <1>5
<1> QED BY <1>1, <1>2, <1>6

\* A list is written to an empty file.
LEMMA WriteAtEmpty ==
  ASSUME NEW S, NEW s \in Seq(S)
  PROVE  WriteAt(<<>>, s, 0) = s
<1>1. PICK c \in Seq(S) : c = <<>> /\ Len(c) = 0
  BY EmptySeq
<1>2. WriteAt(c, s, Len(c)) = c \o s
  BY WriteAtEnd
<1>3. c \o s = s
  BY <1>1
<1> QED BY <1>1, <1>2, <1>3

LEMMA TruncateMakes ==
  ASSUME LinksInv, NEW f \in Files, Truncate(f)
  PROVE  /\ LinksInv' /\ link'[f] = InodeOf(f) /\ link'[f] \in Inodes /\ data'[link'[f]] = <<>>
         /\ \A h \in Files : h # f => link'[h] = link[h]
         /\ \A h \in Files : h # f /\ link[h] # NoFile =>
              link[h] # link'[f] /\ data'[link[h]] = data[link[h]]
<1>1. PICK new : new = InodeOf(f)
  OBVIOUS
<1>2. new \in Inodes /\ (link[f] = NoFile => ~InUse(new)) /\ (link[f] # NoFile => new = link[f])
  BY <1>1, FreshInode DEF InodeOf, LinksInv
<1>3. /\ link' = [link EXCEPT ![f] = new]
      /\ data' = [n \in Inodes |-> IF InUse(n) /\ n # new THEN data[n] ELSE <<>>]
  BY <1>1 DEF Truncate
<1>4. link' \in [Files -> Inodes \cup {NoFile}] /\ DOMAIN data' = Inodes /\ link'[f] = new
      /\ data'[new] = <<>>
  BY <1>2, <1>3 DEF LinksInv
<1>5. \A h \in Files : h # f => link'[h] = link[h]
  BY <1>3 DEF LinksInv
<1>6. ASSUME NEW h \in Files, h # f, link[h] # NoFile PROVE link[h] # new /\ InUse(link[h])
  <2>1. InUse(link[h])
    BY DEF InUse
  <2>2. CASE link[f] = NoFile
    BY <2>1, <2>2, <1>2
  <2>3. CASE link[f] # NoFile
    BY <2>1, <2>3, <1>2, <1>6 DEF LinksInv, Files
  <2> QED BY <2>2, <2>3
<1>7. \A h \in Files : h # f /\ link[h] # NoFile => data'[link[h]] = data[link[h]]
  BY <1>3, <1>6 DEF LinksInv
<1>8. new # NoFile
  BY <1>2 DEF Inodes, NoFile
<1>9. link'["measurement"] = link'["temp"] => link'["temp"] = NoFile
  <2>1. "measurement" \in Files /\ "temp" \in Files /\ "measurement" # "temp"
        /\ (f = "temp" \/ f = "measurement")
    BY DEF Files
  <2> QED BY <2>1, <1>4, <1>5, <1>6, <1>8
<1> QED BY <1>1, <1>2, <1>4, <1>5, <1>6, <1>7, <1>9 DEF LinksInv

-----------------------------------------------------------------------------
(* The result.                                                              *)

\* A step that does not write.
LEMMA WritesKept ==
  ASSUME NEW p, NEW r, NEW r2, NEW lk, NEW lk2, NEW dt, NEW dt2, Writes(p, r, lk, dt),
         r2.fq = r.fq, r2.sum = r.sum, r2.out = r.out, r2.off = r.off,
         lk2["measurement"] = lk["measurement"], dt2[r.fq] = dt[r.fq]
  PROVE  Writes(p, r2, lk2, dt2)
BY DEF Writes

LEMMA EmitWrites ==
  ASSUME NEW p \in Procs, DOMAIN m = Procs, DOMAIN data = Inodes, Writes(p, m[p], link, data),
         NEW next, DOMAIN next = Fields, next.fq = m[p].fq, NEW c \in MCells, Emit(p, c, next)
  PROVE  \E r : /\ m' = [m EXCEPT ![p] = r] /\ DOMAIN r = Fields
                /\ r.pc = next.pc /\ r.i = next.i /\ r.dir = next.dir /\ r.tw = next.tw
                /\ r.fd = next.fd /\ r.pos = next.pos /\ r.buf = next.buf
                /\ r.sum = Append(m[p].sum, c)
                /\ Writes(p, r, link, data')
                /\ DOMAIN data' = Inodes
                /\ \A n \in Inodes : n # m[p].fq => data'[n] = data[n]
<1>1. PICK fq, sum, out, off, file :
         /\ fq = m[p].fq /\ sum = m[p].sum /\ out = m[p].out /\ off = m[p].off /\ file = data[fq]
  OBVIOUS
<1>2. /\ fq \in Inodes /\ link["measurement"] = fq
      /\ sum \in Seq(MCells) /\ out \in Seq(MCells) /\ file \in Seq(MCells)
      /\ off = Len(file) /\ Len(file) + Len(out) = 1 + Len(sum)
      /\ \A k \in 1 .. Len(file) : file[k] = Line(p, sum, k)
      /\ \A k \in 1 .. Len(out) : out[k] = Line(p, sum, Len(file) + k)
  BY <1>1 DEF Writes
<1>3. PICK a, b, l \in Nat : a = Len(file) /\ b = Len(out) /\ l = Len(sum) /\ a + b = 1 + l
  <2>1. Len(file) \in Nat
    BY <1>2
  <2>2. Len(out) \in Nat
    BY <1>2
  <2>3. Len(sum) \in Nat
    BY <1>2
  <2> QED BY <2>1, <2>2, <2>3, <1>2
<1>4. PICK sum2, out2 : sum2 = Append(sum, c) /\ out2 = Append(out, c)
  OBVIOUS
<1>5. /\ sum2 \in Seq(MCells) /\ Len(sum2) = l + 1
      /\ \A k \in 1 .. l + 1 : Line(p, sum2, k) = Line(p, sum, k)
      /\ Line(p, sum2, l + 2) = c
  <2>1. sum2 \in Seq(MCells) /\ Len(sum2) = l + 1 /\ sum2[l + 1] = c
    BY <1>2, <1>3, <1>4
  <2>2. \A k \in 1 .. l : sum2[k] = sum[k]
    BY <1>2, <1>3, <1>4
  <2>3. ASSUME NEW k \in 1 .. l + 1 PROVE Line(p, sum2, k) = Line(p, sum, k)
    <3>1. k # 1 => k - 1 \in 1 .. l
      OBVIOUS
    <3> QED BY <3>1, <2>2 DEF Line
  <2>4. Line(p, sum2, l + 2) = c
    <3>1. l + 2 # 1 /\ (l + 2) - 1 = l + 1
      OBVIOUS
    <3> QED BY <3>1, <2>1 DEF Line
  <2> QED BY <2>1, <2>3, <2>4
<1>6. /\ out2 \in Seq(MCells) /\ Len(out2) = b + 1 /\ out2[b + 1] = c
      /\ \A k \in 1 .. b : out2[k] = out[k]
  BY <1>2, <1>3, <1>4
<1>7. ASSUME NEW k \in 1 .. b + 1 PROVE out2[k] = Line(p, sum2, a + k)
  <2>1. CASE k = b + 1
    <3>1. a + k = l + 2
      BY <2>1, <1>3
    <3> QED BY <2>1, <3>1, <1>5, <1>6
  <2>2. CASE k # b + 1
    <3>1. k \in 1 .. b /\ a + k \in 1 .. l + 1
      BY <2>2, <1>3
    <3>2. out[k] = Line(p, sum, a + k)
      BY <3>1, <1>2, <1>3
    <3> QED BY <3>1, <3>2, <1>5, <1>6
  <2> QED BY <2>1, <2>2
<1>8. \A k \in 1 .. a : file[k] = Line(p, sum2, k)
  <2>1. \A k \in 1 .. a : k \in 1 .. l + 1
    BY <1>3
  <2> QED BY <2>1, <1>2, <1>3, <1>5
<1>9. PICK full : full = (Len(out2) >= WriteBlock)
  OBVIOUS
<1>10. PICK r : r = [next EXCEPT !.sum = sum2, !.out = IF full THEN <<>> ELSE out2,
                                 !.off = IF full THEN off + Len(out2) ELSE off]
  OBVIOUS
<1>11. /\ m' = [m EXCEPT ![p] = r]
       /\ data' = IF full THEN [data EXCEPT ![fq] = WriteAt(file, out2, off)] ELSE data
  BY <1>1, <1>4, <1>9, <1>10 DEF Emit
<1>12. /\ DOMAIN r = Fields /\ r.sum = sum2 /\ r.out = (IF full THEN <<>> ELSE out2)
       /\ r.off = (IF full THEN off + Len(out2) ELSE off) /\ r.fq = fq
       /\ r.pc = next.pc /\ r.i = next.i /\ r.dir = next.dir /\ r.tw = next.tw
       /\ r.fd = next.fd /\ r.pos = next.pos /\ r.buf = next.buf
  BY <1>1, <1>10 DEF Fields
<1>13. DOMAIN data' = Inodes /\ \A n \in Inodes : n # fq => data'[n] = data[n]
  BY <1>11
<1>14. CASE full
  <2>1. PICK w : w = WriteAt(file, out2, a)
    OBVIOUS
  <2>2. /\ w \in Seq(MCells) /\ Len(w) = a + (b + 1)
        /\ \A k \in 1 .. a : w[k] = file[k]
        /\ \A k \in 1 .. b + 1 : w[a + k] = out2[k]
    <3>1. w = file \o out2
      BY <1>2, <1>3, <1>6, <2>1, WriteAtEnd
    <3> QED BY <3>1, <1>2, <1>3, <1>6
  <2>3. data'[fq] = w
    BY <1>2, <1>3, <1>11, <1>14, <2>1
  <2>4. ASSUME NEW k \in 1 .. a + (b + 1) PROVE w[k] = Line(p, sum2, k)
    <3>1. CASE k \in 1 .. a
      BY <3>1, <2>2, <1>8
    <3>2. CASE k \notin 1 .. a
      <4>1. k - a \in 1 .. b + 1 /\ k = a + (k - a)
        BY <3>2
      <4> QED BY <4>1, <2>2, <1>7
    <3> QED BY <3>1, <3>2
  <2>5. r.out = <<>> /\ r.off = a + (b + 1) /\ r.out \in Seq(MCells) /\ Len(r.out) = 0
    BY <1>2, <1>3, <1>6, <1>12, <1>14
  <2>6. (a + (b + 1)) + 0 = 1 + (l + 1)
    BY <1>3
  <2>7. Writes(p, r, link, data')
    <3>1. \A k \in 1 .. Len(r.out) : FALSE
      BY <2>5
    <3> QED BY <3>1, <2>2, <2>3, <2>4, <2>5, <2>6, <1>2, <1>5, <1>12 DEF Writes
  <2> QED BY <2>7, <1>1, <1>4, <1>11, <1>12, <1>13
<1>15. CASE ~full
  <2>1. data' = data /\ r.out = out2 /\ r.off = off
    BY <1>11, <1>12, <1>15
  <2>2. a + (b + 1) = 1 + (l + 1)
    BY <1>3
  <2>3. data'[fq] = file
    BY <2>1, <1>1
  <2>4. Writes(p, r, link, data')
    BY <2>1, <2>2, <2>3, <1>2, <1>3, <1>5, <1>6, <1>7, <1>8, <1>12 DEF Writes
  <2> QED BY <2>4, <1>1, <1>4, <1>11, <1>12, <1>13
<1> QED BY <1>14, <1>15, <1>9


-----------------------------------------------------------------------------
(* The steps of a process that no other one overlaps.                       *)

Lone(p) == LinksInv /\ ProcessesOK /\ SearchesFit(p) /\ Digest[p] /\ Solo(p, m[p], link, data)

LEMMA LoneWorks ==
  ASSUME NEW p \in Procs, Lone(p), m[p].pc \notin {"read", "fread", "remove", "removeList"}
  PROVE  Writes(p, m[p], link, data) /\ Works(p, m[p], link, data)
BY DEF Lone, Solo

LEMMA WorksSolo ==
  ASSUME NEW p, Digest[p], NEW r, NEW lk, NEW dt, Writes(p, r, lk, dt), Works(p, r, lk, dt)
  PROVE  Solo(p, r, lk, dt)
BY DEF Solo

LEMMA FilesDiffer ==
  ASSUME NEW p, NEW r, NEW dt, LinksInv, Writes(p, r, link, dt)
  PROVE  /\ r.fq \in Inodes /\ link["measurement"] = r.fq /\ r.fq # NoFile
         /\ link["temp"] # r.fq
<1>1. r.fq \in Inodes /\ link["measurement"] = r.fq
  BY DEF Writes
<1>2. r.fq # NoFile
  BY <1>1 DEF Inodes, NoFile
<1> QED BY <1>1, <1>2 DEF LinksInv

\* The list file is made again, the result stays.
LEMMA TruncateTemp ==
  ASSUME NEW p, LinksInv, Writes(p, m[p], link, data), Truncate("temp"),
         NEW r, r.fq = m[p].fq, r.sum = m[p].sum, r.out = m[p].out, r.off = m[p].off,
         r.tw = InodeOf("temp")
  PROVE  Writes(p, r, link', data') /\ TempEmpty(r, link', data')
<1>0. "temp" \in Files /\ "measurement" \in Files /\ "measurement" # "temp"
  BY DEF Files
<1>1. PICK fq : fq = m[p].fq /\ fq \in Inodes /\ link["measurement"] = fq /\ fq # NoFile
  BY FilesDiffer
<1>2. /\ link'["temp"] = InodeOf("temp") /\ link'["temp"] \in Inodes
      /\ data'[link'["temp"]] = <<>>
      /\ link'["measurement"] = fq /\ data'[fq] = data[fq]
  <2>1. /\ link'["temp"] = InodeOf("temp") /\ link'["temp"] \in Inodes
        /\ data'[link'["temp"]] = <<>>
    BY <1>0, TruncateMakes
  <2>2. link'["measurement"] = link["measurement"]
    BY <1>0, TruncateMakes
  <2>3. data'[link["measurement"]] = data[link["measurement"]]
    BY <1>0, <1>1, TruncateMakes
  <2> QED BY <2>1, <2>2, <2>3, <1>1
<1>3. Writes(p, r, link', data')
  BY <1>1, <1>2, WritesKept
<1> QED BY <1>2, <1>3 DEF TempEmpty

\* A list is written to the list file, the result stays.
LEMMA WriteTemp ==
  ASSUME NEW p, LinksInv, Writes(p, m[p], link, data), TempEmpty(m[p], link, data),
         NEW list \in Seq(STRING), link' = link,
         data' = [data EXCEPT ![m[p].tw] = WriteAt(@, list, 0)],
         NEW r, r.fq = m[p].fq, r.sum = m[p].sum, r.out = m[p].out, r.off = m[p].off
  PROVE  Writes(p, r, link', data') /\ TempHolds(link', data', list)
<1>1. PICK tw : tw = m[p].tw /\ tw = link["temp"] /\ tw \in Inodes /\ data[tw] = <<>>
  BY DEF TempEmpty
<1>2. m[p].fq \in Inodes /\ tw # m[p].fq
  BY <1>1, FilesDiffer
<1>3. WriteAt(data[tw], list, 0) = list
  BY <1>1, WriteAtEmpty
<1>4. data'[tw] = list /\ data'[m[p].fq] = data[m[p].fq]
  BY <1>1, <1>2, <1>3 DEF LinksInv
<1>5. Writes(p, r, link', data')
  BY <1>4 DEF Writes
<1> QED BY <1>1, <1>4, <1>5 DEF TempHolds

LEMMA StartSolo ==
  ASSUME NEW p \in Procs, LinksInv, ProcessesOK, m[p] = NotStarted, Start(p)
  PROVE  Solo(p, m'[p], link', data')
<1>0. "measurement" \in Files
  BY DEF Files
<1>1. PICK r : r = m'[p]
  OBVIOUS
<1>2. r = [m[p] EXCEPT !.pc = IF Digest[p] THEN "next" ELSE "giveUp",
                       !.fq = InodeOf("measurement"), !.out = << <<"header", p>> >>]
  BY <1>1 DEF Start, ProcessesOK
<1>3. /\ r.pc = (IF Digest[p] THEN "next" ELSE "giveUp") /\ r.fq = InodeOf("measurement")
      /\ r.out = << <<"header", p>> >> /\ r.sum = <<>> /\ r.off = 0 /\ r.i = 1 /\ r.fd = NoFile
      /\ r.xml = Null
  BY <1>2 DEF NotStarted
<1>4. /\ link'["measurement"] = r.fq /\ r.fq \in Inodes /\ data'[r.fq] = <<>>
  BY <1>0, <1>3, TruncateMakes DEF Start
<1>5. CASE ~Digest[p]
  BY <1>1, <1>3, <1>5 DEF Solo
<1>6. CASE Digest[p]
  <2>1. Writes(p, r, link', data')
    <3>1. PICK S, h : S = MCells /\ h \in S /\ h = <<"header", p>>
      BY DEF MCells
    <3>2. PICK none \in Seq(S), one \in Seq(S) : none = <<>> /\ one = <<h>>
      <4>1. <<>> \in Seq(S)
        OBVIOUS
      <4>2. <<h>> \in Seq(S)
        BY <3>1
      <4> QED BY <4>1, <4>2
    <3>3. Len(none) = 0 /\ Len(one) = 1 /\ one[1] = h
      BY <3>2
    <3>4. \A k \in 1 .. Len(one) : one[k] = Line(p, r.sum, Len(none) + k)
      <4>1. \A k \in 1 .. 1 : k = 1 /\ 0 + k = 1
        OBVIOUS
      <4> QED BY <3>1, <3>3, <4>1 DEF Line
    <3>5. \A k \in 1 .. Len(none) : none[k] = Line(p, r.sum, k)
      BY <3>3
    <3>6. r.sum = none /\ r.out = one /\ data'[r.fq] = none /\ r.off = Len(none)
          /\ Len(none) + Len(one) = 1 + Len(none)
      BY <1>3, <1>4, <3>1, <3>2, <3>3
    <3> QED BY <1>4, <3>1, <3>4, <3>5, <3>6 DEF Writes
  <2>2. Measures(p, r.sum, Before(p, r.i, 0))
    BY <1>3, BeforeFirst, MeasuresNone
  <2>3. r.i \in 1 .. Len(Manifest[p]) + 1
    BY <1>3, ManifestTyped
  <2>4. Works(p, r, link', data')
    BY <1>3, <1>6, <2>2, <2>3 DEF Works
  <2> QED BY <1>1, <1>6, <2>1, <2>4, WorksSolo
<1> QED BY <1>5, <1>6

LEMMA SearchOpenSolo ==
  ASSUME NEW p \in Procs, Lone(p), SearchOpen(p)
  PROVE  Solo(p, m'[p], link', data')
<1>1. PICK r : r = m'[p] /\ r = [m[p] EXCEPT !.pc = "searchWrite", !.tw = InodeOf("temp")]
  BY DEF SearchOpen, Lone, ProcessesOK
<1>2. /\ r.pc = "searchWrite" /\ r.tw = InodeOf("temp") /\ r.fq = m[p].fq /\ r.sum = m[p].sum
      /\ r.out = m[p].out /\ r.off = m[p].off /\ r.fd = m[p].fd /\ r.i = m[p].i
  BY <1>1 DEF Lone, ProcessesOK, Fields
<1>3. m[p].pc = "next" /\ Manifest[p][m[p].i].search /\ m[p].i <= Len(Manifest[p])
      /\ Truncate("temp")
  BY DEF SearchOpen, Entry
<1>4. Writes(p, m[p], link, data) /\ Works(p, m[p], link, data)
  BY <1>3, LoneWorks
<1>5. Writes(p, r, link', data') /\ TempEmpty(r, link', data')
  BY <1>2, <1>3, <1>4, TruncateTemp DEF Lone
<1>6. m[p].i \in 1 .. Len(Manifest[p]) + 1 /\ m[p].fd = NoFile
      /\ Measures(p, m[p].sum, Before(p, m[p].i, 0))
  BY <1>3, <1>4 DEF Works
<1>7. m[p].i \in 1 .. Len(Manifest[p])
  BY <1>3, <1>6, ManifestTyped
<1>8. Works(p, r, link', data')
  BY <1>2, <1>3, <1>5, <1>6, <1>7 DEF Works, Searches
<1> QED BY <1>1, <1>5, <1>8, WorksSolo DEF Lone

LEMMA SearchWriteSolo ==
  ASSUME NEW p \in Procs, Lone(p), SearchWrite(p)
  PROVE  Solo(p, m'[p], link', data')
<1>1. PICK r : r = m'[p] /\ r = [m[p] EXCEPT !.pc = "searchRead", !.tw = NoFile]
  BY DEF SearchWrite, Lone, ProcessesOK
<1>2. /\ r.pc = "searchRead" /\ r.fq = m[p].fq /\ r.sum = m[p].sum
      /\ r.out = m[p].out /\ r.off = m[p].off /\ r.fd = m[p].fd /\ r.i = m[p].i
  BY <1>1 DEF Lone, ProcessesOK, Fields
<1>3. PICK list : list = Matches[Manifest[p][m[p].i].path]
  OBVIOUS
<1>4. m[p].pc = "searchWrite" /\ link' = link
      /\ data' = [data EXCEPT ![m[p].tw] = WriteAt(@, list, 0)]
  BY <1>3 DEF SearchWrite, Entry
<1>5. Writes(p, m[p], link, data) /\ Searches(p, m[p]) /\ TempEmpty(m[p], link, data)
  BY <1>4, LoneWorks DEF Works
<1>6. list \in Seq(STRING)
  BY <1>3, <1>5, EntryTyped DEF Searches
<1>7. Writes(p, r, link', data') /\ TempHolds(link', data', list)
  BY <1>2, <1>4, <1>5, <1>6, WriteTemp DEF Lone
<1>8. Works(p, r, link', data')
  BY <1>2, <1>3, <1>5, <1>7 DEF Works, Searches
<1> QED BY <1>1, <1>7, <1>8, WorksSolo DEF Lone

\* A directory that cannot be scanned has no items.
LEMMA SearchFailsSolo ==
  ASSUME NEW p \in Procs, Lone(p), SearchFails(p)
  PROVE  Solo(p, m'[p], link', data')
<1>1. PICK r : r = m'[p] /\ r = [m[p] EXCEPT !.pc = "next", !.i = m[p].i + 1, !.tw = NoFile]
  BY DEF SearchFails, Lone, ProcessesOK
<1>2. /\ r.pc = "next" /\ r.fq = m[p].fq /\ r.sum = m[p].sum
      /\ r.out = m[p].out /\ r.off = m[p].off /\ r.fd = m[p].fd /\ r.i = m[p].i + 1
  BY <1>1 DEF Lone, ProcessesOK, Fields
<1>3. m[p].pc = "searchWrite" /\ link' = link /\ data' = data
      /\ Manifest[p][m[p].i].path \in NoBase
  BY DEF SearchFails, Entry
<1>4. Writes(p, m[p], link, data) /\ Searches(p, m[p])
  BY <1>3, LoneWorks DEF Works
<1>5. PICK i \in 1 .. Len(Manifest[p]) : i = m[p].i
  BY <1>4 DEF Searches
<1>6. Manifest[p][i].search /\ m[p].fd = NoFile /\ Measures(p, m[p].sum, Before(p, i, 0))
  BY <1>4, <1>5 DEF Searches
<1>7. Len(Paths(Manifest[p][i])) = 0
  BY <1>3, <1>5, <1>6, EntryTyped
<1>8. Before(p, i, 0) = Before(p, i + 1, 0)
  BY <1>7, BeforeWrap
<1>9. Measures(p, r.sum, Before(p, r.i, 0))
  BY <1>2, <1>5, <1>6, <1>8
<1>10. i + 1 \in 1 .. Len(Manifest[p]) + 1
  BY ManifestTyped
<1>11. Works(p, r, link, data)
  BY <1>2, <1>5, <1>6, <1>9, <1>10 DEF Works
<1>12. Writes(p, r, link, data)
  BY <1>2, <1>4, WritesKept
<1> QED BY <1>1, <1>3, <1>11, <1>12, WorksSolo DEF Lone

\* The result of a manifest, cell by cell.
LEMMA ReferenceIs ==
  ASSUME NEW p \in Procs
  PROVE  /\ \E S : Reference(p) \in Seq(S)
         /\ Len(Reference(p)) = Cardinality(Items(p)) + 2
         /\ Reference(p)[1] = <<"header", p>>
         /\ \A k \in 1 .. Cardinality(Items(p)) : Reference(p)[k + 1] = Measurement(p)[k]
         /\ Reference(p)[Cardinality(Items(p)) + 2] = <<"cumulative", Measurement(p)>>
<1>1. PICK l \in Nat : l = Cardinality(Items(p))
  BY ItemsFinite, FS_CardinalityType
<1>2. PICK ms, h, c : ms = Measurement(p) /\ h = <<"header", p>> /\ c = <<"cumulative", ms>>
  OBVIOUS
<1>3. PICK S : S = {ms[k] : k \in 1 .. l} \cup {h, c}
  OBVIOUS
<1>4. ms = [k \in 1 .. l |-> ms[k]]
  BY <1>1, <1>2 DEF Measurement
<1>5. ms \in [1 .. l -> S]
  BY <1>3, <1>4
<1>6. ms \in Seq(S) /\ Len(ms) = l
  BY <1>5, SeqDef, LenProperties
<1>7. PICK a \in Seq(S), b \in Seq(S) : a = <<h>> /\ b = <<c>>
  <2>1. h \in S /\ c \in S
    BY <1>3
  <2>2. <<h>> \in Seq(S)
    BY <2>1
  <2>3. <<c>> \in Seq(S)
    BY <2>1
  <2> QED BY <2>2, <2>3
<1>8. Len(a) = 1 /\ Len(b) = 1 /\ a[1] = h /\ b[1] = c
  BY <1>7
<1>9. PICK d \in Seq(S) : d = a \o ms
  BY <1>6, ConcatProperties
<1>10. Len(d) = l + 1 /\ d[1] = h /\ \A k \in 1 .. l : d[k + 1] = ms[k]
  <2>1. Len(d) = 1 + l
    <3>1. Len(a \o ms) = Len(a) + Len(ms)
      BY <1>6
    <3> QED BY <3>1, <1>6, <1>8, <1>9
  <2>2. \A k \in 1 .. 1 + l : d[k] = IF k <= 1 THEN a[k] ELSE ms[k - 1]
    <3>1. \A k \in 1 .. Len(a) + Len(ms) :
             (a \o ms)[k] = IF k <= Len(a) THEN a[k] ELSE ms[k - Len(a)]
      BY <1>6, ConcatProperties
    <3> QED BY <3>1, <1>6, <1>8, <1>9
  <2>3. 1 \in 1 .. 1 + l /\ 1 <= 1 /\ 1 + l = l + 1
    OBVIOUS
  <2>4. \A k \in 1 .. l : k + 1 \in 1 .. 1 + l /\ ~ (k + 1 <= 1) /\ (k + 1) - 1 = k
    OBVIOUS
  <2> QED BY <2>1, <2>2, <2>3, <2>4, <1>8
<1>11. PICK ref \in Seq(S) : ref = d \o b
  BY ConcatProperties
<1>12. /\ Len(ref) = l + 2 /\ ref[l + 2] = c /\ ref[1] = h
       /\ \A k \in 1 .. l : ref[k + 1] = ms[k]
  <2>1. Len(ref) = (l + 1) + 1
    <3>1. Len(d \o b) = Len(d) + Len(b)
      OBVIOUS
    <3> QED BY <3>1, <1>8, <1>10, <1>11
  <2>2. \A k \in 1 .. (l + 1) + 1 : ref[k] = IF k <= l + 1 THEN d[k] ELSE b[k - (l + 1)]
    <3>1. \A k \in 1 .. Len(d) + Len(b) :
             (d \o b)[k] = IF k <= Len(d) THEN d[k] ELSE b[k - Len(d)]
      BY ConcatProperties
    <3> QED BY <3>1, <1>8, <1>10, <1>11
  <2>3. /\ (l + 1) + 1 = l + 2 /\ 1 \in 1 .. l + 2 /\ 1 <= l + 1
        /\ l + 2 \in 1 .. l + 2 /\ ~ (l + 2 <= l + 1) /\ (l + 2) - (l + 1) = 1
    OBVIOUS
  <2>4. \A k \in 1 .. l : k + 1 \in 1 .. l + 2 /\ k + 1 <= l + 1
    OBVIOUS
  <2> QED BY <2>1, <2>2, <2>3, <2>4, <1>8, <1>10
<1>13. ref = Reference(p)
  BY <1>2, <1>7, <1>9, <1>11 DEF Reference
<1> QED BY <1>1, <1>2, <1>12, <1>13

LEMMA ReadLengthSolo ==
  ASSUME NEW p \in Procs, Lone(p), ReadLength(p)
  PROVE  Solo(p, m'[p], link', data')
<1>1. link["measurement"] \in Inodes /\ data[link["measurement"]] = Reference(p)
  BY DEF ReadLength, Lone, Solo, Works
<1>2. link["measurement"] # NoFile
  BY <1>1 DEF Inodes, NoFile
<1>3. m' = [m EXCEPT ![p].pc = "fread", ![p].fd = link["measurement"],
                     ![p].len = Len(data[link["measurement"]])]
      /\ link' = link /\ data' = data
  BY <1>2 DEF ReadLength
<1>4. m'[p].pc = "fread" /\ m'[p].fd = link["measurement"] /\ m'[p].len = Len(Reference(p))
  BY <1>1, <1>3 DEF Lone, ProcessesOK, Fields
<1> QED BY <1>1, <1>3, <1>4 DEF Solo, Lone

LEMMA ReadSolo ==
  ASSUME NEW p \in Procs, Lone(p), Read(p)
  PROVE  Solo(p, m'[p], link', data')
<1>1. data[m[p].fd] = Reference(p) /\ m[p].len = Len(Reference(p))
  BY DEF Read, Lone, Solo, Works
<1>2. m'[p].pc = "remove" /\ m'[p].xml = IF Len(data[m[p].fd]) < m[p].len THEN Freed
                                         ELSE SubSeq(data[m[p].fd], 1, m[p].len)
  BY DEF Read, Lone, ProcessesOK, Fields
<1>3. PICK ref, l : ref = Reference(p) /\ l = Len(ref)
  OBVIOUS
<1>4. PICK S : ref \in Seq(S) /\ l \in Nat
  BY <1>3, ReferenceIs
<1>5. SubSeq(ref, 1, l) = ref
  BY <1>3, <1>4
<1>6. m'[p].xml = ref
  BY <1>1, <1>2, <1>3, <1>4, <1>5
<1> QED BY <1>2, <1>3, <1>6 DEF Solo, Lone

LEMMA SearchReadSolo ==
  ASSUME NEW p \in Procs, Lone(p), SearchRead(p)
  PROVE  Solo(p, m'[p], link', data')
<1>1. PICK list : list = Matches[Manifest[p][m[p].i].path]
  OBVIOUS
<1>2. m[p].pc = "searchRead" /\ link' = link /\ data' = data
  BY DEF SearchRead
<1>3. Writes(p, m[p], link, data) /\ Searches(p, m[p]) /\ TempHolds(link, data, list)
  BY <1>1, <1>2, LoneWorks DEF Works
<1>4. link["temp"] \in Inodes /\ data[link["temp"]] = list /\ link["temp"] # NoFile
  BY <1>3 DEF TempHolds, Inodes, NoFile
<1>5. PICK r : /\ r = m'[p]
               /\ r = [m[p] EXCEPT !.pc = "match", !.fd = link["temp"], !.pos = 0, !.buf = <<>>]
  BY <1>4 DEF SearchRead, Lone, ProcessesOK
<1>6. /\ r.pc = "match" /\ r.fd = link["temp"] /\ r.pos = 0 /\ r.buf = <<>> /\ r.fq = m[p].fq
      /\ r.sum = m[p].sum /\ r.out = m[p].out /\ r.off = m[p].off /\ r.i = m[p].i
  BY <1>5 DEF Lone, ProcessesOK, Fields
<1>7. Writes(p, r, link, data)
  BY <1>3, <1>6, WritesKept
<1>8. list \in Seq(STRING) /\ <<>> \in Seq(STRING) /\ Len(list) \in Nat /\ m[p].i \in 1 .. Len(Manifest[p])
  BY <1>1, <1>3, EntryTyped, EmptySeq DEF Searches
<1>9. Between(list, 0, 0, <<>>)
  BY DEF Between
<1>10. Streams(p, r, link, data, 0)
  <2>1. 0 \in 0 .. Len(list) /\ 0 \in Nat
    BY <1>8
  <2> QED BY <2>1, <1>1, <1>3, <1>4, <1>6, <1>8, <1>9 DEF Streams, Searches
<1>11. 0 \in 0 .. Len(list) /\ Measures(p, r.sum, Before(p, r.i, 0))
  BY <1>3, <1>6, <1>8 DEF Searches
<1>12. Works(p, r, link, data)
  BY <1>1, <1>6, <1>10, <1>11 DEF Works
<1> QED BY <1>2, <1>5, <1>7, <1>12, WorksSolo DEF Lone

\* block is what a stream reads at offset a of c.
IsBlock(block, c, a, b) ==
  /\ block \in Seq(STRING)
  /\ a >= Len(c) => block = <<>>
  /\ a < Len(c) => Len(block) = (IF a + b > Len(c) THEN Len(c) ELSE a + b) - a /\ block # <<>>
  /\ \A k \in 1 .. Len(block) : a + k \in 1 .. Len(c) /\ block[k] = c[a + k]

LEMMA CellsAre ==
  ASSUME NEW c \in Seq(STRING), NEW a \in Nat, NEW b \in Nat \ {0}
  PROVE  IsBlock(Cells(c, a + 1, a + b), c, a, b)
<1>1. PICK l \in Nat : l = Len(c)
  OBVIOUS
<1>2. PICK e \in Nat : e = IF a + b > l THEN l ELSE a + b
  OBVIOUS
<1>3. PICK block : block = SubSeq(c, a + 1, e) /\ block = Cells(c, a + 1, a + b)
  BY <1>1, <1>2 DEF Cells
<1>4. CASE a >= l
  <2>1. block = <<>>
    <3>1. a + 1 \in Int /\ e \in Int /\ e < a + 1
      BY <1>2, <1>4
    <3> QED BY <3>1, <1>3, SubSeqEmpty
  <2>2. block \in Seq(STRING) /\ Len(block) = 0
    BY <2>1, EmptySeq
  <2>3. ~ (a < l) /\ \A k \in 1 .. 0 : FALSE
    BY <1>4
  <2>4. \A k \in 1 .. Len(block) : FALSE
    BY <2>2, <2>3
  <2> QED BY <1>1, <1>3, <2>1, <2>2, <2>3, <2>4 DEF IsBlock
<1>5. CASE a < l
  <2>1. a + 1 \in Int /\ e \in Int /\ e <= l /\ a + 1 <= e /\ (e - (a + 1)) + 1 = e - a /\ e - a > 0
    BY <1>2, <1>5
  <2>2. PICK x, y \in Int : x = a + 1 /\ y = e
    BY <2>1
  <2>3. \A k \in x .. y : c[k] \in STRING
    <3>1. \A k \in x .. y : k \in 1 .. l
      BY <2>1, <2>2
    <3>2. PICK S : S = STRING
      OBVIOUS
    <3>3. c \in Seq(S)
      BY <3>2
    <3>4. \A k \in 1 .. l : c[k] \in S
      BY <1>1, <3>3
    <3> QED BY <3>1, <3>2, <3>4
  <2>4. /\ SubSeq(c, x, y) \in Seq(STRING)
        /\ Len(SubSeq(c, x, y)) = IF x <= y THEN y - x + 1 ELSE 0
        /\ \A k \in 1 .. y - x + 1 : SubSeq(c, x, y)[k] = c[x + k - 1]
    BY <2>3, SubSeqProperties
  <2>5. block \in Seq(STRING) /\ Len(block) = e - a
    BY <1>3, <2>1, <2>2, <2>4
  <2>6. \A k \in 1 .. e - a : block[k] = c[a + k]
    <3>1. \A k \in 1 .. e - a : k \in 1 .. y - x + 1 /\ x + k - 1 = a + k
      BY <2>1, <2>2
    <3> QED BY <3>1, <1>3, <2>2, <2>4
  <2>7. \A k \in 1 .. e - a : a + k \in 1 .. l
    BY <2>1
  <2>8. block # <<>>
    BY <2>1, <2>5
  <2>9. ~ (a >= l)
    BY <1>5
  <2> QED BY <1>1, <1>2, <1>3, <2>5, <2>6, <2>7, <2>8, <2>9 DEF IsBlock
<1> QED BY <1>4, <1>5

\* What Streams says, in one place.
LEMMA StreamsParts ==
  ASSUME NEW p \in Procs, NEW r, NEW lk, NEW dt, NEW n, Streams(p, r, lk, dt, n)
  PROVE  /\ r.i \in 1 .. Len(Manifest[p]) /\ Manifest[p][r.i].search
         /\ Manifest[p][r.i].kind \in {"file", "dir"}
         /\ Paths(Manifest[p][r.i]) = Matches[Manifest[p][r.i].path]
         /\ Matches[Manifest[p][r.i].path] \in Seq(STRING)
         /\ Len(Matches[Manifest[p][r.i].path]) \in Nat
         /\ n \in Nat /\ n <= Len(Matches[Manifest[p][r.i].path])
         /\ r.fd = lk["temp"] /\ r.fd \in Inodes /\ r.fd # NoFile
         /\ r.pos \in Nat /\ r.buf \in Seq(STRING) /\ dt[r.fd] \in Seq(STRING)
<1>1. r.i \in 1 .. Len(Manifest[p]) /\ Manifest[p][r.i].search
  BY DEF Streams
<1>2. PICK list : list = Matches[Manifest[p][r.i].path]
  OBVIOUS
<1>3. /\ Manifest[p][r.i].kind \in {"file", "dir"} /\ Paths(Manifest[p][r.i]) = list
      /\ list \in Seq(STRING) /\ Len(list) \in Nat
  BY <1>1, <1>2, EntryTyped
<1>4. n \in 0 .. Len(list)
  BY <1>2 DEF Streams
<1>5. n \in Nat /\ n <= Len(list)
  BY <1>3, <1>4
<1>6. /\ r.fd = lk["temp"] /\ r.fd \in Inodes
      /\ r.pos \in Nat /\ r.buf \in Seq(STRING) /\ dt[r.fd] \in Seq(STRING)
  BY DEF Streams
<1>7. r.fd # NoFile
  BY <1>6 DEF Inodes, NoFile
<1> QED BY <1>1, <1>2, <1>3, <1>5, <1>6, <1>7

\* Matches are measured: the search is at its next one.
LEMMA MatchWorks ==
  ASSUME NEW p \in Procs, NEW r, NEW lk, NEW dt, NEW n, r.pc = "match",
         Streams(p, r, lk, dt, n), Measures(p, r.sum, Before(p, r.i, n))
  PROVE  Works(p, r, lk, dt)
<1>1. n \in 0 .. Len(Matches[Manifest[p][r.i].path])
  BY DEF Streams
<1> QED BY <1>1 DEF Works

LEMMA RefillSolo ==
  ASSUME NEW p \in Procs, Lone(p), Refill(p)
  PROVE  Solo(p, m'[p], link', data')
<1>1. m[p].pc = "match" /\ m[p].buf = <<>> /\ link' = link /\ data' = data
  BY DEF Refill
<1>2. Writes(p, m[p], link, data)
  BY <1>1, LoneWorks
<1>3. PICK n : Streams(p, m[p], link, data, n) /\ Measures(p, m[p].sum, Before(p, m[p].i, n))
  BY <1>1, LoneWorks DEF Works
<1>4. PICK i, e, list, fd, file :
         /\ i = m[p].i /\ e = Manifest[p][i] /\ list = Matches[e.path]
         /\ fd = m[p].fd /\ file = data[fd]
  OBVIOUS
<1>5. PICK pos, L \in Nat : pos = m[p].pos /\ L = Len(list)
  BY <1>3, <1>4, StreamsParts
<1>6. /\ i \in 1 .. Len(Manifest[p]) /\ e.search /\ e.kind \in {"file", "dir"}
      /\ Paths(e) = list /\ list \in Seq(STRING) /\ n \in Nat /\ n <= L
      /\ fd = link["temp"] /\ fd \in Inodes /\ file \in Seq(STRING)
  BY <1>3, <1>4, <1>5, StreamsParts
<1>7. /\ (e.kind = "file" \/ pos = 0) => file = list /\ pos = n
      /\ ~ (e.kind = "file" \/ pos = 0) => pos >= L /\ (file = list \/ NoDirs(file)) /\ n = L
  <2>1. \A b \in Nat : Between(list, n, b, <<>>) => b = n
    <3>1. \A b \in Nat : 0 = b - n => b = n
      BY <1>6
    <3> QED BY <3>1 DEF Between
  <2>2. CASE e.kind = "file" \/ pos = 0
    <3>1. file = list /\ Between(list, n, pos, <<>>)
      BY <2>2, <1>1, <1>3, <1>4, <1>5 DEF Streams
    <3> QED BY <2>1, <2>2, <3>1
  <2>3. CASE ~ (e.kind = "file" \/ pos = 0)
    <3>1. /\ pos >= L /\ (file = list \/ NoDirs(file))
          /\ Between(list, n, L, <<>>) \/ n = L
      BY <2>3, <1>1, <1>3, <1>4, <1>5 DEF Streams
    <3> QED BY <2>1, <2>3, <3>1
  <2> QED BY <2>2, <2>3
<1>8. PICK block : /\ block = Cells(file, pos + 1, pos + ReadBlock)
                   /\ IsBlock(block, file, pos, ReadBlock)
  BY <1>6, CellsAre, MeasureAssumption
<1>9. CASE block = <<>>
  <2>1. PICK r : r = m'[p] /\ r = [m[p] EXCEPT !.pc = "next", !.i = m[p].i + 1, !.fd = NoFile]
    BY <1>4, <1>5, <1>8, <1>9 DEF Refill, Lone, ProcessesOK
  <2>2. /\ r.pc = "next" /\ r.i = i + 1 /\ r.fd = NoFile /\ r.fq = m[p].fq
        /\ r.sum = m[p].sum /\ r.out = m[p].out /\ r.off = m[p].off
    BY <1>4, <2>1 DEF Lone, ProcessesOK, Fields
  <2>3. Writes(p, r, link, data)
    BY <1>2, <2>2, WritesKept
  <2>4. n = L
    <3>1. CASE e.kind = "file" \/ pos = 0
      <4>1. pos = n /\ ~ (pos < L)
        BY <3>1, <1>5, <1>7, <1>8, <1>9 DEF IsBlock
      <4> QED BY <4>1, <1>6
    <3>2. CASE ~ (e.kind = "file" \/ pos = 0)
      BY <3>2, <1>7
    <3> QED BY <3>1, <3>2
  <2>5. Before(p, i, n) = Before(p, i + 1, 0)
    BY <1>4, <1>5, <1>6, <2>4, BeforeWrap
  <2>6. i + 1 \in 1 .. Len(Manifest[p]) + 1
    BY <1>6, ManifestTyped
  <2>7. Works(p, r, link, data)
    BY <1>3, <1>4, <2>2, <2>5, <2>6 DEF Works
  <2> QED BY <1>1, <2>1, <2>3, <2>7, WorksSolo DEF Lone
<1>10. CASE block # <<>>
  <2>1. PICK r : r = m'[p] /\ r = [m[p] EXCEPT !.buf = block, !.pos = m[p].pos + Len(block)]
    BY <1>4, <1>5, <1>8, <1>10 DEF Refill, Lone, ProcessesOK
  <2>2. /\ r.pc = "match" /\ r.i = i /\ r.fd = fd /\ r.fq = m[p].fq
        /\ r.sum = m[p].sum /\ r.out = m[p].out /\ r.off = m[p].off
        /\ r.buf = block /\ r.pos = pos + Len(block)
    BY <1>1, <1>4, <1>5, <2>1 DEF Lone, ProcessesOK, Fields
  <2>3. Writes(p, r, link, data)
    BY <1>2, <2>2, WritesKept
  <2>4. PICK k \in Nat : k = Len(block) /\ k > 0 /\ block \in Seq(STRING)
    <3>1. PICK S : S = STRING
      OBVIOUS
    <3>2. block \in Seq(S)
      BY <3>1, <1>8 DEF IsBlock
    <3>3. Len(block) \in Nat /\ Len(block) # 0
      BY <3>2, <1>10, EmptySeq
    <3> QED BY <3>1, <3>2, <3>3
  <2>5. pos < Len(file) /\ k = (IF pos + ReadBlock > Len(file) THEN Len(file) ELSE pos + ReadBlock) - pos
        /\ \A h \in 1 .. k : pos + h \in 1 .. Len(file) /\ block[h] = file[pos + h]
    <3>1. Len(file) \in Nat
      <4>1. PICK S : S = STRING
        OBVIOUS
      <4>2. file \in Seq(S)
        BY <4>1, <1>6
      <4> QED BY <4>2
    <3>2. pos < Len(file)
      BY <3>1, <1>8, <1>10 DEF IsBlock
    <3> QED BY <3>2, <2>4, <1>8 DEF IsBlock
  <2>6. PICK pos2 \in Nat : pos2 = pos + k /\ r.pos = pos2 /\ pos2 # 0
    BY <2>2, <2>4
  <2>7. Streams(p, r, link, data, n)
    <3>1. n \in 0 .. L
      BY <1>6
    <3>2. CASE e.kind = "file" \/ pos = 0
      <4>1. file = list /\ pos = n /\ Len(file) = L
        BY <3>2, <1>5, <1>7
      <4>2. pos2 \in n .. L /\ pos2 - n = k
        <5>1. PICK h \in 1 .. k : h = k
          BY <2>4
        <5>2. pos + k \in 1 .. L
          BY <5>1, <2>5, <4>1
        <5> QED BY <5>2, <4>1, <2>6
      <4>3. Between(list, n, pos2, block)
        BY <4>1, <4>2, <2>4, <2>5 DEF Between
      <4>4. CASE e.kind = "file"
        BY <4>4, <3>1, <4>1, <4>2, <4>3, <1>4, <1>5, <1>6, <2>2, <2>4, <2>6 DEF Streams
      <4>5. CASE e.kind # "file"
        <5>1. e.kind = "dir" /\ pos = 0
          BY <3>2, <4>5, <1>6
        <5>2. L <= ReadBlock
          <6>1. i \in DOMAIN Manifest[p]
            BY <1>6, ManifestTyped
          <6> QED BY <5>1, <6>1, <1>4, <1>5, <1>6 DEF Lone, SearchesFit
        <5>3. pos2 = L
          <6>1. PICK b \in Nat : b = ReadBlock
            BY MeasureAssumption
          <6>2. k = (IF pos + b > L THEN L ELSE pos + b) - pos
            BY <6>1, <2>5, <4>1
          <6> QED BY <6>1, <6>2, <5>1, <5>2, <2>6
        <5>4. Between(list, n, L, block) /\ pos2 >= L
          BY <4>3, <5>3
        <5> QED BY <5>1, <5>4, <3>1, <4>1, <1>4, <1>5, <1>6, <2>2, <2>4, <2>6 DEF Streams
      <4> QED BY <4>4, <4>5
    <3>3. CASE ~ (e.kind = "file" \/ pos = 0)
      <4>1. pos >= L /\ n = L /\ (file = list \/ NoDirs(file))
        BY <3>3, <1>7
      <4>2. NoDirs(file)
        <5>1. ASSUME file = list PROVE FALSE
          <6>1. pos < L
            BY <5>1, <2>5, <1>5
          <6> QED BY <6>1, <4>1
        <5> QED BY <5>1, <4>1
      <4>3. NoDirs(block)
        BY <4>2, <2>4, <2>5 DEF NoDirs
      <4>4. pos2 >= L /\ ~ (e.kind = "file" \/ pos2 = 0)
        BY <4>1, <3>3, <2>4, <2>6
      <4> QED BY <4>1, <4>2, <4>3, <4>4, <3>1, <1>4, <1>5, <1>6, <2>2, <2>4, <2>6 DEF Streams
    <3> QED BY <3>2, <3>3
  <2>8. Works(p, r, link, data)
    BY <1>3, <1>4, <2>2, <2>7, MatchWorks
  <2> QED BY <1>1, <2>1, <2>3, <2>8, WorksSolo DEF Lone
<1> QED BY <1>9, <1>10

-----------------------------------------------------------------------------
(* Paths that are measured.                                                 *)

\* Path n + 1 of entry k was measured, or its directory is next; r follows rest.
Measured(p, r, rest, lk, dt, dt2, k, n) ==
  /\ Writes(p, r, lk, dt2) /\ r.fq = rest.fq
  /\ r.i = rest.i /\ r.fd = rest.fd /\ r.pos = rest.pos /\ r.buf = rest.buf
  /\ \A f \in Inodes : f # r.fq => dt2[f] = dt[f]
  /\ \/ r.pc = rest.pc /\ Measures(p, r.sum, Before(p, k, n + 1))
     \/ /\ r.pc = "dirOpen" /\ <<k, n + 1>> \in Items(p) /\ Manifest[p][k].kind = "dir"
        /\ r.dir = Paths(Manifest[p][k])[n + 1]
        /\ Measures(p, r.sum, Before(p, k, n))

LEMMA PathMeasured ==
  ASSUME NEW p \in Procs, Lone(p), Writes(p, m[p], link, data),
         NEW k \in 1 .. Len(Manifest[p]), k = m[p].i, NEW n \in Nat,
         n + 1 <= Len(Paths(Manifest[p][k])), Measures(p, m[p].sum, Before(p, k, n)),
         NEW path, path = Paths(Manifest[p][k])[n + 1],
         NEW rest, DOMAIN rest = Fields, rest.fq = m[p].fq, rest.sum = m[p].sum,
         rest.out = m[p].out, rest.off = m[p].off, MeasurePath(p, path, rest)
  PROVE  Measured(p, m'[p], rest, link, data, data', k, n)
<1>1. PICK kind : kind = Manifest[p][k].kind /\ kind = Entry(p).kind
  BY DEF Entry
<1>2. DOMAIN m = Procs /\ DOMAIN data = Inodes
  BY DEF Lone, ProcessesOK, LinksInv
<1>3. <<k, n + 1>> \in Items(p) <=> Exists(kind, path)
  <2>1. n + 1 \in 1 .. Len(Paths(Manifest[p][k]))
    BY EntryTyped
  <2> QED BY <2>1, <1>1, ItemAt
<1>4. CASE Exists(kind, path) /\ kind = "file" /\ Emit(p, <<"file", path>>, rest)
  <2>1. PICK c : c = <<"file", path>> /\ c = CellAt(p, <<k, n + 1>>)
    <3>1. <<k, n + 1>>[1] = k /\ <<k, n + 1>>[2] = n + 1
      OBVIOUS
    <3> QED BY <3>1, <1>1, <1>4 DEF CellAt
  <2>2. c \in MCells
    BY <2>1, <1>3, <1>4, CellTyped
  <2>3. Emit(p, c, rest)
    BY <2>1, <1>4
  <2>4. PICK r : /\ m' = [m EXCEPT ![p] = r] /\ DOMAIN r = Fields
                /\ r.pc = rest.pc /\ r.i = rest.i /\ r.dir = rest.dir /\ r.tw = rest.tw
                /\ r.fd = rest.fd /\ r.pos = rest.pos /\ r.buf = rest.buf
                /\ r.sum = Append(m[p].sum, c)
                /\ Writes(p, r, link, data')
                /\ DOMAIN data' = Inodes
                /\ \A f \in Inodes : f # m[p].fq => data'[f] = data[f]
    BY <2>2, <2>3, <1>2, EmitWrites
  <2>5. m'[p] = r
    BY <2>4, <1>2
  <2>6. Measures(p, r.sum, Before(p, k, n + 1))
    BY <2>1, <2>4, <1>3, <1>4, MeasuresNext
  <2>7. r.fq = rest.fq
    BY <2>4 DEF Writes
  <2> QED BY <2>4, <2>5, <2>6, <2>7 DEF Measured
<1>5. CASE /\ Exists(kind, path) /\ kind = "dir" /\ data' = data
           /\ m' = [m EXCEPT ![p] = [rest EXCEPT !.pc = "dirOpen", !.dir = path]]
  <2>1. PICK r : r = m'[p] /\ r = [rest EXCEPT !.pc = "dirOpen", !.dir = path]
    BY <1>2, <1>5
  <2>2. /\ r.pc = "dirOpen" /\ r.dir = path /\ r.fq = rest.fq /\ r.i = rest.i /\ r.fd = rest.fd
        /\ r.pos = rest.pos /\ r.buf = rest.buf /\ r.sum = m[p].sum /\ r.out = m[p].out
        /\ r.off = m[p].off
    BY <2>1 DEF Fields
  <2>3. Writes(p, r, link, data)
    BY <2>2, WritesKept
  <2> QED BY <2>1, <2>2, <2>3, <1>1, <1>3, <1>5 DEF Measured
<1>6. CASE ~Exists(kind, path) /\ m' = [m EXCEPT ![p] = rest] /\ data' = data
  <2>1. m'[p] = rest
    BY <1>2, <1>6
  <2>2. Before(p, k, n + 1) = Before(p, k, n)
    BY <1>3, <1>6, BeforeNext
  <2>3. Writes(p, rest, link, data)
    BY WritesKept
  <2> QED BY <2>1, <2>2, <2>3, <1>6 DEF Measured
<1> QED BY <1>1, <1>4, <1>5, <1>6 DEF MeasurePath

LEMMA MeasureEntrySolo ==
  ASSUME NEW p \in Procs, Lone(p), MeasureEntry(p)
  PROVE  Solo(p, m'[p], link', data')
<1>1. /\ m[p].pc = "next" /\ m[p].i <= Len(Manifest[p]) /\ ~Entry(p).search /\ link' = link
      /\ MeasurePath(p, Entry(p).path, [m[p] EXCEPT !.i = m[p].i + 1])
  BY DEF MeasureEntry
<1>2. Writes(p, m[p], link, data) /\ Works(p, m[p], link, data)
  BY <1>1, LoneWorks
<1>3. m[p].i \in 1 .. Len(Manifest[p]) + 1 /\ m[p].fd = NoFile
      /\ Measures(p, m[p].sum, Before(p, m[p].i, 0))
  BY <1>1, <1>2 DEF Works
<1>4. PICK k \in 1 .. Len(Manifest[p]) : k = m[p].i
  BY <1>1, <1>3, ManifestTyped
<1>5. PICK e, path : e = Manifest[p][k] /\ e = Entry(p) /\ path = e.path
  BY <1>4 DEF Entry
<1>6. Len(Paths(e)) = 1 /\ Paths(e)[1] = path
  BY <1>1, <1>5, EntryTyped
<1>7. PICK rest : rest = [m[p] EXCEPT !.i = m[p].i + 1] /\ MeasurePath(p, path, rest)
  BY <1>1, <1>5
<1>8. /\ DOMAIN rest = Fields /\ rest.fq = m[p].fq /\ rest.sum = m[p].sum
      /\ rest.out = m[p].out /\ rest.off = m[p].off /\ rest.i = k + 1 /\ rest.fd = NoFile
      /\ rest.pc = "next"
  BY <1>1, <1>3, <1>4, <1>7 DEF Lone, ProcessesOK, Fields
<1>9. PICK r : r = m'[p] /\ Measured(p, r, rest, link, data, data', k, 0)
  <2>1. 0 \in Nat /\ 0 + 1 = 1 /\ 0 + 1 <= Len(Paths(e)) /\ path = Paths(e)[0 + 1]
    BY <1>6
  <2> QED BY <2>1, <1>2, <1>3, <1>4, <1>5, <1>7, <1>8, PathMeasured
<1>10. Writes(p, r, link, data') /\ r.i = k + 1 /\ r.fd = NoFile
  BY <1>8, <1>9 DEF Measured
<1>11. CASE r.pc = "next" /\ Measures(p, r.sum, Before(p, k, 0 + 1))
  <2>1. Before(p, k, 1) = Before(p, k + 1, 0)
    BY <1>5, <1>6, BeforeWrap
  <2>2. 0 + 1 = 1
    OBVIOUS
  <2>3. k + 1 \in 1 .. Len(Manifest[p]) + 1
    BY ManifestTyped
  <2>4. Works(p, r, link, data')
    BY <2>1, <2>2, <2>3, <1>10, <1>11 DEF Works
  <2> QED BY <1>1, <1>9, <1>10, <2>4, WorksSolo DEF Lone
<1>12. CASE /\ r.pc = "dirOpen" /\ <<k, 0 + 1>> \in Items(p) /\ Manifest[p][k].kind = "dir"
            /\ r.dir = Paths(Manifest[p][k])[0 + 1]
            /\ Measures(p, r.sum, Before(p, k, 0))
  <2>1. PICK x : x = <<k, 1>> /\ x[1] = k /\ x[2] = 1
    <3>1. <<k, 1>>[1] = k /\ <<k, 1>>[2] = 1
      OBVIOUS
    <3> QED BY <3>1
  <2>2. 0 + 1 = 1 /\ 1 - 1 = 0
    OBVIOUS
  <2>3. Pending(p, r, link, data', k, 1)
    BY <2>2, <1>1, <1>5, <1>10, <1>12 DEF Pending
  <2>4. x \in Items(p) /\ Pending(p, r, link, data', x[1], x[2])
    BY <2>1, <2>2, <2>3, <1>12
  <2>5. Works(p, r, link, data')
    BY <2>4, <1>12 DEF Works
  <2> QED BY <1>1, <1>9, <1>10, <2>5, WorksSolo DEF Lone
<1> QED BY <1>8, <1>9, <1>11, <1>12 DEF Measured

\* The buffer loses its first name.
LEMMA BetweenTail ==
  ASSUME NEW list, NEW n \in Nat, NEW b \in Nat, NEW buf \in Seq(STRING), buf # <<>>,
         Between(list, n, b, buf)
  PROVE  n + 1 <= b /\ Head(buf) = list[n + 1] /\ Between(list, n + 1, b, Tail(buf))
<1>1. PICK S : S = STRING /\ buf \in Seq(S)
  OBVIOUS
<1>2. PICK l \in Nat : l = Len(buf) /\ l # 0 /\ l = b - n
  BY <1>1, EmptySeq DEF Between
<1>3. \A k \in 1 .. l : buf[k] = list[n + k]
  BY <1>2 DEF Between
<1>4. n + 1 <= b /\ 1 \in 1 .. l
  BY <1>2
<1>5. Head(buf) = list[n + 1]
  <2>1. Head(buf) = buf[1]
    BY <1>1
  <2> QED BY <2>1, <1>3, <1>4
<1>6. PICK t : t = Tail(buf) /\ Len(t) = l - 1 /\ \A k \in 1 .. l - 1 : t[k] = buf[k + 1]
  <2>1. Len(Tail(buf)) = Len(buf) - 1
    BY <1>1, HeadTailProperties
  <2>2. \A k \in 1 .. Len(Tail(buf)) : Tail(buf)[k] = buf[k + 1]
    BY <1>1, HeadTailProperties
  <2> QED BY <2>1, <2>2, <1>2
<1>7. l - 1 = b - (n + 1)
  BY <1>2
<1>8. ASSUME NEW k \in 1 .. l - 1 PROVE t[k] = list[(n + 1) + k]
  <2>1. k + 1 \in 1 .. l /\ n + (k + 1) = (n + 1) + k
    BY <1>2
  <2> QED BY <2>1, <1>3, <1>6
<1>9. Between(list, n + 1, b, t)
  BY <1>6, <1>7, <1>8 DEF Between
<1> QED BY <1>4, <1>5, <1>6, <1>9

LEMMA TailTyped ==
  ASSUME NEW buf \in Seq(STRING), buf # <<>>
  PROVE  Tail(buf) \in Seq(STRING) /\ (NoDirs(buf) => ~Exists("dir", Head(buf)) /\ NoDirs(Tail(buf)))
<1>1. PICK S : S = STRING /\ buf \in Seq(S)
  OBVIOUS
<1>2. PICK l \in Nat : l = Len(buf) /\ l # 0
  BY <1>1, EmptySeq
<1>3. Tail(buf) \in Seq(S)
  BY <1>1, HeadTailProperties
<1>4. PICK t : t = Tail(buf) /\ Len(t) = l - 1 /\ \A k \in 1 .. l - 1 : t[k] = buf[k + 1]
  <2>1. Len(Tail(buf)) = Len(buf) - 1
    BY <1>1, HeadTailProperties
  <2>2. \A k \in 1 .. Len(Tail(buf)) : Tail(buf)[k] = buf[k + 1]
    BY <1>1, HeadTailProperties
  <2> QED BY <2>1, <2>2, <1>2
<1>5. ASSUME NoDirs(buf) PROVE ~Exists("dir", Head(buf)) /\ NoDirs(t)
  <2>1. \A k \in 1 .. l : ~Exists("dir", buf[k])
    BY <1>2, <1>5 DEF NoDirs
  <2>2. Head(buf) = buf[1] /\ 1 \in 1 .. l
    BY <1>1, <1>2
  <2>3. \A k \in 1 .. l - 1 : k + 1 \in 1 .. l
    BY <1>2
  <2>4. \A k \in 1 .. l - 1 : ~Exists("dir", t[k])
    BY <2>1, <2>3, <1>4
  <2> QED BY <2>1, <2>2, <2>4, <1>4 DEF NoDirs
<1> QED BY <1>1, <1>3, <1>4, <1>5

\* The search goes on in r with the list that it has.
LEMMA StreamsOn ==
  ASSUME NEW p \in Procs, NEW r, NEW lk, NEW dt, NEW n, Streams(p, r, lk, dt, n),
         NEW r2, NEW dt2, NEW n2, dt2[r.fd] = dt[r.fd],
         r2.i = r.i, r2.fd = r.fd, r2.pos = r.pos, r2.buf \in Seq(STRING),
         n2 \in 0 .. Len(Matches[Manifest[p][r.i].path]),
         IF Manifest[p][r.i].kind = "file" \/ r.pos = 0
         THEN /\ r.pos \in n2 .. Len(Matches[Manifest[p][r.i].path])
              /\ Between(Matches[Manifest[p][r.i].path], n2, r.pos, r2.buf)
         ELSE \/ Between(Matches[Manifest[p][r.i].path], n2,
                         Len(Matches[Manifest[p][r.i].path]), r2.buf)
              \/ n2 = Len(Matches[Manifest[p][r.i].path]) /\ NoDirs(r2.buf)
  PROVE  Streams(p, r2, lk, dt2, n2)
BY DEF Streams

LEMMA MatchSolo ==
  ASSUME NEW p \in Procs, Lone(p), Match(p)
  PROVE  Solo(p, m'[p], link', data')
<1>1. /\ m[p].pc = "match" /\ m[p].buf # <<>> /\ link' = link
      /\ MeasurePath(p, Head(m[p].buf), [m[p] EXCEPT !.buf = Tail(m[p].buf)])
  BY DEF Match
<1>2. Writes(p, m[p], link, data)
  BY <1>1, LoneWorks
<1>3. PICK n : Streams(p, m[p], link, data, n) /\ Measures(p, m[p].sum, Before(p, m[p].i, n))
  BY <1>1, LoneWorks DEF Works
<1>4. PICK e, list, fd, buf :
         /\ e = Manifest[p][m[p].i] /\ list = Matches[e.path] /\ fd = m[p].fd /\ buf = m[p].buf
  OBVIOUS
<1>5. PICK pos, L \in Nat : pos = m[p].pos /\ L = Len(list)
  BY <1>3, <1>4, StreamsParts
<1>6. /\ m[p].i \in 1 .. Len(Manifest[p]) /\ e.search /\ e.kind \in {"file", "dir"}
      /\ Paths(e) = list /\ n \in Nat /\ n <= L
      /\ fd = link["temp"] /\ fd \in Inodes /\ fd # NoFile /\ buf \in Seq(STRING)
  BY <1>3, <1>4, <1>5, StreamsParts
<1>7. fd # m[p].fq
  BY <1>2, <1>6, FilesDiffer DEF Lone
<1>8. PICK rest : /\ rest = [m[p] EXCEPT !.buf = Tail(m[p].buf)]
                  /\ MeasurePath(p, Head(buf), rest)
  BY <1>1, <1>4
<1>9. /\ DOMAIN rest = Fields /\ rest.fq = m[p].fq /\ rest.sum = m[p].sum
      /\ rest.out = m[p].out /\ rest.off = m[p].off /\ rest.i = m[p].i /\ rest.fd = fd
      /\ rest.pc = "match" /\ rest.pos = m[p].pos /\ rest.buf = Tail(buf)
  BY <1>1, <1>4, <1>8 DEF Lone, ProcessesOK, Fields
<1>10. Tail(buf) \in Seq(STRING) /\ (NoDirs(buf) => ~Exists("dir", Head(buf)) /\ NoDirs(Tail(buf)))
  BY <1>1, <1>4, <1>6, TailTyped
<1>11. ASSUME NEW b \in Nat, b <= L, Between(list, n, b, buf),
              (e.kind = "file" \/ pos = 0) => b = pos,
              ~ (e.kind = "file" \/ pos = 0) => b = L
       PROVE  Solo(p, m'[p], link', data')
  <2>1. n + 1 <= b /\ Head(buf) = list[n + 1] /\ Between(list, n + 1, b, Tail(buf))
    <3>1. n \in Nat /\ buf \in Seq(STRING) /\ buf # <<>> /\ Between(list, n, b, buf)
      BY <1>1, <1>4, <1>6, <1>11
    <3>2. Between(list, n + 1, b, Tail(buf))
      BY <3>1, BetweenTail
    <3>3. n + 1 <= b
      BY <3>1, BetweenTail
    <3>4. Head(buf) = list[n + 1]
      BY <3>1, BetweenTail
    <3> QED BY <3>2, <3>3, <3>4
  <2>2. PICK n2 \in Nat : n2 = n + 1 /\ n2 <= L /\ n2 <= b /\ n2 - 1 = n
    BY <2>1, <1>6, <1>11
  <2>3. PICK k \in 1 .. Len(Manifest[p]) : k = m[p].i
    BY <1>6
  <2>4. PICK path : path = Head(buf) /\ path = Paths(Manifest[p][k])[n + 1]
                    /\ n + 1 <= Len(Paths(Manifest[p][k]))
    BY <2>1, <2>2, <2>3, <1>4, <1>5, <1>6
  <2>5. PICK r : r = m'[p] /\ Measured(p, r, rest, link, data, data', k, n)
    BY <2>3, <2>4, <1>2, <1>3, <1>6, <1>8, <1>9, PathMeasured
  <2>6. /\ Writes(p, r, link, data') /\ r.i = m[p].i /\ r.fd = m[p].fd /\ r.pos = m[p].pos
        /\ r.buf = Tail(buf) /\ data'[fd] = data[fd]
    BY <2>5, <1>4, <1>6, <1>7, <1>9 DEF Measured
  <2>7. Streams(p, r, link, data', n2)
    <3>1. n2 \in 0 .. L
      BY <2>2
    <3>2. (e.kind = "file" \/ pos = 0) => pos \in n2 .. L /\ Between(list, n2, pos, r.buf)
      BY <2>1, <2>2, <2>6, <1>11
    <3>3. ~ (e.kind = "file" \/ pos = 0) => Between(list, n2, L, r.buf)
      BY <2>1, <2>2, <2>6, <1>11
    <3> QED BY <3>1, <3>2, <3>3, <2>6, <1>3, <1>4, <1>5, <1>10, StreamsOn
  <2>8. CASE r.pc = "match" /\ Measures(p, r.sum, Before(p, k, n + 1))
    <3>1. Measures(p, r.sum, Before(p, r.i, n2))
      BY <2>2, <2>3, <2>6, <2>8
    <3>2. Works(p, r, link, data')
      BY <3>1, <2>7, <2>8, MatchWorks
    <3> QED BY <3>2, <2>5, <2>6, <1>1, WorksSolo DEF Lone
  <2>9. CASE /\ r.pc = "dirOpen" /\ <<k, n + 1>> \in Items(p) /\ Manifest[p][k].kind = "dir"
             /\ r.dir = Paths(Manifest[p][k])[n + 1]
             /\ Measures(p, r.sum, Before(p, k, n))
    <3>1. PICK x : x = <<k, n2>> /\ x[1] = k /\ x[2] = n2
      <4>1. <<k, n2>>[1] = k /\ <<k, n2>>[2] = n2
        OBVIOUS
      <4> QED BY <4>1
    <3>2. Pending(p, r, link, data', k, n2)
      <4>1. r.fd # NoFile /\ k = r.i
        BY <2>3, <2>6, <1>4, <1>6
      <4> QED BY <4>1, <2>2, <2>7, <2>9 DEF Pending
    <3>3. x \in Items(p) /\ Pending(p, r, link, data', x[1], x[2])
      BY <3>1, <3>2, <2>2, <2>9
    <3>4. Works(p, r, link, data')
      BY <3>3, <2>9 DEF Works
    <3> QED BY <3>4, <2>5, <2>6, <1>1, WorksSolo DEF Lone
  <2> QED BY <2>5, <2>8, <2>9, <1>9 DEF Measured
<1>12. ASSUME n = L, NoDirs(buf), ~ (e.kind = "file" \/ pos = 0)
       PROVE  Solo(p, m'[p], link', data')
  <2>1. ~Exists("dir", Head(buf)) /\ NoDirs(Tail(buf)) /\ Entry(p).kind = "dir"
    BY <1>4, <1>6, <1>10, <1>12 DEF Entry
  <2>2. m' = [m EXCEPT ![p] = rest] /\ data' = data
    BY <2>1, <1>8 DEF MeasurePath
  <2>3. m'[p] = rest
    BY <2>2 DEF Lone, ProcessesOK
  <2>4. Writes(p, rest, link, data)
    BY <1>2, <1>9, WritesKept
  <2>5. Streams(p, rest, link, data, n)
    <3>1. n \in 0 .. L
      BY <1>6
    <3> QED BY <3>1, <2>1, <1>3, <1>4, <1>5, <1>9, <1>10, <1>12, StreamsOn
  <2>6. Works(p, rest, link, data)
    BY <2>5, <1>3, <1>9, MatchWorks
  <2> QED BY <2>2, <2>3, <2>4, <2>6, <1>1, WorksSolo DEF Lone
<1>13. CASE e.kind = "file" \/ pos = 0
  <2>1. pos \in n .. L /\ Between(list, n, pos, buf)
    BY <1>3, <1>4, <1>5, <1>13 DEF Streams
  <2>2. pos <= L
    BY <2>1, <1>6
  <2> QED BY <2>1, <2>2, <1>11, <1>13
<1>14. CASE ~ (e.kind = "file" \/ pos = 0)
  <2>1. Between(list, n, L, buf) \/ (n = L /\ NoDirs(buf))
    BY <1>3, <1>4, <1>5, <1>14 DEF Streams
  <2>2. L <= L
    OBVIOUS
  <2> QED BY <2>1, <2>2, <1>11, <1>12, <1>14
<1> QED BY <1>13, <1>14

-----------------------------------------------------------------------------
(* Directories.                                                             *)

\* The list of a search is overwritten after it was read.
LEMMA PendingOn ==
  ASSUME NEW p \in Procs, NEW r, NEW lk, NEW dt, NEW k, NEW n, Pending(p, r, lk, dt, k, n),
         NEW r2, NEW lk2, NEW dt2, r2.dir = r.dir, r2.sum = r.sum, r2.i = r.i, r2.fd = r.fd,
         r2.pos = r.pos, r2.buf = r.buf, lk2["temp"] \in Inodes,
         r.fd # NoFile => lk2["temp"] = lk["temp"],
         r.fd # NoFile => NoDirs(dt2[r.fd]),
         dt2[lk2["temp"]] \in Seq(STRING)
  PROVE  Pending(p, r2, lk2, dt2, k, n)
<1>1. CASE r.fd = NoFile
  BY <1>1 DEF Pending
<1>2. CASE r.fd # NoFile
  <2>1. k = r.i /\ Streams(p, r, lk, dt, n) /\ <<k, n>> \in Items(p) /\ Manifest[p][k].kind = "dir"
    BY <1>2 DEF Pending
  <2>2. PICK e, list : e = Manifest[p][r.i] /\ list = Matches[e.path]
    OBVIOUS
  <2>3. n \in Nat /\ n >= 1
    <3>1. <<k, n>>[1] = k /\ <<k, n>>[2] = n
      OBVIOUS
    <3>2. n \in 1 .. Len(Paths(Manifest[p][k]))
      BY <2>1, <3>1, ItemParts
    <3>3. \A l : \A y \in 1 .. l : y \in Int /\ y >= 1
      OBVIOUS
    <3> QED BY <3>2, <3>3
  <2>4. PICK pos, L \in Nat : pos = r.pos /\ L = Len(list)
    BY <2>1, <2>2, StreamsParts
  <2>5. ~ (e.kind = "file" \/ pos = 0)
    <3>1. e.kind = "dir"
      BY <2>1, <2>2
    <3>2. ASSUME pos = 0 PROVE FALSE
      <4>1. pos \in n .. L
        BY <2>1, <2>2, <2>4, <3>2 DEF Streams
      <4> QED BY <4>1, <3>2, <2>3
    <3> QED BY <3>1, <3>2
  <2>6. /\ r.i \in 1 .. Len(Manifest[p]) /\ e.search /\ r.fd = lk["temp"] /\ r.fd \in Inodes
        /\ r.pos \in Nat /\ r.buf \in Seq(STRING) /\ n \in 0 .. Len(list) /\ pos >= L
        /\ Between(list, n, L, r.buf) \/ (n = L /\ NoDirs(r.buf))
    BY <2>1, <2>2, <2>4, <2>5 DEF Streams
  <2>7. lk2["temp"] = r.fd /\ NoDirs(dt2[r.fd]) /\ dt2[r.fd] \in Seq(STRING)
    BY <1>2, <2>6
  <2>8. Streams(p, r2, lk2, dt2, n)
    BY <2>2, <2>4, <2>5, <2>6, <2>7 DEF Streams
  <2> QED BY <1>2, <2>1, <2>8 DEF Pending
<1> QED BY <1>1, <1>2

\* Between the steps for one directory.
LEMMA LonePending ==
  ASSUME NEW p \in Procs, Lone(p), m[p].pc \in {"dirOpen", "dirWrite", "dirRead"}
  PROVE  /\ Writes(p, m[p], link, data)
         /\ \E x \in Items(p) : Pending(p, m[p], link, data, x[1], x[2])
         /\ m[p].pc = "dirWrite" => TempEmpty(m[p], link, data)
         /\ m[p].pc = "dirRead" => TempHolds(link, data, Listing[m[p].dir])
BY LoneWorks DEF Works

LEMMA DirOpenSolo ==
  ASSUME NEW p \in Procs, Lone(p), DirOpen(p)
  PROVE  Solo(p, m'[p], link', data')
<1>0. m[p].pc = "dirOpen" /\ Truncate("temp")
  BY DEF DirOpen
<1>1. PICK r : r = m'[p] /\ r = [m[p] EXCEPT !.pc = "dirWrite", !.tw = InodeOf("temp")]
  BY DEF DirOpen, Lone, ProcessesOK
<1>2. /\ r.pc = "dirWrite" /\ r.tw = InodeOf("temp") /\ r.fq = m[p].fq /\ r.sum = m[p].sum
      /\ r.out = m[p].out /\ r.off = m[p].off /\ r.fd = m[p].fd /\ r.i = m[p].i
      /\ r.pos = m[p].pos /\ r.buf = m[p].buf /\ r.dir = m[p].dir
  BY <1>1 DEF Lone, ProcessesOK, Fields
<1>3. Writes(p, m[p], link, data)
  BY <1>0, LonePending
<1>4. PICK x \in Items(p) : Pending(p, m[p], link, data, x[1], x[2])
  BY <1>0, LonePending
<1>5. Writes(p, r, link', data') /\ TempEmpty(r, link', data')
  BY <1>0, <1>2, <1>3, TruncateTemp DEF Lone
<1>6. link'["temp"] \in Inodes /\ data'[link'["temp"]] = <<>> /\ link'["temp"] = InodeOf("temp")
  BY <1>2, <1>5 DEF TempEmpty
<1>7. ASSUME m[p].fd # NoFile PROVE link'["temp"] = link["temp"] /\ m[p].fd = link["temp"]
  <2>1. m[p].fd = link["temp"]
    BY <1>4, <1>7 DEF Pending, Streams
  <2> QED BY <2>1, <1>6, <1>7 DEF InodeOf
<1>8. NoDirs(<<>>) /\ <<>> \in Seq(STRING)
  BY EmptySeq DEF NoDirs
<1>9. Pending(p, r, link', data', x[1], x[2])
  <2>1. PICK lk2, dt2 : lk2 = link' /\ dt2 = data'
    OBVIOUS
  <2>2. /\ lk2["temp"] \in Inodes /\ dt2[lk2["temp"]] \in Seq(STRING)
        /\ m[p].fd # NoFile => lk2["temp"] = link["temp"]
        /\ m[p].fd # NoFile => NoDirs(dt2[m[p].fd])
    BY <2>1, <1>6, <1>7, <1>8
  <2>3. Pending(p, r, lk2, dt2, x[1], x[2])
    BY <2>2, <1>2, <1>4, PendingOn
  <2> QED BY <2>1, <2>3
<1>10. Works(p, r, link', data')
  BY <1>2, <1>5, <1>9 DEF Works
<1> QED BY <1>1, <1>5, <1>10, WorksSolo DEF Lone

LEMMA DirWriteSolo ==
  ASSUME NEW p \in Procs, Lone(p), DirWrite(p)
  PROVE  Solo(p, m'[p], link', data')
<1>0. PICK list : list = Listing[m[p].dir]
  OBVIOUS
<1>1. PICK r : r = m'[p] /\ r = [m[p] EXCEPT !.pc = "dirRead", !.tw = NoFile]
  BY DEF DirWrite, Lone, ProcessesOK
<1>2. /\ r.pc = "dirRead" /\ r.fq = m[p].fq /\ r.sum = m[p].sum
      /\ r.out = m[p].out /\ r.off = m[p].off /\ r.fd = m[p].fd /\ r.i = m[p].i
      /\ r.pos = m[p].pos /\ r.buf = m[p].buf /\ r.dir = m[p].dir
  BY <1>1 DEF Lone, ProcessesOK, Fields
<1>3. /\ m[p].pc = "dirWrite" /\ link' = link
      /\ data' = [data EXCEPT ![m[p].tw] = WriteAt(@, list, 0)]
  BY <1>0 DEF DirWrite
<1>4. Writes(p, m[p], link, data) /\ TempEmpty(m[p], link, data)
  BY <1>3, LonePending
<1>5. PICK x \in Items(p) : Pending(p, m[p], link, data, x[1], x[2])
  BY <1>3, LonePending
<1>6. PICK k, n : k = x[1] /\ n = x[2]
  OBVIOUS
<1>7. Exists("dir", m[p].dir)
  BY <1>5, ItemParts DEF Pending
<1>8. m[p].dir \in DOMAIN Listing /\ list \in Seq(STRING)
  BY <1>0, <1>7, MeasureAssumption DEF Exists
<1>9. Writes(p, r, link', data') /\ TempHolds(link', data', list)
  BY <1>2, <1>3, <1>4, <1>8, WriteTemp DEF Lone
<1>10. link'["temp"] \in Inodes /\ data'[link'["temp"]] = list
  BY <1>9 DEF TempHolds
<1>11. ASSUME m[p].fd # NoFile PROVE m[p].fd = link["temp"] /\ NoDirs(list)
  <2>1. /\ k = m[p].i /\ Streams(p, m[p], link, data, n) /\ Manifest[p][k].kind = "dir"
        /\ m[p].dir = Paths(Manifest[p][k])[n]
    BY <1>5, <1>6, <1>11 DEF Pending
  <2>2. PICK e, s : e = Manifest[p][k] /\ s = Matches[e.path] /\ e.search /\ Paths(e) = s
                    /\ s \in Seq(STRING) /\ k \in 1 .. Len(Manifest[p]) /\ m[p].fd = link["temp"]
    BY <2>1, StreamsParts
  <2>3. n \in 1 .. Len(s)
    BY <2>2, <1>6, ItemParts
  <2>4. m[p].dir \in ToSet(s)
    <3>1. DOMAIN s = 1 .. Len(s)
      <4>1. PICK S : S = STRING
        OBVIOUS
      <4>2. s \in Seq(S)
        BY <4>1, <2>2
      <4> QED BY <4>2
    <3> QED BY <3>1, <2>1, <2>2, <2>3 DEF ToSet
  <2>5. k \in DOMAIN Manifest[p]
    BY <2>2, ManifestTyped
  <2>6. \A name \in ToSet(list) : ~Exists("dir", name)
    BY <2>1, <2>2, <2>4, <2>5, <1>0, <1>8 DEF Lone, SearchesFit
  <2>7. \A h \in 1 .. Len(list) : list[h] \in ToSet(list)
    <3>1. DOMAIN list = 1 .. Len(list)
      <4>1. PICK S : S = STRING
        OBVIOUS
      <4>2. list \in Seq(S)
        BY <4>1, <1>8
      <4> QED BY <4>2
    <3> QED BY <3>1 DEF ToSet
  <2> QED BY <2>2, <2>6, <2>7 DEF NoDirs
<1>12. Pending(p, r, link', data', x[1], x[2])
  <2>1. PICK lk2, dt2 : lk2 = link' /\ dt2 = data'
    OBVIOUS
  <2>2. /\ lk2["temp"] \in Inodes /\ dt2[lk2["temp"]] \in Seq(STRING)
        /\ lk2["temp"] = link["temp"]
        /\ m[p].fd # NoFile => NoDirs(dt2[m[p].fd])
    BY <2>1, <1>3, <1>8, <1>10, <1>11
  <2>3. Pending(p, r, lk2, dt2, x[1], x[2])
    BY <2>2, <1>2, <1>5, PendingOn
  <2> QED BY <2>1, <2>3
<1>13. Works(p, r, link', data')
  BY <1>0, <1>2, <1>9, <1>12 DEF Works
<1> QED BY <1>1, <1>9, <1>13, WorksSolo DEF Lone

LEMMA DirReadSolo ==
  ASSUME NEW p \in Procs, Lone(p), DirRead(p)
  PROVE  Solo(p, m'[p], link', data')
<1>1. m[p].pc = "dirRead" /\ link' = link
  BY DEF DirRead
<1>2. Writes(p, m[p], link, data) /\ TempHolds(link, data, Listing[m[p].dir])
  BY <1>1, LonePending
<1>3. PICK x \in Items(p) : Pending(p, m[p], link, data, x[1], x[2])
  BY <1>1, LonePending
<1>4. link["temp"] \in Inodes /\ link["temp"] # NoFile /\ data[link["temp"]] = Listing[m[p].dir]
  BY <1>2 DEF TempHolds, Inodes, NoFile
<1>5. PICK k, n, c, e : /\ k = x[1] /\ n = x[2] /\ x = <<k, n>> /\ e = Manifest[p][k]
                        /\ c = CellAt(p, x)
  BY ItemParts
<1>6. c = <<"dir", m[p].dir, data[link["temp"]]>> /\ c \in MCells
  <2>1. e.kind = "dir" /\ m[p].dir = Paths(e)[n]
    BY <1>3, <1>5 DEF Pending
  <2>2. c = <<"dir", m[p].dir, Listing[m[p].dir]>>
    BY <2>1, <1>5 DEF CellAt
  <2> QED BY <2>2, <1>4, <1>5, CellTyped
<1>7. PICK next : /\ next = IF m[p].fd # NoFile THEN [m[p] EXCEPT !.pc = "match"]
                           ELSE [m[p] EXCEPT !.pc = "next"]
                  /\ Emit(p, c, next)
  BY <1>4, <1>6 DEF DirRead
<1>8. /\ DOMAIN next = Fields /\ next.fq = m[p].fq /\ next.i = m[p].i /\ next.fd = m[p].fd
      /\ next.pos = m[p].pos /\ next.buf = m[p].buf
      /\ next.pc = IF m[p].fd # NoFile THEN "match" ELSE "next"
  BY <1>7 DEF Lone, ProcessesOK, Fields
<1>9. DOMAIN m = Procs /\ DOMAIN data = Inodes
  BY DEF Lone, ProcessesOK, LinksInv
<1>10. PICK r : /\ m' = [m EXCEPT ![p] = r] /\ DOMAIN r = Fields
                /\ r.pc = next.pc /\ r.i = next.i /\ r.dir = next.dir /\ r.tw = next.tw
                /\ r.fd = next.fd /\ r.pos = next.pos /\ r.buf = next.buf
                /\ r.sum = Append(m[p].sum, c)
                /\ Writes(p, r, link, data')
                /\ DOMAIN data' = Inodes
                /\ \A f \in Inodes : f # m[p].fq => data'[f] = data[f]
  <2>1. Emit(p, c, next) /\ c \in MCells
    BY <1>6, <1>7
  <2> QED BY <2>1, <1>2, <1>8, <1>9, EmitWrites
<1>11. m'[p] = r
  BY <1>9, <1>10
<1>12. k \in 1 .. Len(Manifest[p]) /\ n \in 1 .. Len(Paths(e)) /\ Measures(p, m[p].sum, Before(p, k, n - 1))
  BY <1>3, <1>5, ItemParts DEF Pending
<1>13. Measures(p, r.sum, Before(p, k, n))
  <2>1. PICK n1 \in Nat : n1 = n - 1 /\ n = n1 + 1
    <3>1. PICK l \in Nat : l = Len(Paths(e))
      BY <1>5, <1>12, EntryTyped
    <3> QED BY <3>1, <1>12
  <2>2. Measures(p, m[p].sum, Before(p, k, n1)) /\ <<k, n1 + 1>> \in Items(p)
        /\ c = CellAt(p, <<k, n1 + 1>>)
    BY <2>1, <1>5, <1>12
  <2>3. Measures(p, Append(m[p].sum, c), Before(p, k, n1 + 1))
    BY <2>2, <1>12, MeasuresNext
  <2> QED BY <2>1, <2>3, <1>10
<1>14. CASE m[p].fd = NoFile
  <2>1. m[p].i = k + 1 /\ ~e.search
    BY <1>3, <1>5, <1>14 DEF Pending
  <2>2. Len(Paths(e)) = 1
    BY <2>1, <1>5, <1>12, EntryTyped
  <2>3. n = 1 /\ Before(p, k, n) = Before(p, k + 1, 0)
    <3>1. n = 1
      BY <2>2, <1>12
    <3>2. Before(p, k, Len(Paths(e))) = Before(p, k + 1, 0)
      BY <1>5, <1>12, BeforeWrap
    <3> QED BY <3>1, <3>2, <2>2
  <2>4. r.pc = "next" /\ r.fd = NoFile /\ r.i = m[p].i
    BY <1>8, <1>10, <1>14
  <2>5. r.i = k + 1 /\ r.i \in 1 .. Len(Manifest[p]) + 1
    BY <2>1, <2>4, <1>12, ManifestTyped
  <2>6. Works(p, r, link, data')
    BY <2>3, <2>4, <2>5, <1>13 DEF Works
  <2> QED BY <2>6, <1>1, <1>10, <1>11, WorksSolo DEF Lone
<1>15. CASE m[p].fd # NoFile
  <2>1. k = m[p].i /\ Streams(p, m[p], link, data, n)
    BY <1>3, <1>5, <1>15 DEF Pending
  <2>2. r.pc = "match" /\ r.fd = m[p].fd /\ r.i = m[p].i /\ r.pos = m[p].pos /\ r.buf = m[p].buf
    BY <1>8, <1>10, <1>15
  <2>3. m[p].fd \in Inodes /\ m[p].fd # m[p].fq
    BY <2>1, <1>2, FilesDiffer DEF Streams, Lone
  <2>4. data'[m[p].fd] = data[m[p].fd]
    BY <2>3, <1>10
  <2>5. Streams(p, r, link, data', n)
    BY <2>1, <2>2, <2>4 DEF Streams
  <2>6. Works(p, r, link, data')
    BY <2>1, <2>2, <2>5, <1>13, MatchWorks
  <2> QED BY <2>6, <1>1, <1>10, <1>11, WorksSolo DEF Lone
<1> QED BY <1>14, <1>15

\* The file and the buffer together are the result.
LEMMA CloseSolo ==
  ASSUME NEW p \in Procs, Lone(p), Close(p)
  PROVE  Solo(p, m'[p], link', data')
<1>1. PICK fq, sum, out, file : fq = m[p].fq /\ sum = m[p].sum /\ out = m[p].out /\ file = data[fq]
  OBVIOUS
<1>2. m[p].pc = "next" /\ m[p].i > Len(Manifest[p]) /\ link' = link
  BY DEF Close
<1>3. Writes(p, m[p], link, data) /\ Works(p, m[p], link, data)
  BY <1>2, LoneWorks
<1>4. m[p].i = Len(Manifest[p]) + 1 /\ Measures(p, sum, Before(p, m[p].i, 0))
  <2>1. m[p].i \in 1 .. Len(Manifest[p]) + 1 /\ Measures(p, sum, Before(p, m[p].i, 0))
    BY <1>1, <1>2, <1>3 DEF Works
  <2> QED BY <2>1, <1>2, ManifestTyped
<1>5. Measures(p, sum, Items(p))
  BY <1>4, BeforeAll
<1>6. sum = Measurement(p)
  BY <1>5, MeasuresEnd
<1>7. /\ fq \in Inodes /\ link["measurement"] = fq
      /\ sum \in Seq(MCells) /\ out \in Seq(MCells) /\ file \in Seq(MCells)
      /\ m[p].off = Len(file) /\ Len(file) + Len(out) = 1 + Len(sum)
      /\ \A k \in 1 .. Len(file) : file[k] = Line(p, sum, k)
      /\ \A k \in 1 .. Len(out) : out[k] = Line(p, sum, Len(file) + k)
  BY <1>1, <1>3 DEF Writes
<1>8. PICK a, b, l \in Nat : a = Len(file) /\ b = Len(out) /\ l = Len(sum) /\ a + b = 1 + l
                             /\ l = Cardinality(Items(p))
  <2>1. Len(file) \in Nat
    BY <1>7
  <2>2. Len(out) \in Nat
    BY <1>7
  <2>3. Len(sum) \in Nat
    BY <1>7
  <2>4. Len(sum) = Cardinality(Items(p))
    BY <1>5 DEF Measures
  <2> QED BY <2>1, <2>2, <2>3, <2>4, <1>7
<1>9. PICK cum, S : cum = <<"cumulative", sum>> /\ S = MCells \cup {cum}
  OBVIOUS
<1>10. file \in Seq(S) /\ out \in Seq(S) /\ cum \in S
  <2>1. \A s \in Seq(MCells) : s \in Seq(S)
    BY <1>9
  <2> QED BY <2>1, <1>7, <1>9
<1>11. PICK out2 : /\ out2 = Append(out, cum) /\ out2 \in Seq(S) /\ Len(out2) = b + 1
                   /\ out2[b + 1] = cum /\ \A k \in 1 .. b : out2[k] = out[k]
  <2>1. Append(out, cum) \in Seq(S) /\ Len(Append(out, cum)) = b + 1
    BY <1>8, <1>10
  <2>2. Append(out, cum)[b + 1] = cum
    BY <1>8, <1>10
  <2>3. \A k \in 1 .. b : Append(out, cum)[k] = out[k]
    BY <1>8, <1>10
  <2> QED BY <2>1, <2>2, <2>3
<1>12. PICK w : w = file \o out2 /\ w = WriteAt(file, out2, Len(file))
  BY <1>10, <1>11, WriteAtEnd
<1>13. w \in Seq(S) /\ Len(w) = a + (b + 1)
  <2>1. file \o out2 \in Seq(S) /\ Len(file \o out2) = Len(file) + Len(out2)
    BY <1>10, <1>11, ConcatProperties
  <2> QED BY <2>1, <1>8, <1>11, <1>12
<1>14. \A k \in 1 .. a + (b + 1) : w[k] = IF k <= a THEN file[k] ELSE out2[k - a]
  <2>1. \A k \in 1 .. Len(file) + Len(out2) :
           (file \o out2)[k] = IF k <= Len(file) THEN file[k] ELSE out2[k - Len(file)]
    BY <1>10, <1>11, ConcatProperties
  <2> QED BY <2>1, <1>8, <1>11, <1>12
<1>15. ASSUME NEW k \in 1 .. l + 1 PROVE w[k] = Line(p, sum, k)
  <2>1. k \in 1 .. a + (b + 1)
    BY <1>8
  <2>2. CASE k <= a
    <3>1. k \in 1 .. a
      BY <2>2
    <3> QED BY <3>1, <2>1, <2>2, <1>7, <1>8, <1>14
  <2>3. CASE ~ (k <= a)
    <3>1. PICK h \in 1 .. b : h = k - a /\ a + h = k
      BY <2>3, <1>8
    <3>2. w[k] = out2[h] /\ out2[h] = out[h]
      BY <3>1, <2>1, <2>3, <1>11, <1>14
    <3>3. out[h] = Line(p, sum, a + h)
      BY <3>1, <1>7, <1>8
    <3> QED BY <3>1, <3>2, <3>3
  <2> QED BY <2>2, <2>3
<1>16. w[l + 2] = cum
  <2>1. l + 2 \in 1 .. a + (b + 1) /\ ~ (l + 2 <= a) /\ (l + 2) - a = b + 1
    BY <1>8
  <2> QED BY <2>1, <1>11, <1>14
<1>17. w = Reference(p)
  <2>1. PICK ref, T : ref = Reference(p) /\ ref \in Seq(T)
    BY ReferenceIs
  <2>2. Len(ref) = l + 2
    BY <2>1, <1>8, ReferenceIs
  <2>3. ref[1] = <<"header", p>>
    BY <2>1, ReferenceIs
  <2>4. \A k \in 1 .. l : ref[k + 1] = sum[k]
    BY <2>1, <1>6, <1>8, ReferenceIs
  <2>5. ref[l + 2] = cum
    BY <2>1, <1>6, <1>8, <1>9, ReferenceIs
  <2>6. Len(w) = l + 2
    BY <1>8, <1>13
  <2>7. ASSUME NEW k \in 1 .. l + 2 PROVE w[k] = ref[k]
    <3>1. CASE k = l + 2
      BY <3>1, <2>5, <1>16
    <3>2. CASE k = 1
      <4>1. 1 \in 1 .. l + 1
        OBVIOUS
      <4> QED BY <3>2, <4>1, <2>3, <1>15 DEF Line
    <3>3. CASE k # 1 /\ k # l + 2
      <4>1. PICK h \in 1 .. l : h = k - 1 /\ h + 1 = k
        BY <3>3
      <4>2. k \in 1 .. l + 1
        BY <3>3
      <4>3. w[k] = sum[h]
        BY <3>3, <4>1, <4>2, <1>15 DEF Line
      <4> QED BY <4>1, <4>3, <2>4
    <3> QED BY <3>1, <3>2, <3>3
  <2>8. w = [k \in 1 .. l + 2 |-> w[k]]
    BY <1>13, <2>6
  <2>9. ref = [k \in 1 .. l + 2 |-> ref[k]]
    BY <2>1, <2>2
  <2> QED BY <2>1, <2>7, <2>8, <2>9
<1>18. data'[fq] = w
  <2>1. data' = [data EXCEPT ![fq] = WriteAt(data[fq], out2, m[p].off)]
    BY <1>1, <1>9, <1>11 DEF Close
  <2> QED BY <2>1, <1>1, <1>7, <1>12 DEF Lone, LinksInv
<1>19. m'[p].pc = "read"
  BY DEF Close, Lone, ProcessesOK, NotStarted
<1> QED BY <1>2, <1>7, <1>17, <1>18, <1>19 DEF Solo, Lone

-----------------------------------------------------------------------------
(* All processes.                                                           *)

LEMMA StepSolo ==
  ASSUME NEW p \in Procs, LinksInv, ProcessesOK, SearchesFit(p), Solo(p, m[p], link, data),
         Step(p), ~RemoveList(p)
  PROVE  Solo(p, m'[p], link', data')
<1>1. CASE ~Digest[p]
  <2>1. m[p].pc \in {"giveUp", "remove", "removeList"} /\ m[p].xml = Null
    BY <1>1 DEF Solo
  <2>2. GiveUp(p) \/ RemoveMeasurement(p)
    BY <2>1 DEF Step, MeasureEntry, SearchOpen, SearchWrite, SearchFails, SearchRead, Refill,
                Match, DirOpen, DirWrite, DirRead, Close, ReadLength, Read
  <2>3. CASE GiveUp(p)
    <3>1. m'[p].pc = "remove" /\ m'[p].xml = Null
      BY <2>3 DEF GiveUp, ProcessesOK, NotStarted
    <3> QED BY <1>1, <3>1 DEF Solo
  <2>4. CASE RemoveMeasurement(p)
    BY <1>1, <2>1, <2>4, RemoveGoesOn DEF Solo
  <2> QED BY <2>2, <2>3, <2>4
<1>2. CASE Digest[p]
  <2>1. Lone(p)
    BY <1>2 DEF Lone
  <2>2. ~GiveUp(p)
    BY <1>2 DEF GiveUp, Solo, Works
  <2>3. CASE RemoveMeasurement(p)
    <3>1. m[p].pc = "remove"
      BY <2>3 DEF RemoveMeasurement
    <3>2. m[p].xml = Reference(p)
      BY <1>2, <3>1 DEF Solo, Works
    <3> QED BY <1>2, <2>3, <3>2, RemoveGoesOn DEF Solo
  <2> QED BY <2>1, <2>2, <2>3, MeasureEntrySolo, SearchOpenSolo, SearchWriteSolo,
             SearchFailsSolo, SearchReadSolo, RefillSolo, MatchSolo, DirOpenSolo, DirWriteSolo,
             DirReadSolo, CloseSolo, ReadLengthSolo, ReadSolo DEF Step
<1> QED BY <1>1, <1>2, ManifestTyped

\* What a process writes stays in its files.
LEMMA PathFiles ==
  ASSUME NEW p \in Procs, NEW path, NEW rest, DOMAIN data = Inodes, MeasurePath(p, path, rest)
  PROVE  DOMAIN data' = Inodes
BY DEF MeasurePath, Emit

LEMMA LinksStep == LinksInv /\ [Next]_vars => LinksInv'
<1> SUFFICES ASSUME LinksInv, [Next]_vars PROVE LinksInv'
  OBVIOUS
<1>1. ASSUME NEW f \in Files, Truncate(f) PROVE LinksInv'
  BY <1>1, TruncateMakes
<1>2. ASSUME link' = link, DOMAIN data' = Inodes PROVE LinksInv'
  BY <1>2 DEF LinksInv
<1>3. DOMAIN data = Inodes /\ "measurement" \in Files /\ "temp" \in Files
  BY DEF LinksInv, Files
<1>4. ASSUME NEW p \in Procs, Start(p) \/ SearchOpen(p) \/ DirOpen(p) PROVE LinksInv'
  BY <1>1, <1>3, <1>4 DEF Start, SearchOpen, DirOpen
<1>5. ASSUME NEW p \in Procs, MeasureEntry(p) PROVE LinksInv'
  BY <1>2, <1>3, <1>5, PathFiles DEF MeasureEntry
<1>6. ASSUME NEW p \in Procs, Match(p) PROVE LinksInv'
  BY <1>2, <1>3, <1>6, PathFiles DEF Match
<1>7. ASSUME NEW p \in Procs, SearchWrite(p) \/ DirWrite(p) \/ Close(p) \/ GiveUp(p)
      PROVE  LinksInv'
  BY <1>2, <1>3, <1>7 DEF SearchWrite, DirWrite, Close, GiveUp
<1>8. ASSUME NEW p \in Procs, DirRead(p) PROVE LinksInv'
  BY <1>2, <1>3, <1>8 DEF DirRead, Emit
<1>9. ASSUME NEW p \in Procs, \/ SearchFails(p) \/ SearchRead(p) \/ Refill(p) \/ ReadLength(p)
                               \/ Read(p) \/ Kill(p)
      PROVE  LinksInv'
  BY <1>2, <1>3, <1>9 DEF SearchFails, SearchRead, Refill, ReadLength, Read, Kill
<1>10. ASSUME NEW p \in Procs, RemoveMeasurement(p) \/ RemoveList(p) PROVE LinksInv'
  BY <1>3, <1>10 DEF RemoveMeasurement, RemoveList, LinksInv
<1>11. CASE UNCHANGED vars
  BY <1>2, <1>3, <1>11 DEF vars
<1> QED
  BY <1>4, <1>5, <1>6, <1>7, <1>8, <1>9, <1>10, <1>11 DEF Next, Step

LEMMA SoloStep == MeasureInv /\ [Next]_vars => MeasureInv'
<1> SUFFICES ASSUME MeasureInv, [Next]_vars PROVE MeasureInv'
  OBVIOUS
<1>0. LinksInv /\ StatesInv /\ ProcessesOK /\ SoloInv
  BY DEF MeasureInv, StatesInv
<1>1. LinksInv'
  BY <1>0, LinksStep
<1>2. ASSUME NEW p \in Procs, Start(p) \/ (Step(p) /\ ~RemoveList(p))
      PROVE  ProcessesOK' /\ Running(p)' /\ \A q \in Procs : q # p => m'[q] = m[q]
  <2>1. CASE RemoveMeasurement(p)
    BY <1>0, <2>1, RemoveGoesOn DEF Running
  <2>2. CASE ~RemoveMeasurement(p)
    BY <1>0, <1>2, <2>2, StepGoesOn DEF Owner, Running
  <2> QED BY <2>1, <2>2
<1>3. ASSUME NEW p \in Procs, Start(p) PROVE StatesInv' /\ SoloInv'
  <2>1. ProcessesOK' /\ Running(p)' /\ \A q \in Procs : q # p => m'[q] = m[q]
    BY <1>2, <1>3
  <2>2. StatesInv'
    BY <2>1, <1>0 DEF StatesInv, Running
  <2>3. m[p].pc = "start" /\ m[p] = NotStarted /\ ~Running(p)
    BY <1>0, <1>3 DEF Start, StatesInv, Running
  <2>4. Solo(p, m'[p], link', data')
    BY <2>3, <1>0, <1>3, StartSolo
  <2>5. CASE \E q \in Procs : Running(q)
    <3>1. alone' = {q \in alone : ~Running(q)}
      BY <2>5, <1>3 DEF Start
    <3>2. ASSUME NEW q \in alone'
          PROVE  q \in alone /\ q \in Procs /\ q # p /\ m'[q] = m[q] /\ ~Running(q) /\ m[q].pc # "start"
      BY <3>1, <3>2, <2>1, <2>3, <1>0 DEF SoloInv
    <3>3. \A q \in alone' : ~Running(q)'
      BY <3>2 DEF Running
    <3>4. \A q \in alone' : SearchesFit(q) => m'[q].xml = Result(q)
      BY <3>2, <1>0 DEF SoloInv
    <3> QED BY <2>2, <3>2, <3>3, <3>4 DEF SoloInv
  <2>6. CASE ~ \E q \in Procs : Running(q)
    <3>1. alone' = alone \cup {p}
      BY <2>6, <1>3 DEF Start
    <3>2. ASSUME NEW q \in alone', q # p
          PROVE  q \in alone /\ q \in Procs /\ m'[q] = m[q] /\ ~Running(q) /\ m[q].pc # "start"
      BY <3>1, <3>2, <2>1, <2>6, <1>0 DEF SoloInv
    <3>3. \A q \in Procs : q # p => ~Running(q)'
      BY <2>1, <2>6 DEF Running
    <3>4. \A q \in alone' : q # p /\ SearchesFit(q) => m'[q].xml = Result(q)
      BY <3>2, <1>0 DEF SoloInv
    <3>5. m'[p].pc # "start"
      BY <2>1 DEF Running
    <3>6. alone' \subseteq Procs
      BY <3>1, <1>0 DEF SoloInv
    <3> QED BY <2>1, <2>2, <2>4, <3>2, <3>3, <3>4, <3>5, <3>6 DEF SoloInv
  <2> QED BY <2>5, <2>6
<1>4. ASSUME NEW p \in Procs, Step(p), ~RemoveList(p) PROVE StatesInv' /\ SoloInv'
  <2>1. ProcessesOK' /\ Running(p)' /\ \A q \in Procs : q # p => m'[q] = m[q]
    BY <1>2, <1>4
  <2>2. StatesInv'
    BY <2>1, <1>0 DEF StatesInv, Running
  <2>3. alone' = alone
    BY <1>4 DEF Step, GiveUp, MeasureEntry, SearchOpen, SearchWrite, SearchFails, SearchRead,
                Refill, Match, DirOpen, DirWrite, DirRead, Close, ReadLength, Read,
                RemoveMeasurement
  <2>4. Running(p)
    BY <1>4 DEF Running, Step, GiveUp, MeasureEntry, SearchOpen, SearchWrite, SearchFails,
                SearchRead, Refill, Match, DirOpen, DirWrite, DirRead, Close, ReadLength, Read,
                RemoveMeasurement
  <2>5. ASSUME NEW q \in alone, q # p
        PROVE  q \in Procs /\ m'[q] = m[q] /\ ~Running(q) /\ m[q].pc # "start"
    BY <2>1, <2>4, <2>5, <1>0 DEF SoloInv
  <2>6. \A q \in alone : q # p => ~Running(q)' /\ m'[q].pc # "start"
    BY <2>5 DEF Running
  <2>7. \A q \in alone : q # p /\ SearchesFit(q) => m'[q].xml = Result(q)
    BY <2>5, <1>0 DEF SoloInv
  <2>8. ASSUME p \in alone, SearchesFit(p) PROVE Solo(p, m'[p], link', data')
    <3>1. Solo(p, m[p], link, data)
      BY <2>4, <2>8, <1>0 DEF SoloInv
    <3> QED BY <3>1, <2>8, <1>0, <1>4, StepSolo
  <2>9. ASSUME p \in alone PROVE \A q \in Procs : q # p => ~Running(q)'
    <3>1. \A q \in Procs : q # p => ~Running(q)
      BY <2>4, <2>9, <1>0 DEF SoloInv
    <3> QED BY <3>1, <2>1 DEF Running
  <2>10. m'[p].pc # "start" /\ alone \subseteq Procs
    BY <2>1, <1>0 DEF Running, SoloInv
  <2> QED BY <2>1, <2>2, <2>3, <2>6, <2>7, <2>8, <2>9, <2>10 DEF SoloInv
<1>5. ASSUME NEW p \in Procs, RemoveList(p) \/ Kill(p) PROVE StatesInv' /\ SoloInv'
  <2>1. PICK r : /\ m' = [m EXCEPT ![p] = r] /\ DOMAIN r = Fields /\ r.pc = "done"
                 /\ RemoveList(p) => r.xml = m[p].xml
    <3>1. CASE RemoveList(p)
      BY <3>1 DEF RemoveList, NotStarted, Fields
    <3>2. CASE Kill(p) /\ ~RemoveList(p)
      BY <3>2 DEF Kill, NotStarted, Fields
    <3> QED BY <3>1, <3>2, <1>5
  <2>2. ProcessesOK' /\ m'[p] = r /\ \A q \in Procs : q # p => m'[q] = m[q]
    BY <2>1, <1>0, BecomesOK DEF Becomes
  <2>3. StatesInv'
    BY <2>1, <2>2, <1>0 DEF StatesInv
  <2>4. Running(p) /\ (RemoveList(p) => m[p].pc = "removeList")
    BY <1>5 DEF RemoveList, Kill, Running
  <2>5. /\ alone' \subseteq alone /\ alone \subseteq Procs
        /\ p \in alone' => RemoveList(p)
    BY <1>0, <1>5 DEF RemoveList, Kill, SoloInv
  <2>6. ASSUME NEW q \in alone', q # p
        PROVE  q \in alone /\ q \in Procs /\ m'[q] = m[q] /\ ~Running(q) /\ m[q].pc # "start"
    BY <2>2, <2>4, <2>5, <2>6, <1>0 DEF SoloInv
  <2>7. \A q \in alone' : q # p => ~Running(q)' /\ m'[q].pc # "start"
    BY <2>6 DEF Running
  <2>8. \A q \in alone' : q # p /\ SearchesFit(q) => m'[q].xml = Result(q)
    BY <2>6, <1>0 DEF SoloInv
  <2>9. ASSUME p \in alone', SearchesFit(p) PROVE m'[p].xml = Result(p)
    <3>1. p \in alone /\ RemoveList(p) /\ m[p].pc = "removeList"
      BY <2>4, <2>5, <2>9
    <3>2. Solo(p, m[p], link, data)
      BY <3>1, <2>4, <2>9, <1>0 DEF SoloInv
    <3>3. m[p].xml = Result(p)
      BY <3>1, <3>2, ManifestTyped DEF Solo, Works, Result
    <3> QED BY <3>1, <3>3, <2>1, <2>2
  <2>10. ~Running(p)' /\ m'[p].pc # "start"
    BY <2>1, <2>2 DEF Running
  <2> QED BY <2>3, <2>5, <2>7, <2>8, <2>9, <2>10 DEF SoloInv
<1>6. CASE UNCHANGED vars
  <2>1. StatesInv'
    BY <1>0, <1>6 DEF vars, StatesInv, ProcessesOK
  <2>2. SoloInv'
    BY <1>0, <1>6 DEF vars, SoloInv, Running
  <2> QED BY <2>1, <2>2, <1>1 DEF MeasureInv
<1> QED
  BY <1>1, <1>3, <1>4, <1>5, <1>6 DEF MeasureInv, Next

\* A process that no other one overlaps returns the measurement of its manifest
\* (generateMeasurementLogs, calculate, generateFileHash and generateDirHash),
\* through two files that earlier processes may have left, as long as the list
\* of a directory search is read before it is overwritten.
THEOREM SoloMeasures == Spec => []SoloMeasurement
<1>1. Init => MeasureInv
  <2>1. ASSUME Init PROVE LinksInv
    BY <2>1 DEF Init, LinksInv, Files, NoFile
  <2>2. ASSUME Init PROVE StatesInv /\ SoloInv
    BY <2>2 DEF Init, StatesInv, ProcessesOK, SoloInv, NotStarted, Fields
  <2> QED BY <2>1, <2>2 DEF MeasureInv
<1>2. MeasureInv => SoloMeasurement
  BY DEF MeasureInv, SoloInv, SoloMeasurement, Running, Result
<1> QED
  BY <1>1, <1>2, SoloStep, PTL DEF Spec
=============================================================================
