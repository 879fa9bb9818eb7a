------------------------------- MODULE Measure ------------------------------
(***************************************************************************)
(* The workload measurement library, as the service runs it: one process   *)
(* /opt/tbootxm/bin/measure for each application-measurement request.      *)
(* Every process uses the same two files in /tmp, one for its result and   *)
(* one for lists of names, through buffered streams; a directory search    *)
(* uses the second for two lists at once.                                  *)
(*                                                                         *)
(* A line of a list and an element of a measurement are one cell of a file *)
(* and have the same size.  A digest is what it is computed from.          *)
(***************************************************************************)
EXTENDS Naturals, Sequences, FiniteSets, SequencesExt

CONSTANTS
  Procs,       \* bound: measure processes
  Manifest,    \* the manifest of each: a sequence of entries
  Digest,      \* whether its DigestAlg is supported
  Matches,     \* for a path that is searched, the sequence of paths it matches
  NoBase,      \* searched paths whose directory cannot be scanned
  FilePaths,   \* the files and symbolic links of the host
  Listing,     \* for each directory of the host, the sequence of names in it
  ReadBlock,   \* cells that a stream reads at once
  WriteBlock,  \* cells that a stream collects before it writes them
  Null,        \* no result: measure prints an error and exits with -1
  Freed,       \* a result that was freed before it was returned
  Hole         \* what a write beyond the end of a file leaves before it

\* Paths and names are strings; a search has a list of matches, which is empty
\* if its directory cannot be scanned.
ASSUME MeasureAssumption ==
  /\ IsFiniteSet(Procs)
  /\ ReadBlock \in Nat \ {0} /\ WriteBlock \in Nat \ {0}
  /\ \A p \in Procs :
       /\ Manifest[p] \in Seq([kind : {"file", "dir"}, search : BOOLEAN, path : STRING])
       /\ \A k \in DOMAIN Manifest[p] :
            Manifest[p][k].search =>
              /\ Matches[Manifest[p][k].path] \in Seq(STRING)
              /\ Manifest[p][k].path \in NoBase => Matches[Manifest[p][k].path] = <<>>
       /\ Digest[p] \in BOOLEAN
  /\ \A dir \in DOMAIN Listing : Listing[dir] \in Seq(STRING)

Files == {"measurement", "temp"}
Inodes == 1 .. 2 + 3 * Cardinality(Procs)
NoFile == 0

VARIABLES
  link,   \* the inode of each file in /tmp, or NoFile
  data,   \* the cells of each inode
  m,      \* the state of each process
  alone,  \* history: the processes that no other process overlapped
  killed  \* history: a process was killed

vars == <<link, data, m, alone, killed>>

NotStarted ==
  [pc |-> "start", i |-> 1, fq |-> NoFile, out |-> <<>>, off |-> 0, sum |-> <<>>,
   dir |-> Null, tw |-> NoFile, fd |-> NoFile, pos |-> 0, buf |-> <<>>, len |-> 0,
   xml |-> Null]

Running(p) == m[p].pc \notin {"start", "done"}
Entry(p) == Manifest[p][m[p].i]

\* doesFileExist is satisfied with a directory.
Exists(kind, path) ==
  path \in DOMAIN Listing \/ (kind = "file" /\ path \in FilePaths)

-----------------------------------------------------------------------------
(* Files and streams.                                                       *)

InUse(n) ==
  \/ \E f \in Files : link[f] = n
  \/ \E p \in Procs : Running(p) /\ n \in {m[p].fq, m[p].tw, m[p].fd}

Fresh == CHOOSE n \in Inodes : ~InUse(n) /\ \A k \in 1 .. n - 1 : InUse(k)

InodeOf(f) == IF link[f] = NoFile THEN Fresh ELSE link[f]

\* Mutant of Truncate: a file that exists keeps its content.
OpenKeeps(f) ==
  /\ link' = [link EXCEPT ![f] = InodeOf(f)]
  /\ data' = IF link[f] = NoFile THEN [data EXCEPT ![Fresh] = <<>>] ELSE data

\* fopen(f, "w")
Truncate(f) ==
  /\ link' = [link EXCEPT ![f] = InodeOf(f)]
  /\ data' = [n \in Inodes |-> IF InUse(n) /\ n # InodeOf(f) THEN data[n] ELSE <<>>]

\* The cells of the file c from a to b, as far as it goes.
Cells(c, a, b) == SubSeq(c, a, IF b > Len(c) THEN Len(c) ELSE b)

\* The file c after the cells s were written at offset o.
WriteAt(c, s, o) ==
  [k \in 1 .. (IF Len(c) > o + Len(s) THEN Len(c) ELSE o + Len(s)) |->
     IF k \in o + 1 .. o + Len(s) THEN s[k - o]
     ELSE IF k <= Len(c) THEN c[k] ELSE Hole]

\* fprintf(fq, ...) by p, and its cumulative hash; the rest of its state
\* becomes that of next.
Emit(p, cell, next) ==
  LET out == Append(m[p].out, cell)
      full == Len(out) >= WriteBlock
  IN /\ m' = [m EXCEPT ![p] = [next EXCEPT
                !.sum = Append(m[p].sum, cell),
                !.out = IF full THEN <<>> ELSE out,
                !.off = IF full THEN m[p].off + Len(out) ELSE m[p].off]]
     /\ data' = IF full
                THEN [data EXCEPT ![m[p].fq] = WriteAt(@, out, m[p].off)]
                ELSE data

-----------------------------------------------------------------------------
(* A process.                                                               *)

\* generateMeasurementLogs opens the result, writes the header and reads the
\* digest algorithm.
Start(p) ==
  /\ m[p].pc = "start"
  /\ Truncate("measurement")
  /\ m' = [m EXCEPT ![p].pc = IF Digest[p] THEN "next" ELSE "giveUp",
                    ![p].fq = InodeOf("measurement"),
                    ![p].out = << <<"header", p>> >>]
  /\ alone' = IF \E q \in Procs : Running(q)
              THEN {q \in alone : ~Running(q)} ELSE alone \cup {p}
  /\ UNCHANGED killed

\* The algorithm is not supported: fq is closed, with what it has collected.
GiveUp(p) ==
  /\ m[p].pc = "giveUp"
  /\ data' = [data EXCEPT ![m[p].fq] = WriteAt(@, m[p].out, m[p].off)]
  /\ m' = [m EXCEPT ![p] = [NotStarted EXCEPT !.pc = "remove"]]
  /\ UNCHANGED <<link, alone, killed>>

\* One path: a file is hashed at once, for a directory a list is made first,
\* and what does not exist is passed over.
MeasurePath(p, path, rest) ==
  \/ /\ Exists(Entry(p).kind, path)
     /\ Entry(p).kind = "file"
     /\ Emit(p, <<"file", path>>, rest)
  \/ /\ Exists(Entry(p).kind, path)
     /\ Entry(p).kind = "dir"
     /\ m' = [m EXCEPT ![p] = [rest EXCEPT !.pc = "dirOpen", !.dir = path]]
     /\ UNCHANGED data
  \/ /\ ~Exists(Entry(p).kind, path)
     /\ m' = [m EXCEPT ![p] = rest]
     /\ UNCHANGED data

\* An entry without a search.
MeasureEntry(p) ==
  /\ m[p].pc = "next"
  /\ m[p].i <= Len(Manifest[p])
  /\ ~Entry(p).search
  /\ MeasurePath(p, Entry(p).path, [m[p] EXCEPT !.i = m[p].i + 1])
  /\ UNCHANGED <<link, alone, killed>>

\* getMatchingEntries writes the list of matches.
SearchOpen(p) ==
  /\ m[p].pc = "next"
  /\ m[p].i <= Len(Manifest[p])
  /\ Entry(p).search
  /\ Truncate("temp")
  /\ m' = [m EXCEPT ![p].pc = "searchWrite", ![p].tw = InodeOf("temp")]
  /\ UNCHANGED <<alone, killed>>

SearchWrite(p) ==
  /\ m[p].pc = "searchWrite"
  /\ Entry(p).path \notin NoBase
  /\ data' = [data EXCEPT ![m[p].tw] = WriteAt(@, Matches[Entry(p).path], 0)]
  /\ m' = [m EXCEPT ![p].pc = "searchRead", ![p].tw = NoFile]
  /\ UNCHANGED <<link, alone, killed>>

\* walkDirRecurse fails: the list stays empty and the entry is skipped.
SearchFails(p) ==
  /\ m[p].pc = "searchWrite"
  /\ Entry(p).path \in NoBase
  /\ m' = [m EXCEPT ![p].pc = "next", ![p].i = m[p].i + 1, ![p].tw = NoFile]
  /\ UNCHANGED <<link, data, alone, killed>>

\* It opens the list by its name; if the name is gone the entry is skipped.
SearchRead(p) ==
  /\ m[p].pc = "searchRead"
  /\ \/ /\ link["temp"] # NoFile
        /\ m' = [m EXCEPT ![p].pc = "match", ![p].fd = link["temp"], ![p].pos = 0,
                          ![p].buf = <<>>]
     \/ /\ link["temp"] = NoFile
        /\ m' = [m EXCEPT ![p].pc = "next", ![p].i = m[p].i + 1]
  /\ UNCHANGED <<link, data, alone, killed>>

\* Mutant of Refill: the stream reads from the start again.
RefillFromStart(p) ==
  /\ m[p].pc = "match"
  /\ m[p].buf = <<>>
  /\ LET block == Cells(data[m[p].fd], 1, ReadBlock)
     IN \/ /\ block # <<>>
           /\ m' = [m EXCEPT ![p].buf = block]
        \/ /\ block = <<>>
           /\ m' = [m EXCEPT ![p].pc = "next", ![p].i = m[p].i + 1, ![p].fd = NoFile]
  /\ UNCHANGED <<link, data, alone, killed>>

\* fgets with an empty buffer: the next block, from where the stream is, of
\* what the file holds now.
Refill(p) ==
  /\ m[p].pc = "match"
  /\ m[p].buf = <<>>
  /\ LET block == Cells(data[m[p].fd], m[p].pos + 1, m[p].pos + ReadBlock)
     IN \/ /\ block # <<>>
           /\ m' = [m EXCEPT ![p].buf = block, ![p].pos = m[p].pos + Len(block)]
        \/ /\ block = <<>>
           /\ m' = [m EXCEPT ![p].pc = "next", ![p].i = m[p].i + 1, ![p].fd = NoFile]
  /\ UNCHANGED <<link, data, alone, killed>>

\* The next match, taken from the buffer.
Match(p) ==
  /\ m[p].pc = "match"
  /\ m[p].buf # <<>>
  /\ MeasurePath(p, Head(m[p].buf), [m[p] EXCEPT !.buf = Tail(m[p].buf)])
  /\ UNCHANGED <<link, alone, killed>>

\* generateDirHash writes the names in the directory to the same file.
DirOpen(p) ==
  /\ m[p].pc = "dirOpen"
  /\ Truncate("temp")
  /\ m' = [m EXCEPT ![p].pc = "dirWrite", ![p].tw = InodeOf("temp")]
  /\ UNCHANGED <<alone, killed>>

DirWrite(p) ==
  /\ m[p].pc = "dirWrite"
  /\ data' = [data EXCEPT ![m[p].tw] = WriteAt(@, Listing[m[p].dir], 0)]
  /\ m' = [m EXCEPT ![p].pc = "dirRead", ![p].tw = NoFile]
  /\ UNCHANGED <<link, alone, killed>>

\* It hashes what the file of that name holds.
DirRead(p) ==
  /\ m[p].pc = "dirRead"
  /\ LET back == IF m[p].fd # NoFile THEN [m[p] EXCEPT !.pc = "match"]
                 ELSE [m[p] EXCEPT !.pc = "next"]
     IN \/ /\ link["temp"] # NoFile
           /\ Emit(p, <<"dir", m[p].dir, data[link["temp"]]>>, back)
        \/ /\ link["temp"] = NoFile
           /\ m' = [m EXCEPT ![p] = back]
           /\ UNCHANGED data
  /\ UNCHANGED <<link, alone, killed>>

\* The cumulative hash is written and fq is closed.
Close(p) ==
  /\ m[p].pc = "next"
  /\ m[p].i > Len(Manifest[p])
  /\ data' = [data EXCEPT ![m[p].fq] =
                WriteAt(@, Append(m[p].out, <<"cumulative", m[p].sum>>), m[p].off)]
  /\ m' = [m EXCEPT ![p] = [NotStarted EXCEPT !.pc = "read"]]
  /\ UNCHANGED <<link, alone, killed>>

\* measure opens the result by its name, and asks for its length.
ReadLength(p) ==
  /\ m[p].pc = "read"
  /\ \/ /\ link["measurement"] # NoFile
        /\ m' = [m EXCEPT ![p].pc = "fread", ![p].fd = link["measurement"],
                          ![p].len = Len(data[link["measurement"]])]
     \/ /\ link["measurement"] = NoFile
        /\ m' = [m EXCEPT ![p].pc = "remove"]
  /\ UNCHANGED <<link, data, alone, killed>>

Read(p) ==
  /\ m[p].pc = "fread"
  /\ m' = [m EXCEPT ![p].pc = "remove", ![p].fd = NoFile, ![p].len = 0,
                    ![p].xml = IF Len(data[m[p].fd]) < m[p].len THEN Freed
                               ELSE SubSeq(data[m[p].fd], 1, m[p].len)]
  /\ UNCHANGED <<link, data, alone, killed>>

\* measure removes the name of the result, whoever made that file.
RemoveMeasurement(p) ==
  /\ m[p].pc = "remove"
  /\ link' = [link EXCEPT !["measurement"] = NoFile]
  /\ m' = [m EXCEPT ![p].pc = "removeList"]
  /\ UNCHANGED <<data, alone, killed>>

\* Mutant of RemoveList: the list file is forgotten.
KeepList(p) ==
  /\ m[p].pc = "removeList"
  /\ m' = [m EXCEPT ![p] = [NotStarted EXCEPT !.pc = "done", !.xml = m[p].xml]]
  /\ UNCHANGED <<link, data, alone, killed>>

\* It removes the name of the list file, whoever made it, and the process ends.
RemoveList(p) ==
  /\ m[p].pc = "removeList"
  /\ link' = [link EXCEPT !["temp"] = NoFile]
  /\ m' = [m EXCEPT ![p] = [NotStarted EXCEPT !.pc = "done", !.xml = m[p].xml]]
  /\ UNCHANGED <<data, alone, killed>>

\* The service is stopped, and its processes with it.
Kill(p) ==
  /\ Running(p)
  /\ m' = [m EXCEPT ![p] = [NotStarted EXCEPT !.pc = "done"]]
  /\ killed' = TRUE
  /\ alone' = alone \ {p}
  /\ UNCHANGED <<link, data>>

-----------------------------------------------------------------------------

Init ==
  /\ link = [f \in Files |-> NoFile]
  /\ data = [n \in Inodes |-> <<>>]
  /\ m = [p \in Procs |-> NotStarted]
  /\ alone = {}
  /\ killed = FALSE

Step(p) ==
  \/ GiveUp(p) \/ MeasureEntry(p)
  \/ SearchOpen(p) \/ SearchWrite(p) \/ SearchFails(p)
  \/ SearchRead(p) \/ Refill(p) \/ Match(p)
  \/ DirOpen(p) \/ DirWrite(p) \/ DirRead(p)
  \/ Close(p) \/ ReadLength(p) \/ Read(p)
  \/ RemoveMeasurement(p) \/ RemoveList(p)

Next == \E p \in Procs : Start(p) \/ Step(p) \/ Kill(p)

\* A process that runs goes on.
Spec == Init /\ [][Next]_vars /\ \A p \in Procs : WF_vars(Step(p))
-----------------------------------------------------------------------------

\* The paths of an entry, in the order in which they are measured.
Paths(e) == IF e.search THEN Matches[e.path] ELSE <<e.path>>

\* What the measurement of the manifest of p must contain: the paths that exist,
\* each by the number of its entry and its own among the paths of that entry.
Items(p) ==
  {x \in UNION {{k} \X DOMAIN Paths(Manifest[p][k]) : k \in DOMAIN Manifest[p]} :
     Exists(Manifest[p][x[1]].kind, Paths(Manifest[p][x[1]])[x[2]])}

CellAt(p, x) ==
  LET e    == Manifest[p][x[1]]
      path == Paths(e)[x[2]]
  IN IF e.kind = "file" THEN <<"file", path>> ELSE <<"dir", path, Listing[path]>>

\* y is not after x.
Upto(x, y) == y[1] < x[1] \/ (y[1] = x[1] /\ y[2] <= x[2])

Rank(items, x) == Cardinality({y \in items : Upto(x, y)})

\* The cells of the items, in their order, between a header and their hash.
Measurement(p) ==
  [n \in 1 .. Cardinality(Items(p)) |->
     CellAt(p, CHOOSE x \in Items(p) : Rank(Items(p), x) = n)]

Reference(p) ==
  <<<<"header", p>>>> \o Measurement(p) \o <<<<"cumulative", Measurement(p)>>>>

\* The list of every directory search fits into one block, and no file in the
\* directories that it finds has the name of a directory: what the search reads
\* on, in the list of the directory that was measured last, is passed over.
SearchesFit(p) ==
  \A k \in DOMAIN Manifest[p] :
    LET e == Manifest[p][k]
    IN e.kind = "dir" /\ e.search =>
         /\ Len(Matches[e.path]) <= ReadBlock
         /\ \A dir \in ToSet(Matches[e.path]) \cap DOMAIN Listing :
              \A name \in ToSet(Listing[dir]) : ~Exists("dir", name)

\* A process that no other one overlapped returns the measurement of its
\* manifest, entry by entry, with a cumulative hash over exactly these, or no
\* measurement if the digest algorithm is not supported, whatever an earlier
\* process left in /tmp when it was killed.
SoloMeasurement ==
  \A p \in alone : m[p].pc = "done" /\ SearchesFit(p)
                     => m[p].xml = IF Digest[p] THEN Reference(p) ELSE Null

\* When all processes have ended, however they overlapped and removed each
\* other's files, nothing of them is left in /tmp.
NothingLeft ==
  ~killed /\ (\A p \in Procs : ~Running(p)) => \A f \in Files : link[f] = NoFile

\* Every process that starts ends, although a directory search reads a list
\* while it rewrites that file, and other processes do as well: from some time
\* on, no process runs.
MeasureEnds == <>[](\A p \in Procs : ~Running(p))

\* A result that has the form of a measurement is that of the manifest the
\* request supplied (doc/LLD.md on application-measurement: "Measures
\* application manifest provided as input").
MeasuresItsManifest ==
  \A p \in Procs : \A q \in Procs :
    m[p].pc = "done" /\ m[p].xml = Reference(q) => Reference(p) = Reference(q)

=============================================================================
