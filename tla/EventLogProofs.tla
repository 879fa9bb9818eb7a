--------------------------- MODULE EventLogProofs ---------------------------
(***************************************************************************)
(* Proofs about the parsers of EventLog, for every number of events, every *)
(* layout and every content of the memory.  The first sections are about   *)
(* the operators: where FlattenSeq puts the parts of an encoding, what a   *)
(* read at such a place returns, and how groups grow.  The loop then       *)
(* follows the encoding from place to place, on memory that holds a log or *)
(* the beginning of one, and the aggregate parser gathers what it leaves.  *)
(***************************************************************************)
EXTENDS EventLog, SequenceTheorems, FiniteSetTheorems, WellFoundedInduction, TLAPS

-----------------------------------------------------------------------------
(* Induction, and what FlattenSeq and SelectInSeq compute.                  *)

LEMMA LeastNatural ==
  ASSUME NEW T \in SUBSET Nat, T # {}
  PROVE  \E x \in T : \A y \in T : x <= y
<1> DEFINE R == OpToRel(<, Nat)
<1>1. IsWellFoundedOn(R, Nat)
  BY NatLessThanWellFounded
<1>2. \E x \in T : \A y \in T : ~ (<<y, x>> \in R)
  <2> HIDE DEF R
  <2> QED BY <1>1, WFMin
<1>3. \A x, y \in Nat : y < x => <<y, x>> \in R
  BY DEF OpToRel
<1>4. PICK x \in T : \A y \in T : ~ (<<y, x>> \in R)
  BY <1>2
<1>5. \A y \in T : ~ (y < x)
  <2> HIDE DEF R
  <2> QED BY <1>3, <1>4
<1> QED
  BY <1>5

LEMMA SetInduction ==
  ASSUME NEW S, 0 \in S, \A n \in Nat : n \in S => n + 1 \in S
  PROVE  Nat \subseteq S
<1> SUFFICES ASSUME Nat \ S # {} PROVE FALSE
  OBVIOUS
<1>1. PICK x \in Nat \ S : \A y \in Nat \ S : x <= y
  BY LeastNatural
<1>2. x - 1 \in Nat /\ x - 1 \notin Nat \ S
  BY <1>1
<1> QED
  BY <1>1, <1>2

\* f has the partial results of FlattenSeq.
Partial(ss, n, S, f) ==
  /\ f \in [1 .. n -> Seq(S)]
  /\ \A i \in 1 .. n : f[i] = IF i = 1 THEN ss[i] ELSE f[i-1] \o ss[i]

LEMMA PartialExists ==
  ASSUME NEW S, NEW ss \in Seq(Seq(S)) 
  PROVE  \A n \in Nat : n <= Len(ss) => \E f : Partial(ss, n, S, f)
<1> DEFINE T == {n \in Nat : n <= Len(ss) => \E f : Partial(ss, n, S, f)}
<1>1. 0 \in T
  <2>1. Partial(ss, 0, S, [i \in 1 .. 0 |-> << >>])
    BY DEF Partial
  <2> QED BY <2>1
<1>2. ASSUME NEW n \in Nat, n \in T PROVE n + 1 \in T
  <2> SUFFICES ASSUME n + 1 <= Len(ss) PROVE \E f : Partial(ss, n + 1, S, f)
    OBVIOUS
  <2>1. PICK f : Partial(ss, n, S, f)
    BY <1>2
  <2> DEFINE x == IF n = 0 THEN ss[1] ELSE f[n] \o ss[n + 1]
             g == [i \in 1 .. n + 1 |-> IF i = n + 1 THEN x ELSE f[i]]
  <2>2. x \in Seq(S)
    BY <2>1 DEF Partial
  <2> HIDE DEF x
  <2>3. g \in [1 .. n + 1 -> Seq(S)]
    BY <2>1, <2>2 DEF Partial
  <2>4. ASSUME NEW i \in 1 .. n + 1 PROVE g[i] = IF i = 1 THEN ss[i] ELSE g[i-1] \o ss[i]
    <3>1. CASE i = n + 1
      BY <3>1 DEF x
    <3>2. CASE i # n + 1
      <4>1. i \in 1 .. n /\ (i # 1 => i - 1 \in 1 .. n)
        BY <3>2
      <4>2. g[i] = f[i] /\ (i # 1 => g[i - 1] = f[i - 1])
        BY <4>1
      <4>3. f[i] = IF i = 1 THEN ss[i] ELSE f[i-1] \o ss[i]
        BY <4>1, <2>1 DEF Partial
      <4> HIDE DEF g
      <4> QED BY <4>2, <4>3
    <3> QED BY <3>1, <3>2
  <2> QED BY <2>3, <2>4 DEF Partial
<1> HIDE DEF T
<1>3. Nat \subseteq T
  BY <1>1, <1>2, SetInduction
<1> QED BY <1>3 DEF T

LEMMA FlattenPartial ==
  ASSUME NEW S, NEW ss \in Seq(Seq(S)), ss # << >> 
  PROVE  \E f : Partial(ss, Len(ss), S, f) /\ FlattenSeq(ss) = f[Len(ss)]
<1> DEFINE n == Len(ss)
           Rec(g) == g = [i \in 1 .. n |-> IF i = 1 THEN ss[i] ELSE g[i-1] \o ss[i]]
           h == CHOOSE g : Rec(g)
<1>1. n \in Nat /\ n # 0
  OBVIOUS
<1>2. PICK f : Partial(ss, n, S, f)
  BY PartialExists
<1>3. Rec(f)
  BY <1>1, <1>2 DEF Partial
<1>4. Rec(h)
  <2> HIDE DEF Rec
  <2> QED BY <1>3
<1>5. FlattenSeq(ss) = h[n]
  BY <1>1 DEF FlattenSeq
<1> HIDE DEF h
<1> DEFINE T == {i \in Nat : i \in 1 .. n => h[i] = f[i]}
<1>6. 0 \in T
  OBVIOUS
<1>7. ASSUME NEW i \in Nat, i \in T PROVE i + 1 \in T
  <2> SUFFICES ASSUME i + 1 \in 1 .. n PROVE h[i + 1] = f[i + 1]
    OBVIOUS
  <2>1. h[i + 1] = IF i + 1 = 1 THEN ss[i + 1] ELSE h[(i + 1) - 1] \o ss[i + 1]
    BY <1>4
  <2>2. f[i + 1] = IF i + 1 = 1 THEN ss[i + 1] ELSE f[(i + 1) - 1] \o ss[i + 1]
    BY <1>3
  <2>3. (i + 1) - 1 = i /\ (i + 1 # 1 => h[i] = f[i])
    BY <1>7
  <2> QED BY <2>1, <2>2, <2>3
<1>8. Nat \subseteq T
  <2> HIDE DEF T
  <2> QED BY <1>6, <1>7, SetInduction
<1>9. h[n] = f[n]
  BY <1>8, <1>1
<1> QED BY <1>2, <1>5, <1>9

\* Where the parts of a sequence of sequences begin and end when they are put
\* one after the other.
Fits(ss, n, whole, at) ==
  /\ at \in [0 .. n -> Nat]
  /\ at[0] = 0
  /\ \A i \in 1 .. n : at[i] = at[i - 1] + Len(ss[i])
  /\ \A i, k \in 0 .. n : i <= k => at[i] <= at[k]
  /\ Len(whole) = at[n]
  /\ \A i \in 1 .. n : \A j \in 1 .. Len(ss[i]) : whole[at[i - 1] + j] = ss[i][j]

IsLayout(ss, at) == Fits(ss, Len(ss), FlattenSeq(ss), at)

Layout(ss) == CHOOSE at : IsLayout(ss, at)

LEMMA ConcatIndex ==
  ASSUME NEW S, NEW a \in Seq(S), NEW b \in Seq(S)
  PROVE  /\ a \o b \in Seq(S)
         /\ Len(a \o b) = Len(a) + Len(b)
         /\ \A j \in 1 .. Len(b) : (a \o b)[Len(a) + j] = b[j]
         /\ \A q \in 1 .. Len(a) : (a \o b)[q] = a[q]
OBVIOUS

LEMMA IndexInside ==
  ASSUME NEW a \in Nat, NEW l \in Nat, NEW m \in Nat, a + l <= m, NEW j \in 1 .. l
  PROVE  a + j \in 1 .. m
OBVIOUS

LEMMA LayoutOfPartial ==
  ASSUME NEW S, NEW n \in Nat, NEW ss \in [1 .. n -> Seq(S)], NEW f \in [1 .. n -> Seq(S)],
         n # 0, f[1] = ss[1], \A i \in 2 .. n : f[i] = f[i - 1] \o ss[i]
  PROVE  \E at : Fits(ss, n, f[n], at)
<1> DEFINE at == [i \in 0 .. n |-> IF i = 0 THEN 0 ELSE Len(f[i])]
<1>1. at \in [0 .. n -> Nat]
  OBVIOUS
<1>2. at[0] = 0 /\ \A i \in 1 .. n : at[i] = Len(f[i])
  OBVIOUS
<1> HIDE DEF at
<1>3. ASSUME NEW i \in 1 .. n
      PROVE  /\ at[i] = at[i - 1] + Len(ss[i])
             /\ \A j \in 1 .. Len(ss[i]) : f[i][at[i - 1] + j] = ss[i][j]
             /\ i > 1 => \A q \in 1 .. at[i - 1] : f[i][q] = f[i - 1][q]
  <2>1. CASE i = 1
    BY <2>1, <1>1, <1>2
  <2>2. CASE i # 1
    <3>1. i \in 2 .. n /\ i - 1 \in 1 .. n
      BY <2>2
    <3>2. f[i] = f[i - 1] \o ss[i] /\ f[i - 1] \in Seq(S) /\ ss[i] \in Seq(S)
      BY <3>1
    <3>3. at[i] = Len(f[i]) /\ at[i - 1] = Len(f[i - 1])
      BY <3>1, <1>2
    <3> QED BY <3>2, <3>3, ConcatIndex
  <2> QED BY <2>1, <2>2
<1> DEFINE P(k) == k \in 0 .. n => \A i \in 0 .. k :
                     /\ at[i] <= at[k]
                     /\ i > 0 => \A j \in 1 .. Len(ss[i]) : f[k][at[i - 1] + j] = ss[i][j]
           T == {k \in Nat : P(k)}
<1>4. P(0)
  BY <1>1
<1>5. ASSUME NEW k \in Nat, P(k) PROVE P(k + 1)
  <2> SUFFICES ASSUME k + 1 \in 0 .. n, NEW i \in 0 .. k + 1
               PROVE  /\ at[i] <= at[k + 1]
                      /\ i > 0 => \A j \in 1 .. Len(ss[i]) :
                                    f[k + 1][at[i - 1] + j] = ss[i][j]
    OBVIOUS
  <2>1. k + 1 \in 1 .. n /\ k \in 0 .. n /\ (k + 1) - 1 = k
    OBVIOUS
  <2>2. CASE i = k + 1
    <3>1. at[k + 1] \in Nat
      BY <2>1, <1>1
    <3> QED BY <3>1, <2>1, <2>2, <1>3
  <2>3. CASE i # k + 1
    <3>1. i \in 0 .. k
      BY <2>3
    <3>2. at[i] <= at[k] /\ at[i] \in Nat /\ at[k] \in Nat /\ at[k + 1] \in Nat
      BY <3>1, <2>1, <1>1, <1>5
    <3>3. at[k + 1] = at[k] + Len(ss[k + 1]) /\ Len(ss[k + 1]) \in Nat
      BY <2>1, <1>3
    <3>4. ASSUME i > 0, NEW j \in 1 .. Len(ss[i])
          PROVE  f[k + 1][at[i - 1] + j] = ss[i][j]
      <4>1. i \in 1 .. n /\ k > 0 /\ i - 1 \in 0 .. n
        BY <3>1, <3>4, <2>1
      <4>2. at[i] = at[i - 1] + Len(ss[i]) /\ Len(ss[i]) \in Nat /\ at[i - 1] \in Nat
        BY <4>1, <1>1, <1>3
      <4>3. at[i - 1] + j \in 1 .. at[k]
        BY <4>2, <3>2, IndexInside
      <4>4. f[k + 1][at[i - 1] + j] = f[k][at[i - 1] + j]
        <5> DEFINE q == at[i - 1] + j
        <5>1. q \in 1 .. at[(k + 1) - 1] /\ k + 1 > 1
          BY <4>1, <4>3, <2>1
        <5> HIDE DEF q
        <5>2. f[k + 1][q] = f[(k + 1) - 1][q]
          BY <5>1, <2>1, <1>3
        <5> QED BY <5>2, <2>1 DEF q
      <4>5. f[k][at[i - 1] + j] = ss[i][j]
        BY <3>1, <3>4, <2>1, <1>5
      <4> QED BY <4>4, <4>5
    <3>5. at[i] <= at[k + 1]
      BY <3>2, <3>3
    <3> QED BY <3>4, <3>5
  <2> QED BY <2>2, <2>3
<1>6. \A k \in Nat : P(k)
  <2> HIDE DEF P
  <2>1. 0 \in T /\ \A k \in Nat : k \in T => k + 1 \in T
    BY <1>4, <1>5
  <2>2. Nat \subseteq T
    <3> HIDE DEF T
    <3> QED BY <2>1, SetInduction
  <2> QED BY <2>2
<1>7. \A i, k \in 0 .. n : i <= k => at[i] <= at[k]
  BY <1>6
<1>8. \A i \in 1 .. n : \A j \in 1 .. Len(ss[i]) : f[n][at[i - 1] + j] = ss[i][j]
  <2>1. n \in 0 .. n /\ \A i \in 1 .. n : i \in 0 .. n /\ i > 0
    OBVIOUS
  <2> QED BY <2>1, <1>6
<1>9. Len(f[n]) = at[n]
  BY <1>2
<1>10. Fits(ss, n, f[n], at)
  BY <1>1, <1>2, <1>3, <1>7, <1>8, <1>9 DEF Fits
<1> QED BY <1>10

LEMMA FlattenLayout ==
  ASSUME NEW S, NEW ss \in Seq(Seq(S))
  PROVE  FlattenSeq(ss) \in Seq(S) /\ IsLayout(ss, Layout(ss))
<1> SUFFICES FlattenSeq(ss) \in Seq(S) /\ \E at : IsLayout(ss, at)
  BY DEF Layout
<1>1. CASE ss = << >>
  <2> DEFINE at == [i \in 0 .. 0 |-> 0]
  <2>1. FlattenSeq(ss) = << >>
    BY <1>1 DEF FlattenSeq
  <2>2. Len(ss) = 0
    BY <1>1
  <2>3. IsLayout(ss, at)
    BY <2>1, <2>2 DEF IsLayout, Fits
  <2> QED BY <2>1, <2>3
<1>2. CASE ss # << >>
  <2>1. PICK n \in Nat : n = Len(ss)
    OBVIOUS
  <2>2. n # 0 /\ ss \in [1 .. n -> Seq(S)]
    BY <1>2, <2>1
  <2>3. PICK f : Partial(ss, n, S, f) /\ FlattenSeq(ss) = f[n]
    BY <1>2, <2>1, FlattenPartial
  <2>4. f \in [1 .. n -> Seq(S)] /\ f[1] = ss[1]
    BY <2>2, <2>3 DEF Partial
  <2>5. ASSUME NEW i \in 2 .. n PROVE f[i] = f[i - 1] \o ss[i]
    <3>1. i \in 1 .. n /\ i # 1
      OBVIOUS
    <3> QED BY <2>3, <3>1 DEF Partial
  <2>6. PICK at : Fits(ss, n, f[n], at)
    BY <2>2, <2>4, <2>5, LayoutOfPartial
  <2>7. IsLayout(ss, at)
    BY <2>1, <2>3, <2>6 DEF IsLayout
  <2> QED BY <2>2, <2>3, <2>4, <2>7
<1> QED BY <1>1, <1>2

-----------------------------------------------------------------------------
(* Take and Drop.                                                           *)

LEMMA DropProps ==
  ASSUME NEW S, NEW s \in Seq(S), NEW p \in Nat
  PROVE  /\ Drop(s, p) \in Seq(S)
         /\ p <= Len(s) => Len(Drop(s, p)) = Len(s) - p
         /\ p >= Len(s) => Drop(s, p) = << >>
         /\ Drop(s, p) # << >> => p < Len(s)
         /\ \A i \in 1 .. Len(s) - p : Drop(s, p)[i] = s[p + i]
BY DEF Drop

LEMMA DropDrop ==
  ASSUME NEW S, NEW s \in Seq(S), NEW p \in Nat, NEW q \in Nat
  PROVE  Drop(Drop(s, p), q) = Drop(s, p + q)
<1>1. CASE p + q <= Len(s)
  BY <1>1 DEF Drop
<1>2. CASE p + q > Len(s)
  <2>1. Drop(s, p + q) = << >>
    <3>1. p + q \in Nat /\ p + q >= Len(s)
      BY <1>2
    <3> QED BY <3>1, DropProps
  <2>2. CASE p >= Len(s)
    <3>1. Drop(s, p) = << >>
      BY <2>2, DropProps
    <3> QED BY <2>1, <3>1 DEF Drop
  <2>3. CASE p < Len(s)
    <3>1. Drop(s, p) \in Seq(S) /\ Len(Drop(s, p)) = Len(s) - p
      <4>1. p <= Len(s)
        BY <2>3
      <4> QED BY <4>1, DropProps
    <3>2. q >= Len(Drop(s, p))
      BY <1>2, <2>3, <3>1
    <3> QED BY <2>1, <3>1, <3>2, DropProps
  <2> QED BY <2>2, <2>3
<1> QED BY <1>1, <1>2

LEMMA TakeType ==
  ASSUME NEW S, NEW s \in Seq(S), NEW n \in Nat
  PROVE  Take(s, n) \in Seq(S)
BY DEF Take

LEMMA AppendSeq ==
  ASSUME NEW S, NEW s \in Seq(S), NEW x \in S, NEW n \in Nat, Len(s) = n
  PROVE  /\ Append(s, x) \in Seq(S) /\ Len(Append(s, x)) = n + 1
         /\ Append(s, x)[n + 1] = x
         /\ \A h \in 1 .. n : Append(s, x)[h] = s[h]
OBVIOUS

LEMMA NoElements ==
  ASSUME NEW S, NEW s \in Seq(S), Len(s) = 0
  PROVE  s = << >>
OBVIOUS

LEMMA HeadSeq ==
  ASSUME NEW S, NEW s \in Seq(S), s # << >>
  PROVE  Head(s) = s[1] /\ s[1] \in S
OBVIOUS

\* The cells of s from p on spell v.
LEMMA TakeSpells ==
  ASSUME NEW S, NEW s \in Seq(S), NEW p \in Nat, NEW v \in Seq(S),
         p + Len(v) <= Len(s), \A i \in 1 .. Len(v) : s[p + i] = v[i]
  PROVE  Take(Drop(s, p), Len(v)) = v
<1> DEFINE d == Drop(s, p)
           t == Take(d, Len(v))
<1>1. d \in Seq(S) /\ Len(d) = Len(s) - p /\ \A i \in 1 .. Len(s) - p : d[i] = s[p + i]
  <2>1. p <= Len(s)
    OBVIOUS
  <2> QED BY <2>1, DropProps
<1> HIDE DEF d
<1>2. t = SubSeq(d, 1, Len(v))
  <2>1. Len(v) <= Len(d) /\ Len(v) \in Nat /\ Len(d) \in Nat
    BY <1>1
  <2>2. (IF Len(v) < Len(d) THEN Len(v) ELSE Len(d)) = Len(v)
    BY <2>1
  <2> QED BY <2>2 DEF Take
<1>3. t \in Seq(S) /\ Len(t) = Len(v) /\ \A i \in 1 .. Len(v) : t[i] = d[i]
  BY <1>1, <1>2
<1> HIDE DEF t
<1>4. \A i \in 1 .. Len(v) : t[i] = v[i]
  BY <1>1, <1>3
<1>5. t = v
  BY <1>3, <1>4, SeqEqual
<1> QED BY <1>5 DEF d, t

-----------------------------------------------------------------------------
(* The cells of an event and of a log.                                      *)

Parts(e) == [i \in DOMAIN e.digests |-> <<e.digests[i].alg>> \o e.digests[i].value]
DigAt(e) == Layout(Parts(e))

Records(events) == [i \in DOMAIN events |-> Encode(events[i])]
RecAt(events)   == Layout(Records(events))

LEMMA DigestLayout ==
  ASSUME NEW e \in LoggedEvents
  PROVE  LET m == Len(e.digests)
             F == FlattenSeq(Parts(e))
             d == DigAt(e)
         IN /\ m \in Nat /\ d \in [0 .. m -> Nat] /\ d[0] = 0
            /\ F \in Seq(Nat) /\ Len(F) = d[m]
            /\ \A i, k \in 0 .. m : i <= k => d[i] <= d[k]
            /\ \A i \in 1 .. m :
                 /\ d[i] = d[i - 1] + (1 + Len(e.digests[i].value))
                 /\ F[d[i - 1] + 1] = e.digests[i].alg
                 /\ \A j \in 1 .. Len(e.digests[i].value) :
                      F[d[i - 1] + (1 + j)] = e.digests[i].value[j]
<1>1. PICK ds : ds = e.digests /\ ds \in Seq(LoggedDigests)
  BY DEF LoggedEvents
<1>2. PICK m \in Nat : m = Len(ds) /\ DOMAIN ds = 1 .. m
  BY <1>1
<1>3. ASSUME NEW i \in 1 .. m PROVE ds[i].alg \in Nat /\ ds[i].value \in Seq(Nat)
  <2>1. ds[i] \in LoggedDigests
    BY <1>1, <1>2
  <2> QED BY <2>1 DEF LoggedDigests
<1>4. PICK ss : ss = Parts(e)
  OBVIOUS
<1>5. ss = [i \in 1 .. m |-> <<ds[i].alg>> \o ds[i].value]
  BY <1>1, <1>2, <1>4 DEF Parts
<1>6. ASSUME NEW i \in 1 .. m
      PROVE  /\ ss[i] \in Seq(Nat) /\ Len(ss[i]) = 1 + Len(ds[i].value)
             /\ ss[i][1] = ds[i].alg
             /\ \A j \in 1 .. Len(ds[i].value) : ss[i][1 + j] = ds[i].value[j]
  <2>1. PICK a \in Nat, v \in Seq(Nat) : a = ds[i].alg /\ v = ds[i].value
    BY <1>3
  <2>2. ss[i] = <<a>> \o v
    BY <1>5, <2>1
  <2>3. ss[i] \in Seq(Nat) /\ Len(ss[i]) = 1 + Len(v) /\ ss[i][1] = a
    BY <2>2
  <2>4. \A j \in 1 .. Len(v) : ss[i][1 + j] = v[j]
    BY <2>2
  <2> QED BY <2>1, <2>3, <2>4
<1>7. ss \in Seq(Seq(Nat)) /\ Len(ss) = m
  <2>1. ss \in [1 .. m -> Seq(Nat)]
    BY <1>5, <1>6
  <2> QED BY <2>1, SeqDef
<1>8. PICK F, d : F = FlattenSeq(ss) /\ d = Layout(ss)
  OBVIOUS
<1>9. F \in Seq(Nat) /\ Fits(ss, m, F, d)
  BY <1>7, <1>8, FlattenLayout DEF IsLayout
<1>10. /\ d \in [0 .. m -> Nat] /\ d[0] = 0 /\ Len(F) = d[m]
       /\ \A i, k \in 0 .. m : i <= k => d[i] <= d[k]
  BY <1>9 DEF Fits
<1>11. ASSUME NEW i \in 1 .. m
       PROVE  /\ d[i] = d[i - 1] + (1 + Len(ds[i].value))
              /\ F[d[i - 1] + 1] = ds[i].alg
              /\ \A j \in 1 .. Len(ds[i].value) : F[d[i - 1] + (1 + j)] = ds[i].value[j]
  <2>1. PICK l \in Nat : l = Len(ds[i].value)
    BY <1>3
  <2>2. Len(ss[i]) = 1 + l /\ ss[i][1] = ds[i].alg
        /\ \A j \in 1 .. l : ss[i][1 + j] = ds[i].value[j]
    BY <1>6, <2>1
  <2>3. d[i] = d[i - 1] + Len(ss[i]) /\ \A q \in 1 .. Len(ss[i]) : F[d[i - 1] + q] = ss[i][q]
    BY <1>9 DEF Fits
  <2>4. 1 \in 1 .. 1 + l /\ \A j \in 1 .. l : 1 + j \in 1 .. 1 + l
    OBVIOUS
  <2> QED BY <2>1, <2>2, <2>3, <2>4
<1> QED BY <1>1, <1>2, <1>4, <1>8, <1>9, <1>10, <1>11 DEF DigAt

LEMMA EncodeLayout ==
  ASSUME NEW e \in LoggedEvents
  PROVE  LET m == Len(e.digests)
             d == DigAt(e)
             E == Encode(e)
         IN /\ E \in Seq(Nat)
            /\ Len(E) = (3 + d[m]) + (1 + Len(e.data))
            /\ E[1] = e.pcr /\ E[2] = e.type /\ E[3] = m
            /\ \A i \in 1 .. m :
                 /\ E[(3 + d[i - 1]) + 1] = e.digests[i].alg
                 /\ \A j \in 1 .. Len(e.digests[i].value) :
                      E[(3 + d[i - 1]) + (1 + j)] = e.digests[i].value[j]
            /\ E[(3 + d[m]) + 1] = Len(e.data)
            /\ \A j \in 1 .. Len(e.data) : E[(3 + d[m]) + (1 + j)] = e.data[j]
<1>1. PICK m, F, d, ds : m = Len(e.digests) /\ F = FlattenSeq(Parts(e)) /\ d = DigAt(e)
                         /\ ds = e.digests
  OBVIOUS
<1>2. /\ m \in Nat /\ d \in [0 .. m -> Nat] /\ F \in Seq(Nat) /\ Len(F) = d[m]
      /\ \A i, k \in 0 .. m : i <= k => d[i] <= d[k]
  BY <1>1, DigestLayout
<1>3. ASSUME NEW i \in 1 .. m
      PROVE  /\ d[i] = d[i - 1] + (1 + Len(ds[i].value))
             /\ F[d[i - 1] + 1] = ds[i].alg
             /\ \A j \in 1 .. Len(ds[i].value) : F[d[i - 1] + (1 + j)] = ds[i].value[j]
  BY <1>1, DigestLayout
<1>4. PICK p, t, data : p = e.pcr /\ t = e.type /\ data = e.data
  OBVIOUS
<1>5. p \in Nat /\ t \in Nat /\ data \in Seq(Nat)
      /\ \A i \in 1 .. m : Len(ds[i].value) \in Nat
  <2>1. p \in 0 .. 23 /\ t \in Nat /\ data \in Seq(Nat)
    BY <1>4 DEF LoggedEvents
  <2>2. ds \in Seq(LoggedDigests)
    BY <1>1 DEF LoggedEvents
  <2>3. ASSUME NEW i \in 1 .. m PROVE Len(ds[i].value) \in Nat
    <3>1. ds[i] \in LoggedDigests
      BY <1>1, <2>2
    <3> QED BY <3>1 DEF LoggedDigests
  <2> QED BY <2>1, <2>3
<1>6. PICK E, a, b, c : E = Encode(e) /\ a = <<p, t, m>> /\ b = <<Len(data)>> \o data
                        /\ c = a \o F
  OBVIOUS
<1>7. E = c \o b
  <2>1. E = <<e.pcr, e.type, Len(e.digests)>> \o FlattenSeq(Parts(e)) \o <<Len(e.data)>> \o e.data
    BY <1>6 DEF Encode, Parts
  <2>2. E = (c \o <<Len(data)>>) \o data
    BY <2>1, <1>1, <1>4, <1>6
  <2>3. c \in Seq(Nat) /\ <<Len(data)>> \in Seq(Nat)
    BY <1>2, <1>5, <1>6
  <2>4. PICK u \in Seq(Nat) : u = <<Len(data)>>
    BY <2>3
  <2>5. E = (c \o u) \o data /\ b = u \o data
    BY <2>2, <2>4, <1>6
  <2>6. (c \o u) \o data = c \o (u \o data)
    BY <2>3, <1>5, ConcatAssociative
  <2> QED BY <2>5, <2>6
<1>8. a \in Seq(Nat) /\ Len(a) = 3 /\ a[1] = p /\ a[2] = t /\ a[3] = m
  BY <1>2, <1>5, <1>6
<1>9. b \in Seq(Nat) /\ Len(b) = 1 + Len(data) /\ b[1] = Len(data)
      /\ \A j \in 1 .. Len(data) : b[1 + j] = data[j]
  BY <1>5, <1>6
<1>10. c \in Seq(Nat) /\ Len(c) = 3 + d[m] /\ c[1] = p /\ c[2] = t /\ c[3] = m
       /\ \A q \in 1 .. d[m] : c[3 + q] = F[q]
  BY <1>2, <1>6, <1>8, ConcatIndex
<1>11. /\ E \in Seq(Nat) /\ Len(E) = (3 + d[m]) + (1 + Len(data))
       /\ \A q \in 1 .. 3 + d[m] : E[q] = c[q]
       /\ \A q \in 1 .. 1 + Len(data) : E[(3 + d[m]) + q] = b[q]
  <2>1. PICK x, y \in Nat : x = Len(c) /\ y = Len(b)
    BY <1>9, <1>10
  <2>2. /\ E \in Seq(Nat) /\ Len(E) = x + y
        /\ \A q \in 1 .. x : E[q] = c[q]
        /\ \A q \in 1 .. y : E[x + q] = b[q]
    <3>1. E = c \o b /\ c \in Seq(Nat) /\ b \in Seq(Nat)
      BY <1>7, <1>9, <1>10
    <3> QED BY <2>1, <3>1, ConcatIndex
  <2>3. x = 3 + d[m] /\ y = 1 + Len(data)
    BY <2>1, <1>9, <1>10
  <2> QED BY <2>2, <2>3
<1>12. d[m] \in Nat /\ Len(data) \in Nat
  BY <1>2, <1>5
<1>13. E[1] = p /\ E[2] = t /\ E[3] = m
  <2>1. 1 \in 1 .. 3 + d[m] /\ 2 \in 1 .. 3 + d[m] /\ 3 \in 1 .. 3 + d[m]
    BY <1>12
  <2> QED BY <2>1, <1>10, <1>11
<1>14. E[(3 + d[m]) + 1] = Len(data) /\ \A j \in 1 .. Len(data) : E[(3 + d[m]) + (1 + j)] = data[j]
  <2>1. 1 \in 1 .. 1 + Len(data) /\ \A j \in 1 .. Len(data) : 1 + j \in 1 .. 1 + Len(data)
    BY <1>12
  <2> QED BY <2>1, <1>9, <1>11
<1>15. \A q \in 1 .. d[m] : E[3 + q] = F[q]
  <2>1. \A q \in 1 .. d[m] : 3 + q \in 1 .. 3 + d[m]
    BY <1>12
  <2> QED BY <2>1, <1>10, <1>11
<1>16. ASSUME NEW i \in 1 .. m
       PROVE  /\ E[(3 + d[i - 1]) + 1] = ds[i].alg
              /\ \A j \in 1 .. Len(ds[i].value) : E[(3 + d[i - 1]) + (1 + j)] = ds[i].value[j]
  <2>1. PICK x, l \in Nat : x = d[i - 1] /\ l = Len(ds[i].value)
    <3>1. i - 1 \in 0 .. m
      BY <1>2
    <3>2. d[i - 1] \in Nat /\ Len(ds[i].value) \in Nat
      BY <3>1, <1>2, <1>5
    <3> QED BY <3>2
  <2>2. d[i] = x + (1 + l) /\ d[i] <= d[m]
    BY <2>1, <1>2, <1>3
  <2>3. \A j \in 0 .. l : x + (1 + j) \in 1 .. d[m] /\ (3 + x) + (1 + j) = 3 + (x + (1 + j))
    BY <2>2, <1>12
  <2>4. \A j \in 0 .. l : E[(3 + x) + (1 + j)] = F[x + (1 + j)]
    BY <2>3, <1>15
  <2>5. E[(3 + x) + 1] = F[x + 1]
    BY <2>4
  <2> QED BY <2>1, <2>4, <2>5, <1>3
<1> QED BY <1>1, <1>4, <1>6, <1>11, <1>13, <1>14, <1>16

LEMMA RecordLayout ==
  ASSUME NEW events \in Seq(LoggedEvents)
  PROVE  LET n == Len(events)
             r == RecAt(events)
             A == EncodeAll(events)
         IN /\ n \in Nat /\ r \in [0 .. n -> Nat] /\ r[0] = 0
            /\ \A i \in 1 .. n : r[i] = r[i - 1] + Len(Encode(events[i]))
            /\ \A i, k \in 0 .. n : i <= k => r[i] <= r[k]
            /\ A \in Seq(Nat) /\ Len(A) = r[n]
            /\ \A i \in 1 .. n : \A q \in 1 .. Len(Encode(events[i])) :
                 A[r[i - 1] + q] = Encode(events[i])[q]
<1>1. PICK n \in Nat : n = Len(events) /\ DOMAIN events = 1 .. n
  OBVIOUS
<1>2. PICK ss : ss = Records(events)
  OBVIOUS
<1>3. ss = [i \in 1 .. n |-> Encode(events[i])]
  BY <1>1, <1>2 DEF Records
<1>4. \A i \in 1 .. n : ss[i] = Encode(events[i]) /\ ss[i] \in Seq(Nat)
  <2>1. \A i \in 1 .. n : events[i] \in LoggedEvents
    BY <1>1
  <2> QED BY <1>3, <2>1, EncodeLayout
<1>5. ss \in Seq(Seq(Nat)) /\ Len(ss) = n
  <2>1. ss \in [1 .. n -> Seq(Nat)]
    BY <1>3, <1>4
  <2> QED BY <2>1, SeqDef
<1>6. PICK A, r : A = FlattenSeq(ss) /\ r = Layout(ss)
  OBVIOUS
<1>7. A \in Seq(Nat) /\ Fits(ss, n, A, r)
  BY <1>5, <1>6, FlattenLayout DEF IsLayout
<1>8. A = EncodeAll(events) /\ r = RecAt(events)
  BY <1>2, <1>6 DEF EncodeAll, RecAt, Records
<1>9. /\ r \in [0 .. n -> Nat] /\ r[0] = 0 /\ Len(A) = r[n]
      /\ \A i \in 1 .. n : r[i] = r[i - 1] + Len(ss[i])
      /\ \A i, k \in 0 .. n : i <= k => r[i] <= r[k]
      /\ \A i \in 1 .. n : \A q \in 1 .. Len(ss[i]) : A[r[i - 1] + q] = ss[i][q]
  BY <1>7 DEF Fits
<1>10. \A i \in 1 .. n : r[i] = r[i - 1] + Len(Encode(events[i]))
  BY <1>4, <1>9
<1>11. \A i \in 1 .. n : \A q \in 1 .. Len(Encode(events[i])) :
         A[r[i - 1] + q] = Encode(events[i])[q]
  BY <1>4, <1>9
<1> QED BY <1>1, <1>7, <1>8, <1>9, <1>10, <1>11

\* The cells are those of the log as far as both go.
ReadsAs(cells, events) ==
  /\ cells \in Seq(Nat)
  /\ \A p \in 1 .. Len(cells) : p <= Len(EncodeAll(events)) => cells[p] = EncodeAll(events)[p]

LEMMA ReadCell ==
  ASSUME NEW events \in Seq(LoggedEvents), NEW cells \in Seq(Nat), ReadsAs(cells, events),
         NEW i \in 1 .. Len(events), NEW q \in 1 .. Len(Encode(events[i])),
         RecAt(events)[i - 1] + q <= Len(cells)
  PROVE  cells[RecAt(events)[i - 1] + q] = Encode(events[i])[q]
<1>1. PICK n, r, A, E : /\ n = Len(events) /\ r = RecAt(events) /\ A = EncodeAll(events)
                        /\ E = Encode(events[i])
  OBVIOUS
<1>2. /\ n \in Nat /\ r \in [0 .. n -> Nat] /\ Len(A) = r[n]
      /\ \A h, k \in 0 .. n : h <= k => r[h] <= r[k]
  BY <1>1, RecordLayout
<1>3. r[i] = r[i - 1] + Len(E) /\ A[r[i - 1] + q] = E[q]
  BY <1>1, RecordLayout
<1>4. E \in Seq(Nat)
  BY <1>1, EncodeLayout
<1>5. PICK x, l \in Nat : x = r[i - 1] /\ l = Len(E)
  <2>1. i - 1 \in 0 .. n
    BY <1>1, <1>2
  <2> QED BY <2>1, <1>2, <1>4
<1>6. r[i] <= r[n] /\ r[n] \in Nat /\ r[i] = x + l
  BY <1>1, <1>2, <1>3, <1>5
<1>7. x + q \in 1 .. Len(cells) /\ x + q <= r[n]
  <2>1. q \in 1 .. l /\ x + q <= Len(cells)
    BY <1>1, <1>5
  <2> QED BY <1>6, <2>1
<1>8. cells[x + q] = A[x + q]
  BY <1>1, <1>2, <1>7 DEF ReadsAs
<1> QED BY <1>1, <1>3, <1>5, <1>8

\* The cell at x is a, and v follows, as far as the cells go.
Spells(cells, x, a, v) ==
  /\ x + 1 <= Len(cells) => cells[x + 1] = a
  /\ \A h \in 1 .. Len(v) : x + (1 + h) <= Len(cells) => cells[x + (1 + h)] = v[h]

\* Reading a and v: v is whole if the cells go on as far as it does.
LEMMA ReadSpelled ==
  ASSUME NEW cells \in Seq(Nat), NEW x \in Nat, NEW a, NEW v \in Seq(Nat),
         Spells(cells, x, a, v), Drop(cells, x) # << >>
  PROVE  /\ Drop(cells, x)[1] = a
         /\ x + (1 + Len(v)) <= Len(cells) => Take(Drop(Drop(cells, x), 1), Len(v)) = v
<1>1. x < Len(cells)
  BY DropProps
<1>2. Drop(cells, x)[1] = a
  <2>1. 1 \in 1 .. Len(cells) - x /\ x + 1 <= Len(cells)
    BY <1>1
  <2>2. Drop(cells, x)[1] = cells[x + 1]
    BY <2>1, DropProps
  <2>3. cells[x + 1] = a
    BY <2>1 DEF Spells
  <2> QED BY <2>2, <2>3
<1>3. ASSUME x + (1 + Len(v)) <= Len(cells)
      PROVE  Take(Drop(Drop(cells, x), 1), Len(v)) = v
  <2>1. x + 1 \in Nat /\ (x + 1) + Len(v) <= Len(cells)
    BY <1>3
  <2>2. ASSUME NEW h \in 1 .. Len(v) PROVE cells[(x + 1) + h] = v[h]
    <3>1. x + (1 + h) <= Len(cells) /\ (x + 1) + h = x + (1 + h)
      BY <1>3
    <3> QED BY <3>1 DEF Spells
  <2>3. Take(Drop(cells, x + 1), Len(v)) = v
    BY <2>1, <2>2, TakeSpells
  <2>4. Drop(Drop(cells, x), 1) = Drop(cells, x + 1)
    BY DropDrop
  <2> QED BY <2>3, <2>4
<1> QED BY <1>2, <1>3

LEMMA PieceSpelled ==
  ASSUME NEW cells \in Seq(Nat), NEW E \in Seq(Nat), NEW p \in Nat, NEW z \in Nat, NEW a,
         NEW v \in Seq(Nat), z + (1 + Len(v)) <= Len(E), E[z + 1] = a,
         \A h \in 1 .. Len(v) : E[z + (1 + h)] = v[h],
         \A q \in 1 .. Len(E) : p + q <= Len(cells) => cells[p + q] = E[q]
  PROVE  Spells(cells, p + z, a, v)
<1>1. ASSUME NEW h \in 0 .. Len(v), (p + z) + (1 + h) <= Len(cells)
      PROVE  cells[(p + z) + (1 + h)] = E[z + (1 + h)]
  <2>1. z + (1 + h) \in 1 .. Len(E) /\ p + (z + (1 + h)) = (p + z) + (1 + h)
    OBVIOUS
  <2> QED BY <2>1, <1>1
<1>2. ASSUME (p + z) + 1 <= Len(cells) PROVE cells[(p + z) + 1] = a
  <2>1. 0 \in 0 .. Len(v) /\ (p + z) + (1 + 0) = (p + z) + 1 /\ z + (1 + 0) = z + 1
    OBVIOUS
  <2>2. cells[(p + z) + (1 + 0)] = E[z + (1 + 0)]
    BY <2>1, <1>1, <1>2
  <2> QED BY <2>1, <2>2
<1>3. ASSUME NEW h \in 1 .. Len(v), (p + z) + (1 + h) <= Len(cells)
      PROVE  cells[(p + z) + (1 + h)] = v[h]
  <2>1. h \in 0 .. Len(v)
    OBVIOUS
  <2>2. cells[(p + z) + (1 + h)] = E[z + (1 + h)]
    BY ONLY <2>1, <1>1, <1>3
  <2>3. E[z + (1 + h)] = v[h]
    OBVIOUS
  <2> QED BY ONLY <2>2, <2>3
<1> QED BY <1>2, <1>3 DEF Spells

\* What the loop finds at the record of event i: the header, the digests and the
\* data.
LEMMA RecordSpelled ==
  ASSUME NEW events \in Seq(LoggedEvents), NEW cells \in Seq(Nat), ReadsAs(cells, events),
         NEW i \in 1 .. Len(events)
  PROVE  LET e == events[i]
             m == Len(e.digests)
             d == DigAt(e)
             p == RecAt(events)[i - 1]
         IN /\ p \in Nat /\ m \in Nat /\ d \in [0 .. m -> Nat] /\ d[0] = 0
            /\ p + 1 <= Len(cells) => cells[p + 1] = e.pcr
            /\ p + 2 <= Len(cells) => cells[p + 2] = e.type
            /\ p + 3 <= Len(cells) => cells[p + 3] = m
            /\ \A j \in 1 .. m :
                 /\ e.digests[j].value \in Seq(Nat)
                 /\ d[j] = d[j - 1] + (1 + Len(e.digests[j].value))
                 /\ Spells(cells, p + (3 + d[j - 1]), e.digests[j].alg, e.digests[j].value)
            /\ e.data \in Seq(Nat)
            /\ Spells(cells, p + (3 + d[m]), Len(e.data), e.data)
            /\ RecAt(events)[i] = (p + (3 + d[m])) + (1 + Len(e.data))
<1>1. PICK e \in LoggedEvents : e = events[i]
  OBVIOUS
<1>2. PICK E, d, m, ds, p : E = Encode(e) /\ d = DigAt(e) /\ m = Len(ds) /\ ds = e.digests
                            /\ p = RecAt(events)[i - 1]
  OBVIOUS
<1>3. m \in Nat /\ d \in [0 .. m -> Nat] /\ d[0] = 0
      /\ (\A h, k \in 0 .. m : h <= k => d[h] <= d[k])
      /\ \A j \in 1 .. m : d[j] = d[j - 1] + (1 + Len(ds[j].value))
  BY <1>2, DigestLayout
<1>4. PICK x, l \in Nat : x = d[m] /\ l = Len(e.data) /\ e.data \in Seq(Nat)
  <2>1. d[m] \in Nat
    BY <1>3
  <2>2. e.data \in Seq(Nat)
    BY <1>1 DEF LoggedEvents
  <2> QED BY <2>1, <2>2
<1>5. /\ E \in Seq(Nat) /\ Len(E) = (3 + x) + (1 + l)
      /\ E[1] = e.pcr /\ E[2] = e.type /\ E[3] = m
      /\ E[(3 + x) + 1] = l
      /\ \A h \in 1 .. l : E[(3 + x) + (1 + h)] = e.data[h]
  BY <1>1, <1>2, <1>4, EncodeLayout
<1>6. p \in Nat /\ RecAt(events)[i] = p + Len(E)
  <2>1. RecAt(events) \in [0 .. Len(events) -> Nat] /\ RecAt(events)[i] = p + Len(E)
    BY <1>1, <1>2, RecordLayout
  <2>2. i - 1 \in 0 .. Len(events)
    OBVIOUS
  <2> QED BY <2>1, <2>2, <1>2
<1>7. \A q \in 1 .. Len(E) : p + q <= Len(cells) => cells[p + q] = E[q]
  BY <1>1, <1>2, ReadCell
<1>8. 1 \in 1 .. Len(E) /\ 2 \in 1 .. Len(E) /\ 3 \in 1 .. Len(E)
  BY <1>5
<1>9. Spells(cells, p + (3 + x), l, e.data)
  <2>1. PICK v \in Seq(Nat) : v = e.data
    BY <1>4
  <2>2. 3 + x \in Nat /\ (3 + x) + (1 + Len(v)) <= Len(E)
    <3>1. Len(v) = l /\ (3 + x) + (1 + l) \in Nat /\ 3 + x \in Nat
      BY <2>1, <1>4
    <3>2. (3 + x) + (1 + l) <= (3 + x) + (1 + l)
      OBVIOUS
    <3> QED BY <3>1, <3>2, <1>5
  <2>3. E[(3 + x) + 1] = l /\ \A h \in 1 .. Len(v) : E[(3 + x) + (1 + h)] = v[h]
    BY <2>1, <1>4, <1>5
  <2>4. Spells(cells, p + (3 + x), l, v)
    BY <2>2, <2>3, <1>5, <1>6, <1>7, PieceSpelled
  <2> QED BY <2>1, <2>4
<1>10. ASSUME NEW j \in 1 .. m
       PROVE  /\ ds[j].value \in Seq(Nat)
              /\ Spells(cells, p + (3 + d[j - 1]), ds[j].alg, ds[j].value)
  <2>1. ds \in Seq(LoggedDigests)
    BY <1>1, <1>2 DEF LoggedEvents
  <2>2. ds[j] \in LoggedDigests
    BY <1>2, <2>1
  <2>3. PICK v \in Seq(Nat) : v = ds[j].value
    BY <2>2 DEF LoggedDigests
  <2>4. PICK y \in Nat : y = d[j - 1]
    <3>1. j - 1 \in 0 .. m
      BY <1>3
    <3> QED BY <3>1, <1>3
  <2>5. d[j] = y + (1 + Len(v)) /\ d[j] <= x
    <3>1. j \in 0 .. m /\ m \in 0 .. m /\ j <= m
      BY <1>3
    <3> QED BY <3>1, <2>3, <2>4, <1>3, <1>4
  <2>6. (3 + y) + (1 + Len(v)) <= Len(E) /\ 3 + y \in Nat
    <3>1. PICK w \in Nat : w = Len(v)
      OBVIOUS
    <3>2. y + (1 + w) <= x
      BY <2>5, <3>1
    <3>3. (3 + y) + (1 + w) <= (3 + x) + (1 + l)
      BY <3>2
    <3> QED BY <3>1, <3>3, <1>5
  <2>7. E[(3 + y) + 1] = ds[j].alg /\ \A h \in 1 .. Len(v) : E[(3 + y) + (1 + h)] = v[h]
    BY <2>3, <2>4, <1>1, <1>2, EncodeLayout
  <2>8. Spells(cells, p + (3 + y), ds[j].alg, v)
    BY <2>6, <2>7, <1>5, <1>6, <1>7, PieceSpelled
  <2> QED BY <2>3, <2>4, <2>8
<1>11. RecAt(events)[i] = (p + (3 + x)) + (1 + l)
  <2>1. p + ((3 + x) + (1 + l)) = (p + (3 + x)) + (1 + l)
    BY <1>6
  <2> QED BY <2>1, <1>5, <1>6
<1>12. /\ p + 1 <= Len(cells) => cells[p + 1] = e.pcr
       /\ p + 2 <= Len(cells) => cells[p + 2] = e.type
       /\ p + 3 <= Len(cells) => cells[p + 3] = m
  BY <1>5, <1>7, <1>8
<1>13. p \in Nat /\ e.data \in Seq(Nat)
  BY <1>4, <1>6
<1> QED BY <1>1, <1>2, <1>3, <1>4, <1>9, <1>10, <1>11, <1>12, <1>13

-----------------------------------------------------------------------------
(* Groups.                                                                  *)

Group(Ev) == [pcr : Nat, bank : Nat, events : Seq(Ev)]
Entry(Ev) == [pcr : Nat, bank : Nat, event : Ev]

\* The group that AddEvent looks for.
GroupAt(groups, pcr, bank) == SelectInSeq(groups, LAMBDA g : g.pcr = pcr /\ g.bank = bank)

\* SelectInSeq finds the group if there is one.
LEMMA FindGroup ==
  ASSUME NEW groups, NEW n \in Nat, n = Len(groups), NEW pcr, NEW bank
  PROVE  LET i == GroupAt(groups, pcr, bank)
         IN \/ i = 0 /\ \A k \in 1 .. n : ~ (groups[k].pcr = pcr /\ groups[k].bank = bank)
            \/ i \in 1 .. n /\ groups[i].pcr = pcr /\ groups[i].bank = bank
<1> DEFINE I == {k \in 1 .. n : groups[k].pcr = pcr /\ groups[k].bank = bank}
           i == GroupAt(groups, pcr, bank)
<1>1. i = IF I # {} THEN Min(I) ELSE 0
  BY DEF GroupAt, SelectInSeq
<1>2. CASE I = {}
  <2>1. i = 0
    BY <1>1, <1>2
  <2> QED BY <2>1, <1>2
<1>3. CASE I # {}
  <2>1. \E x \in I : \A y \in I : x <= y
    <3>1. I \in SUBSET Nat
      OBVIOUS
    <3> HIDE DEF I
    <3> QED BY <3>1, <1>3, LeastNatural
  <2>2. Min(I) \in I
    <3> HIDE DEF I
    <3> QED BY <2>1 DEF Min
  <2>3. i \in I
    BY <1>1, <1>3, <2>2
  <2> QED BY <2>3
<1> QED BY <1>2, <1>3

\* One more entry for the PCR and bank goes to the end of what is selected.
LEMMA SelectsAppend ==
  ASSUME NEW Ev, NEW events \in Seq(Ev), NEW entries \in Seq(Entry(Ev)), NEW x \in Entry(Ev),
         Selects(events, entries, x.pcr, x.bank)
  PROVE  Selects(Append(events, x.event), Append(entries, x), x.pcr, x.bank)
<1>1. PICK n \in Nat, l \in Nat : n = Len(entries) /\ l = Len(events)
  OBVIOUS
<1>2. PICK more, M, N, longer :
         /\ more = Append(entries, x) /\ longer = Append(events, x.event)
         /\ M = Places(entries, x.pcr, x.bank) /\ N = Places(more, x.pcr, x.bank)
  OBVIOUS
<1>3. /\ \A j \in 1 .. n : more[j] = entries[j]
      /\ more[n + 1] = x /\ DOMAIN more = 1 .. n + 1 /\ DOMAIN entries = 1 .. n
  BY <1>1, <1>2
<1>4. \A j \in 1 .. l : longer[j] = events[j]
  BY <1>1, <1>2
<1>5. longer[l + 1] = x.event /\ Len(longer) = l + 1
  BY <1>1, <1>2 DEF Entry
<1>6. M \subseteq 1 .. n /\ N = M \cup {n + 1}
  <2>1. M = {j \in 1 .. n : entries[j].pcr = x.pcr /\ entries[j].bank = x.bank}
    BY <1>2, <1>3 DEF Places
  <2>2. N = {j \in 1 .. n + 1 : more[j].pcr = x.pcr /\ more[j].bank = x.bank}
    BY <1>2, <1>3 DEF Places
  <2>3. \A j \in 1 .. n + 1 : j \in 1 .. n \/ j = n + 1
    BY <1>1
  <2>4. \A j \in 1 .. n : j \in 1 .. n + 1
    BY <1>1
  <2>5. n + 1 \in 1 .. n + 1
    BY <1>1
  <2> QED BY <2>1, <2>2, <2>3, <2>4, <2>5, <1>3
<1>7. IsFiniteSet(M) /\ Cardinality(M) \in Nat /\ n + 1 \notin M
  <2>1. IsFiniteSet(1 .. n)
    BY FS_Interval
  <2>2. IsFiniteSet(M)
    BY <2>1, <1>6, FS_Subset
  <2>3. n + 1 \notin 1 .. n
    BY <1>1
  <2> QED BY <2>2, <2>3, <1>6, FS_CardinalityType
<1>8. Cardinality(N) = Cardinality(M) + 1
  BY <1>6, <1>7, FS_AddElement
<1>9. Cardinality(M) = l /\ \A j \in M : events[Cardinality({i \in M : i <= j})] = entries[j].event
  BY <1>1, <1>2 DEF Selects
<1>10. ASSUME NEW j \in M
       PROVE  /\ {i \in N : i <= j} = {i \in M : i <= j}
              /\ Cardinality({i \in M : i <= j}) \in 1 .. l
  <2>1. PICK R : R = {i \in M : i <= j}
    OBVIOUS
  <2>2. {i \in N : i <= j} = R
    BY <1>6, <2>1
  <2>3. IsFiniteSet(R) /\ Cardinality(R) <= Cardinality(M) /\ Cardinality(R) \in Nat
    BY <2>1, <1>7, FS_Subset, FS_CardinalityType
  <2>4. R # {}
    BY <1>6, <2>1
  <2>5. Cardinality(R) # 0
    BY <2>3, <2>4, FS_EmptySet
  <2> QED BY <2>1, <2>2, <2>3, <2>5, <1>9
<1>11. {i \in N : i <= n + 1} = N
  <2>1. \A i \in 1 .. n : i <= n + 1
    BY <1>1
  <2>2. n + 1 <= n + 1
    BY <1>1
  <2> QED BY <2>1, <2>2, <1>6
<1>12. ASSUME NEW j \in N
       PROVE  longer[Cardinality({i \in N : i <= j})] = more[j].event
  <2>1. CASE j = n + 1
    <3>1. Cardinality({i \in N : i <= j}) = l + 1
      BY <2>1, <1>8, <1>9, <1>11
    <3> QED BY <2>1, <3>1, <1>3, <1>5
  <2>2. CASE j \in M
    <3>1. PICK c \in 1 .. l : c = Cardinality({i \in N : i <= j}) /\ c = Cardinality({i \in M : i <= j})
      BY <2>2, <1>10
    <3>2. longer[c] = entries[j].event
      BY <2>2, <3>1, <1>4, <1>9
    <3> QED BY <2>2, <3>1, <3>2, <1>3, <1>6
  <2> QED BY <2>1, <2>2, <1>6
<1>13. Len(longer) = Cardinality(N)
  BY <1>5, <1>8, <1>9
<1>14. Selects(longer, more, x.pcr, x.bank)
  BY <1>2, <1>12, <1>13 DEF Selects
<1> QED BY <1>2, <1>14

\* An entry for another PCR or bank changes nothing.
LEMMA SelectsOther ==
  ASSUME NEW Ev, NEW events, NEW entries \in Seq(Entry(Ev)), NEW x \in Entry(Ev),
         NEW pcr, NEW bank, ~ (x.pcr = pcr /\ x.bank = bank),
         Selects(events, entries, pcr, bank)
  PROVE  Selects(events, Append(entries, x), pcr, bank)
<1>1. PICK n \in Nat : n = Len(entries)
  OBVIOUS
<1>2. PICK more : more = Append(entries, x)
  OBVIOUS
<1>3. /\ \A j \in 1 .. n : more[j] = entries[j]
      /\ more[n + 1] = x /\ DOMAIN more = 1 .. n + 1 /\ DOMAIN entries = 1 .. n
  BY <1>1, <1>2
<1>4. \A j \in 1 .. n + 1 : j \in 1 .. n \/ j = n + 1
  BY <1>1
<1>5. \A j \in 1 .. n : j \in 1 .. n + 1
  BY <1>1
<1>6. Places(more, pcr, bank) = Places(entries, pcr, bank) /\ Places(entries, pcr, bank) \subseteq 1 .. n
  BY <1>3, <1>4, <1>5 DEF Places
<1>7. Selects(events, more, pcr, bank)
  BY <1>3, <1>6 DEF Selects
<1> QED BY <1>2, <1>7

\* AddEvent keeps the groups in agreement with the entries.
LEMMA AddEventAgrees ==
  ASSUME NEW Ev, NEW groups \in Seq(Group(Ev)), NEW entries \in Seq(Entry(Ev)),
         NEW x \in Entry(Ev), Agrees(groups, entries)
  PROVE  /\ AddEvent(groups, x.pcr, x.bank, x.event) \in Seq(Group(Ev))
         /\ Agrees(AddEvent(groups, x.pcr, x.bank, x.event), Append(entries, x))
<1>1. PICK n \in Nat : n = Len(groups) /\ DOMAIN groups = 1 .. n
  OBVIOUS
<1>2. PICK more, after : more = Append(entries, x) /\ after = AddEvent(groups, x.pcr, x.bank, x.event)
  OBVIOUS
<1>3. x.pcr \in Nat /\ x.bank \in Nat /\ x.event \in Ev
  BY DEF Entry
<1>4. \A k \in 1 .. n : /\ groups[k] \in Group(Ev) /\ groups[k].pcr \in Nat
                        /\ groups[k].bank \in Nat /\ groups[k].events \in Seq(Ev)
  <2>1. \A k \in 1 .. n : groups[k] \in Group(Ev)
    BY <1>1
  <2> QED BY <2>1 DEF Group
<1>5. /\ \A i, j \in 1 .. n :
           groups[i].pcr = groups[j].pcr /\ groups[i].bank = groups[j].bank => i = j
      /\ {<<g.pcr, g.bank>> : g \in ToSet(groups)} = {<<y.pcr, y.bank>> : y \in ToSet(entries)}
      /\ \A k \in 1 .. n : Selects(groups[k].events, entries, groups[k].pcr, groups[k].bank)
  BY <1>1 DEF Agrees, ToSet
<1>6. ToSet(more) = ToSet(entries) \cup {x}
  <2>1. PICK l \in Nat : l = Len(entries) /\ DOMAIN entries = 1 .. l
    OBVIOUS
  <2>2. DOMAIN more = 1 .. l + 1 /\ more[l + 1] = x /\ \A j \in 1 .. l : more[j] = entries[j]
    BY <1>2, <2>1
  <2>3. /\ \A j \in 1 .. l + 1 : j \in 1 .. l \/ j = l + 1
        /\ \A j \in 1 .. l : j \in 1 .. l + 1
        /\ l + 1 \in 1 .. l + 1
    BY <2>1
  <2> QED BY <2>1, <2>2, <2>3 DEF ToSet
<1>7. {<<y.pcr, y.bank>> : y \in ToSet(more)}
        = {<<y.pcr, y.bank>> : y \in ToSet(entries)} \cup {<<x.pcr, x.bank>>}
  BY <1>6
<1>8. PICK i : i = GroupAt(groups, x.pcr, x.bank)
  OBVIOUS
<1>9. after = IF i = 0
              THEN Append(groups, [pcr |-> x.pcr, bank |-> x.bank, events |-> <<x.event>>])
              ELSE [groups EXCEPT ![i].events = Append(@, x.event)]
  BY <1>2, <1>8 DEF AddEvent, GroupAt
<1>10. \/ i = 0 /\ \A k \in 1 .. n : ~ (groups[k].pcr = x.pcr /\ groups[k].bank = x.bank)
       \/ i \in 1 .. n /\ groups[i].pcr = x.pcr /\ groups[i].bank = x.bank
  BY <1>1, <1>8, FindGroup
<1>11. CASE i = 0 /\ \A k \in 1 .. n : ~ (groups[k].pcr = x.pcr /\ groups[k].bank = x.bank)
  <2>1. PICK g : g = [pcr |-> x.pcr, bank |-> x.bank, events |-> <<x.event>>]
    OBVIOUS
  <2>2. g \in Group(Ev) /\ g.pcr = x.pcr /\ g.bank = x.bank /\ g.events = <<x.event>>
    BY <2>1, <1>3 DEF Group
  <2>3. after = Append(groups, g)
    BY <2>1, <1>9, <1>11
  <2>4. after \in Seq(Group(Ev)) /\ DOMAIN after = 1 .. n + 1 /\ after[n + 1] = g
        /\ \A k \in 1 .. n : after[k] = groups[k]
    BY <2>2, <2>3, <1>1
  <2>5. /\ \A j \in 1 .. n + 1 : j \in 1 .. n \/ j = n + 1
        /\ \A j \in 1 .. n : j \in 1 .. n + 1
        /\ n + 1 \in 1 .. n + 1
    BY <1>1
  <2>6. \A k, j \in 1 .. n + 1 :
          after[k].pcr = after[j].pcr /\ after[k].bank = after[j].bank => k = j
    BY <2>2, <2>4, <2>5, <1>5, <1>11
  <2>7. ToSet(after) = ToSet(groups) \cup {g}
    BY <2>4, <2>5, <1>1 DEF ToSet
  <2>8. {<<h.pcr, h.bank>> : h \in ToSet(after)}
          = {<<h.pcr, h.bank>> : h \in ToSet(groups)} \cup {<<x.pcr, x.bank>>}
    BY <2>2, <2>7
  <2>9. Selects(g.events, more, g.pcr, g.bank)
    <3>1. Places(entries, x.pcr, x.bank) = {}
      <4>1. \A y \in ToSet(entries) : \E k \in 1 .. n : <<groups[k].pcr, groups[k].bank>> = <<y.pcr, y.bank>>
        <5> SUFFICES ASSUME NEW y \in ToSet(entries)
                     PROVE  \E k \in 1 .. n : <<groups[k].pcr, groups[k].bank>> = <<y.pcr, y.bank>>
          OBVIOUS
        <5>1. <<y.pcr, y.bank>> \in {<<h.pcr, h.bank>> : h \in ToSet(groups)}
          BY <1>5
        <5>2. PICK h \in ToSet(groups) : <<y.pcr, y.bank>> = <<h.pcr, h.bank>>
          BY <5>1
        <5> QED BY <5>2, <1>1 DEF ToSet
      <4>2. \A y \in ToSet(entries) : ~ (y.pcr = x.pcr /\ y.bank = x.bank)
        BY <4>1, <1>11
      <4> QED BY <4>2 DEF Places, ToSet
    <3>2. Selects(<< >>, entries, x.pcr, x.bank)
      BY <3>1, FS_EmptySet DEF Selects
    <3>3. << >> \in Seq(Ev) /\ Append(<< >>, x.event) = <<x.event>>
      OBVIOUS
    <3>4. Selects(Append(<< >>, x.event), Append(entries, x), x.pcr, x.bank)
      BY <3>2, <3>3, SelectsAppend
    <3> QED BY <3>3, <3>4, <2>2, <1>2
  <2>10. ASSUME NEW k \in 1 .. n
         PROVE  Selects(after[k].events, more, after[k].pcr, after[k].bank)
    BY <2>4, <1>2, <1>5, <1>11, SelectsOther
  <2>11. \A h \in ToSet(after) : Selects(h.events, more, h.pcr, h.bank)
    BY <2>4, <2>5, <2>9, <2>10 DEF ToSet
  <2>12. Agrees(after, more)
    BY <2>4, <2>6, <2>8, <2>11, <1>5, <1>7 DEF Agrees
  <2> QED BY <2>4, <2>12, <1>2
<1>12. CASE i \in 1 .. n /\ groups[i].pcr = x.pcr /\ groups[i].bank = x.bank
  <2>1. PICK g : g = [groups[i] EXCEPT !.events = Append(groups[i].events, x.event)]
    OBVIOUS
  <2>2. g \in Group(Ev) /\ g.pcr = x.pcr /\ g.bank = x.bank
        /\ g.events = Append(groups[i].events, x.event)
    <3>1. PICK o : o = groups[i]
      OBVIOUS
    <3>2. o \in Group(Ev) /\ o.pcr = x.pcr /\ o.bank = x.bank /\ o.events \in Seq(Ev)
      BY <3>1, <1>4, <1>12
    <3>3. Append(o.events, x.event) \in Seq(Ev)
      BY <3>2, <1>3
    <3>4. g = [o EXCEPT !.events = Append(o.events, x.event)]
      BY <2>1, <3>1
    <3>5. g \in Group(Ev) /\ g.pcr = o.pcr /\ g.bank = o.bank /\ g.events = Append(o.events, x.event)
      BY <3>2, <3>3, <3>4 DEF Group
    <3> QED BY <3>1, <3>2, <3>5
  <2>3. after = [groups EXCEPT ![i] = g]
    BY <2>1, <1>1, <1>9, <1>12
  <2>4. after \in Seq(Group(Ev)) /\ DOMAIN after = 1 .. n /\ after[i] = g
        /\ \A k \in 1 .. n : k # i => after[k] = groups[k]
    BY <2>2, <2>3, <1>1, <1>12
  <2>5. \A k \in 1 .. n : after[k].pcr = groups[k].pcr /\ after[k].bank = groups[k].bank
    BY <2>2, <2>4, <1>12
  <2>6. \A k, j \in 1 .. n :
          after[k].pcr = after[j].pcr /\ after[k].bank = after[j].bank => k = j
    BY <2>5, <1>5
  <2>7. {<<h.pcr, h.bank>> : h \in ToSet(after)} = {<<h.pcr, h.bank>> : h \in ToSet(groups)}
    <3>1. {<<h.pcr, h.bank>> : h \in ToSet(after)} = {<<after[k].pcr, after[k].bank>> : k \in 1 .. n}
      BY <2>4 DEF ToSet
    <3>2. {<<h.pcr, h.bank>> : h \in ToSet(groups)} = {<<groups[k].pcr, groups[k].bank>> : k \in 1 .. n}
      BY <1>1 DEF ToSet
    <3>3. \A k \in 1 .. n : <<after[k].pcr, after[k].bank>> = <<groups[k].pcr, groups[k].bank>>
      BY <2>5
    <3>4. ASSUME NEW f, NEW h, \A k \in 1 .. n : f[k] = h[k]
          PROVE  {f[k] : k \in 1 .. n} = {h[k] : k \in 1 .. n}
      BY <3>4
    <3>5. PICK f, h : /\ f = [k \in 1 .. n |-> <<after[k].pcr, after[k].bank>>]
                      /\ h = [k \in 1 .. n |-> <<groups[k].pcr, groups[k].bank>>]
      OBVIOUS
    <3>6. {f[k] : k \in 1 .. n} = {h[k] : k \in 1 .. n}
      BY <3>3, <3>4, <3>5
    <3>7. /\ {f[k] : k \in 1 .. n} = {<<after[k].pcr, after[k].bank>> : k \in 1 .. n}
          /\ {h[k] : k \in 1 .. n} = {<<groups[k].pcr, groups[k].bank>> : k \in 1 .. n}
      BY <3>5
    <3> QED BY <3>1, <3>2, <3>6, <3>7
  <2>8. <<x.pcr, x.bank>> \in {<<h.pcr, h.bank>> : h \in ToSet(groups)}
    <3>1. groups[i] \in ToSet(groups)
      BY <1>1, <1>12 DEF ToSet
    <3> QED BY <3>1, <1>12
  <2>9. Selects(g.events, more, g.pcr, g.bank)
    BY <2>2, <1>2, <1>4, <1>5, <1>12, SelectsAppend
  <2>10. ASSUME NEW k \in 1 .. n, k # i
         PROVE  Selects(after[k].events, more, after[k].pcr, after[k].bank)
    <3>1. ~ (groups[k].pcr = x.pcr /\ groups[k].bank = x.bank)
      BY <2>10, <1>5, <1>12
    <3>2. after[k] = groups[k]
      BY <2>4, <2>10
    <3> QED BY <3>1, <3>2, <1>2, <1>5, SelectsOther
  <2>11. \A h \in ToSet(after) : Selects(h.events, more, h.pcr, h.bank)
    BY <2>4, <2>9, <2>10 DEF ToSet
  <2>12. Agrees(after, more)
    BY <2>4, <2>6, <2>7, <2>8, <2>11, <1>5, <1>7 DEF Agrees
  <2> QED BY <2>4, <2>12, <1>2
<1> QED BY <1>10, <1>11, <1>12

\* The groups hold exactly these entries.
Tracks(groups, entries) ==
  \E Ev : /\ groups \in Seq(Group(Ev)) /\ entries \in Seq(Entry(Ev))
          /\ Agrees(groups, entries)

LEMMA TracksEmpty == Tracks(<< >>, << >>)
<1>1. Agrees(<< >>, << >>)
  BY DEF Agrees, ToSet
<1>2. << >> \in Seq(Group({})) /\ << >> \in Seq(Entry({}))
  OBVIOUS
<1> QED BY <1>1, <1>2 DEF Tracks

LEMMA TracksAppend ==
  ASSUME NEW groups, NEW entries, Tracks(groups, entries), NEW pcr \in Nat, NEW bank \in Nat,
         NEW event
  PROVE  Tracks(AddEvent(groups, pcr, bank, event),
                Append(entries, [pcr |-> pcr, bank |-> bank, event |-> event]))
<1>1. PICK Ev : groups \in Seq(Group(Ev)) /\ entries \in Seq(Entry(Ev)) /\ Agrees(groups, entries)
  BY DEF Tracks
<1>2. PICK Fv : Fv = Ev \cup {event}
  OBVIOUS
<1>3. Group(Ev) \subseteq Group(Fv) /\ Entry(Ev) \subseteq Entry(Fv)
  <2>1. Ev \subseteq Fv
    BY <1>2
  <2>2. Seq(Ev) \subseteq Seq(Fv)
    BY <2>1, SeqMonotonic
  <2> QED BY <2>1, <2>2 DEF Group, Entry
<1>4. groups \in Seq(Group(Fv)) /\ entries \in Seq(Entry(Fv))
  BY <1>1, <1>3, SeqMonotonic
<1>5. PICK x : x = [pcr |-> pcr, bank |-> bank, event |-> event]
  OBVIOUS
<1>6. x \in Entry(Fv) /\ x.pcr = pcr /\ x.bank = bank /\ x.event = event
  BY <1>2, <1>5 DEF Entry
<1>7. Append(entries, x) \in Seq(Entry(Fv))
  BY <1>4, <1>6
<1> QED BY <1>1, <1>4, <1>5, <1>6, <1>7, AddEventAgrees DEF Tracks

-----------------------------------------------------------------------------
(* The entries of a log.                                                    *)

EntryOf(events, i, j, txt) ==
  [pcr |-> events[i].pcr, bank |-> events[i].digests[j].alg,
   event |-> [type |-> events[i].type, name |-> NameOf(events, i, 0),
              tags |-> IF ~txt THEN events[i].tags
                       ELSE IF NameOf(events, i, 0) = NoName THEN << >>
                       ELSE <<<<NameOf(events, i, 0)>>>>,
              measurement |-> events[i].digests[j].value]]

EntryLists(events, txt) ==
  [i \in DOMAIN events |-> [j \in DOMAIN events[i].digests |-> EntryOf(events, i, j, txt)]]

EntAt(events, txt) == Layout(EntryLists(events, txt))

LEMMA EntriesLayout ==
  ASSUME NEW events \in Seq(LoggedEvents), NEW txt \in BOOLEAN
  PROVE  LET n == Len(events)
             c == EntAt(events, txt)
             W == Entries(events, txt, 0)
         IN /\ n \in Nat /\ c \in [0 .. n -> Nat] /\ c[0] = 0
            /\ \A i \in 1 .. n : c[i] = c[i - 1] + Len(events[i].digests)
            /\ \A i, k \in 0 .. n : i <= k => c[i] <= c[k]
            /\ (\E Ev : W \in Seq(Entry(Ev))) /\ Len(W) = c[n]
            /\ \A i \in 1 .. n : \A j \in 1 .. Len(events[i].digests) :
                 W[c[i - 1] + j] = EntryOf(events, i, j, txt)
<1>1. PICK n \in Nat : n = Len(events) /\ DOMAIN events = 1 .. n
  OBVIOUS
<1>2. PICK Ev, S : /\ Ev = UNION {{EntryOf(events, i, j, txt).event : j \in Nat} : i \in 1 .. n}
                   /\ S = Entry(Ev)
  OBVIOUS
<1>3. PICK ss : ss = EntryLists(events, txt)
  OBVIOUS
<1>4. ss = [i \in 1 .. n |-> [j \in DOMAIN events[i].digests |-> EntryOf(events, i, j, txt)]]
  BY <1>1, <1>3 DEF EntryLists
<1>5. ASSUME NEW i \in 1 .. n
      PROVE  /\ ss[i] \in Seq(S) /\ Len(ss[i]) = Len(events[i].digests)
             /\ \A j \in 1 .. Len(events[i].digests) : ss[i][j] = EntryOf(events, i, j, txt)
  <2>1. events[i] \in LoggedEvents
    BY <1>1
  <2>2. events[i].digests \in Seq(LoggedDigests)
    BY <2>1 DEF LoggedEvents
  <2>3. PICK m \in Nat : m = Len(events[i].digests) /\ DOMAIN events[i].digests = 1 .. m
    BY <2>2
  <2>4. ss[i] = [j \in 1 .. m |-> EntryOf(events, i, j, txt)]
    BY <2>3, <1>4
  <2>5. ASSUME NEW j \in 1 .. m PROVE EntryOf(events, i, j, txt) \in S
    <3>1. PICK x, a, y : /\ x = EntryOf(events, i, j, txt).event /\ a = events[i].pcr
                         /\ y = events[i].digests[j].alg
      OBVIOUS
    <3>2. x \in Ev
      BY <3>1, <1>2
    <3>3. a \in 0 .. 23 /\ events[i].digests[j] \in LoggedDigests
      BY <3>1, <2>1, <2>2, <2>3 DEF LoggedEvents
    <3>4. a \in Nat /\ y \in Nat
      <4>1. a \in Nat
        BY <3>3
      <4>2. y \in Nat
        BY <3>1, <3>3 DEF LoggedDigests
      <4> QED BY <4>1, <4>2
    <3>5. EntryOf(events, i, j, txt) = [pcr |-> a, bank |-> y, event |-> x]
      BY <3>1 DEF EntryOf
    <3> QED BY <3>2, <3>4, <3>5, <1>2 DEF Entry
  <2>6. ss[i] \in [1 .. m -> S]
    BY <2>4, <2>5
  <2>7. ss[i] \in Seq(S) /\ Len(ss[i]) = m
    BY <2>6, SeqDef
  <2> QED BY <2>3, <2>4, <2>7
<1>6. ss \in Seq(Seq(S)) /\ Len(ss) = n
  <2>1. ss \in [1 .. n -> Seq(S)]
    BY <1>4, <1>5
  <2> QED BY <2>1, SeqDef
<1>7. PICK W, c : W = FlattenSeq(ss) /\ c = Layout(ss)
  OBVIOUS
<1>8. W \in Seq(S) /\ Fits(ss, n, W, c)
  BY <1>6, <1>7, FlattenLayout DEF IsLayout
<1>9. W = Entries(events, txt, 0) /\ c = EntAt(events, txt)
  BY <1>3, <1>7 DEF Entries, EntAt, EntryLists, EntryOf
<1>10. /\ c \in [0 .. n -> Nat] /\ c[0] = 0 /\ Len(W) = c[n]
       /\ \A i \in 1 .. n : c[i] = c[i - 1] + Len(ss[i])
       /\ \A i, k \in 0 .. n : i <= k => c[i] <= c[k]
       /\ \A i \in 1 .. n : \A j \in 1 .. Len(ss[i]) : W[c[i - 1] + j] = ss[i][j]
  BY <1>8 DEF Fits
<1>11. \A i \in 1 .. n : c[i] = c[i - 1] + Len(events[i].digests)
  BY <1>5, <1>10
<1>12. \A i \in 1 .. n : \A j \in 1 .. Len(events[i].digests) :
         W[c[i - 1] + j] = EntryOf(events, i, j, txt)
  BY <1>5, <1>10
<1>13. \E Fv : W \in Seq(Entry(Fv))
  BY <1>2, <1>8
<1> QED BY <1>1, <1>9, <1>10, <1>11, <1>12, <1>13

-----------------------------------------------------------------------------
(* createMeasureLog on cells that hold a log, or the beginning of one.      *)

\* The entries are the first that are wanted, but for their tags if the log was
\* cut off.
Follows(entries, want, whole) ==
  /\ Len(entries) <= Len(want)
  /\ \A q \in 1 .. Len(entries) :
       /\ entries[q].pcr = want[q].pcr /\ entries[q].bank = want[q].bank
       /\ Untagged(entries[q].event) = Untagged(want[q].event)
       /\ whole => entries[q] = want[q]

\* The cells go on to the end of the log.
Reaches(cells, events) == RecAt(events)[Len(events)] <= Len(cells)

\* What does not change while the loop runs: cells that hold the events as far as
\* they go, and want, which has their entries after the first base ones.
Stream(cells, events, txt, want, base) ==
  /\ events \in Seq(LoggedEvents) /\ cells \in Seq(Nat) /\ ReadsAs(cells, events)
  /\ KnownAlgorithms(events) /\ \A i \in DOMAIN events : WellFormed(events[i])
  /\ Reaches(cells, events) => Terminated(Drop(cells, RecAt(events)[Len(events)]))
  /\ ~ Reaches(cells, events) => Len(cells) <= RecAt(events)[Len(events)]
  /\ txt \in BOOLEAN /\ base \in Nat /\ (\E S : want \in Seq(S))
  /\ Len(want) = base + EntAt(events, txt)[Len(events)]
  /\ \A i \in 1 .. Len(events) : \A j \in 1 .. Len(events[i].digests) :
       want[base + (EntAt(events, txt)[i - 1] + j)] = EntryOf(events, i, j, txt)

\* The size lets the loop go to the end of the log.
SizeFits(cells, events) ==
  Reaches(cells, events) => \A k \in 0 .. Len(events) - 1 : RecAt(events)[k] < size

\* It does not let it go further if nothing follows.
SizeEnds(cells, events) ==
  Drop(cells, RecAt(events)[Len(events)]) = << >> => RecAt(events)[Len(events)] >= size

\* An event is counted if it is a 501 event.
LEMMA CountStep ==
  ASSUME NEW events, NEW k \in Nat, k # 0
  PROVE  /\ Count501(events, k - 1) \in Nat
         /\ Count501(events, k) = IF events[k].type = Event501 THEN Count501(events, k - 1) + 1
                                  ELSE Count501(events, k - 1)
<1>1. PICK M, N : /\ M = {j \in 1 .. k - 1 : events[j].type = Event501}
                  /\ N = {j \in 1 .. k : events[j].type = Event501}
  OBVIOUS
<1>2. IsFiniteSet(M) /\ Cardinality(M) \in Nat
  <2>1. IsFiniteSet(1 .. k - 1)
    BY FS_Interval
  <2>2. M \subseteq 1 .. k - 1
    BY <1>1
  <2>3. IsFiniteSet(M)
    BY <2>1, <2>2, FS_Subset
  <2> QED BY <2>3, FS_CardinalityType
<1>3. (\A j \in 1 .. k : j \in 1 .. k - 1 \/ j = k) /\ (\A j \in 1 .. k - 1 : j \in 1 .. k)
      /\ k \in 1 .. k /\ k \notin 1 .. k - 1
  OBVIOUS
<1>4. CASE events[k].type = Event501
  <2>1. N = M \cup {k} /\ k \notin M
    BY <1>1, <1>3, <1>4
  <2>2. Cardinality(N) = Cardinality(M) + 1
    BY <2>1, <1>2, FS_AddElement
  <2> QED BY <2>2, <1>1, <1>2, <1>4 DEF Count501
<1>5. CASE events[k].type # Event501
  <2>1. N = M
    BY <1>1, <1>3, <1>5
  <2> QED BY <2>1, <1>1, <1>2, <1>5 DEF Count501
<1> QED BY <1>4, <1>5

\* The loop is about to read the record after event k.
AtRecord(cells, events, k) ==
  /\ k \in 0 .. Len(events)
  /\ offset = RecAt(events)[k] /\ buf = Drop(cells, RecAt(events)[k])
  /\ index501 = Count501(events, k)

Header(events, k, digests, tags) ==
  [pcr |-> events[k].pcr, type |-> events[k].type, count |-> Len(events[k].digests),
   digests |-> digests, name |-> NameOf(events, k, 0), tags |-> tags]

HeaderRead(events, k) ==
  k \in 1 .. Len(events) /\ rec = Header(events, k, rec.digests, rec.tags)

\* It has read j digests of event k.
AtDigest(cells, events, k, j) ==
  /\ HeaderRead(events, k) /\ index501 = Count501(events, k - 1)
  /\ j \in 0 .. Len(events[k].digests)
  /\ offset = RecAt(events)[k - 1] + (3 + DigAt(events[k])[j])
  /\ buf = Drop(cells, RecAt(events)[k - 1] + (3 + DigAt(events[k])[j]))
  /\ rec.digests \in Seq([bank : Nat, measurement : Seq(Nat)]) /\ Len(rec.digests) = j
  /\ \A h \in 1 .. j :
       /\ rec.digests[h].bank = events[k].digests[h].alg
       /\ RecAt(events)[k - 1] + (3 + DigAt(events[k])[h]) <= Len(cells)
            => rec.digests[h].measurement = events[k].digests[h].value

\* It has published j digests of event k.
AtPublish(cells, events, txt, k, j) ==
  /\ HeaderRead(events, k) /\ AtRecord(cells, events, k)
  /\ j \in 0 .. Len(events[k].digests) - 1
  /\ rec.digests \in Seq([bank : Nat, measurement : Seq(Nat)])
  /\ Len(rec.digests) = Len(events[k].digests) - j
  /\ \A h \in 1 .. Len(events[k].digests) - j :
       /\ rec.digests[h].bank = events[k].digests[j + h].alg
       /\ rec.digests[h].measurement = events[k].digests[j + h].value
  /\ Reaches(cells, events) => rec.tags = EntryOf(events, k, j + 1, txt).event.tags

\* entries are published.
Reading(cells, events, txt, want, base, entries) ==
  /\ Tracks(logs, entries) /\ Follows(entries, want, Reaches(cells, events))
  /\ pc = "record" => \E k \in 0 .. Len(events) :
       AtRecord(cells, events, k) /\ Len(entries) = base + EntAt(events, txt)[k]
  /\ pc = "digest" => \E k \in 1 .. Len(events) : \E j \in 0 .. Len(events[k].digests) - 1 :
       AtDigest(cells, events, k, j) /\ Len(entries) = base + EntAt(events, txt)[k - 1]
  /\ pc = "event" => \E k \in 1 .. Len(events) :
       /\ AtDigest(cells, events, k, Len(events[k].digests))
       /\ Len(entries) = base + EntAt(events, txt)[k - 1]
  /\ pc = "publish" => \E k \in 1 .. Len(events) : \E j \in 0 .. Len(events[k].digests) - 1 :
       /\ AtPublish(cells, events, txt, k, j)
       /\ Len(entries) = base + (EntAt(events, txt)[k - 1] + j)
  /\ pc = "parsed" => (Reaches(cells, events) => Len(entries) = Len(want))

LoopPcs == {"record", "digest", "event", "publish", "parsed"}

\* What the loop finds behind event k.
Behind(cells, events, k, b) ==
  /\ b \in Seq(Nat) /\ RecAt(events)[k] \in Nat
  /\ Drop(b, 3) = Drop(cells, RecAt(events)[k] + 3)
  /\ k = Len(events) => b = << >> \/ (Reaches(cells, events) /\ Terminated(b))
  /\ k # Len(events) =>
       LET e == events[k + 1]
       IN /\ e.pcr \in 0 .. 23 /\ Len(e.digests) \in 1 .. 5
          /\ Reaches(cells, events) => Len(b) >= 3
          /\ Len(b) >= 1 => b[1] = e.pcr
          /\ Len(b) >= 3 => b[2] = e.type /\ b[3] = Len(e.digests)

LEMMA RecordFacts ==
  ASSUME NEW cells, NEW events, NEW txt, NEW want, NEW base,
         Stream(cells, events, txt, want, base),
         NEW k \in 0 .. Len(events), NEW b, b = Drop(cells, RecAt(events)[k])
  PROVE  Behind(cells, events, k, b)
<1>0. events \in Seq(LoggedEvents) /\ cells \in Seq(Nat) /\ ReadsAs(cells, events)
  BY DEF Stream
<1>r. PICK r : r = RecAt(events)
  OBVIOUS
<1>1. PICK n \in Nat : n = Len(events) /\ r = RecAt(events)
  BY <1>0, <1>r
<1>2. r \in [0 .. n -> Nat] /\ \A i, h \in 0 .. n : i <= h => r[i] <= r[h]
  BY <1>0, <1>1, RecordLayout
<1>3. PICK p \in Nat : p = r[k]
  BY <1>1, <1>2
<1>4. cells \in Seq(Nat) /\ b = Drop(cells, p)
  BY <1>0, <1>1, <1>3
<1>5. b \in Seq(Nat) /\ Drop(b, 3) = Drop(cells, p + 3)
  BY <1>4, DropProps, DropDrop
<1>6. ASSUME k = n PROVE b = << >> \/ (Reaches(cells, events) /\ Terminated(b))
  <2>1. CASE Reaches(cells, events)
    BY <2>1, <1>1, <1>6 DEF Stream
  <2>2. CASE ~ Reaches(cells, events)
    <3>1. p >= Len(cells)
      <4>1. Len(cells) <= r[n]
        BY <2>2, <1>1 DEF Stream
      <4> QED BY <4>1, <1>3, <1>4, <1>6
    <3> QED BY <3>1, <1>4, DropProps
  <2> QED BY <2>1, <2>2
<1>7. ASSUME k # n
      PROVE  LET e == events[k + 1]
             IN /\ e.pcr \in 0 .. 23 /\ Len(e.digests) \in 1 .. 5
                /\ Reaches(cells, events) => Len(b) >= 3
                /\ Len(b) >= 1 => b[1] = e.pcr
                /\ Len(b) >= 3 => b[2] = e.type /\ b[3] = Len(e.digests)
  <2>1. PICK i \in 1 .. n : i = k + 1 /\ i - 1 = k
    BY <1>1, <1>7
  <2>2. PICK e \in LoggedEvents : e = events[i]
    BY <2>1, <1>0, <1>1
  <2>3. e.pcr \in 0 .. 23 /\ Len(e.digests) \in 1 .. 5
    <3>1. WellFormed(e)
      BY <2>2, <1>0, <1>1 DEF Stream
    <3> QED BY <2>2, <3>1 DEF LoggedEvents, WellFormed
  <2>4. PICK m, d : m = Len(e.digests) /\ d = DigAt(e)
    OBVIOUS
  <2>5. /\ p + 1 <= Len(cells) => cells[p + 1] = e.pcr
        /\ p + 2 <= Len(cells) => cells[p + 2] = e.type
        /\ p + 3 <= Len(cells) => cells[p + 3] = m
        /\ m \in Nat /\ d \in [0 .. m -> Nat] /\ e.data \in Seq(Nat)
        /\ r[i] = (p + (3 + d[m])) + (1 + Len(e.data))
    <3>1. i \in 1 .. Len(events) /\ RecAt(events)[i - 1] = p
      BY <2>1, <1>1, <1>3
    <3>2. events[i] = e /\ Len(events[i].digests) = m /\ DigAt(events[i]) = d
      BY <2>2, <2>4
    <3> QED BY <3>1, <3>2, <1>0, <1>1, RecordSpelled
  <2>6. ASSUME NEW q \in 1 .. 3, Len(b) >= q PROVE p + q <= Len(cells) /\ b[q] = cells[p + q]
    <3>1. b # << >>
      BY <1>5, <2>6
    <3>2. p < Len(cells)
      BY <3>1, <1>4, DropProps
    <3>3. p <= Len(cells)
      BY <3>2, <1>4
    <3>4. Len(b) = Len(cells) - p /\ \A h \in 1 .. Len(cells) - p : b[h] = cells[p + h]
      <4>1. Len(b) = Len(cells) - p
        BY <3>3, <1>4, DropProps
      <4>2. \A h \in 1 .. Len(cells) - p : b[h] = cells[p + h]
        <5>1. \A h \in 1 .. Len(cells) - p : Drop(cells, p)[h] = cells[p + h]
          BY <1>0, DropProps
        <5> QED BY <5>1, <1>4
      <4> QED BY <4>1, <4>2
    <3>5. PICK l \in Nat : l = Len(cells)
      BY <1>4
    <3>6. q \in 1 .. l - p /\ p + q <= l
      BY <3>3, <3>4, <3>5, <2>6
    <3> QED BY <3>4, <3>5, <3>6
  <2>7. PICK lb, lc \in Nat : lb = Len(b) /\ lc = Len(cells)
    BY <1>4, <1>5
  <2>8. Reaches(cells, events) => Len(b) >= 3
    <3> SUFFICES ASSUME Reaches(cells, events) PROVE lb >= 3
      BY <2>7
    <3>1. PICK x, l \in Nat : x = d[m] /\ l = Len(e.data)
      BY <2>5
    <3>2. r[i] = (p + (3 + x)) + (1 + l) /\ r[i] <= r[n] /\ r[n] \in Nat /\ r[i] \in Nat
      BY <3>1, <2>1, <2>5, <1>2
    <3>3. r[n] <= lc
      BY <2>7, <1>1 DEF Reaches
    <3>4. p + 3 <= lc
      BY <3>2, <3>3
    <3>5. lb = lc - p
      <4>1. p <= Len(cells)
        BY <3>4, <2>7
      <4>2. Len(b) = Len(cells) - p
        BY <4>1, <1>4, DropProps
      <4> QED BY <4>2, <2>7
    <3> QED BY <3>4, <3>5
  <2>9. Len(b) >= 1 => b[1] = e.pcr
    BY <2>5, <2>6
  <2>10. Len(b) >= 3 => b[2] = e.type /\ b[3] = m
    <3> SUFFICES ASSUME Len(b) >= 3 PROVE b[2] = e.type /\ b[3] = m
      OBVIOUS
    <3>1. Len(b) >= 2
      BY <2>7
    <3>2. b[2] = cells[p + 2] /\ p + 2 <= Len(cells)
      BY <3>1, <2>6
    <3>3. b[3] = cells[p + 3] /\ p + 3 <= Len(cells)
      BY <2>6
    <3> QED BY <3>2, <3>3, <2>5
  <2> QED BY <2>1, <2>2, <2>3, <2>4, <2>8, <2>9, <2>10
<1> QED BY <1>1, <1>3, <1>5, <1>6, <1>7 DEF Behind

LEMMA RecordFails ==
  ASSUME NEW cells, NEW events, NEW txt, NEW want, NEW base, NEW entries,
         Stream(cells, events, txt, want, base), SizeEnds(cells, events),
         Reading(cells, events, txt, want, base, entries), pc = "record", offset < size,
         size \in Nat, buf = << >> \/ (Len(buf) \in {1, 2} /\ buf[1] <= 23)
  PROVE  ~ Reaches(cells, events)
<1> SUFFICES ASSUME Reaches(cells, events) PROVE FALSE
  OBVIOUS
<1>1. PICK k \in 0 .. Len(events) : AtRecord(cells, events, k)
  BY DEF Reading
<1>2. PICK n, r, b : n = Len(events) /\ r = RecAt(events) /\ b = buf
  OBVIOUS
<1>3. b = Drop(cells, r[k]) /\ offset = r[k]
  BY <1>1, <1>2 DEF AtRecord
<1>4. b \in Seq(Nat) /\ (k # n => Len(b) >= 3) /\ (k = n => b = << >> \/ Terminated(b))
  <2>1. Behind(cells, events, k, b)
    BY <1>2, <1>3, RecordFacts
  <2> QED BY <2>1, <1>2 DEF Behind
<1>5. CASE k # n
  <2>1. b = << >> \/ Len(b) \in {1, 2}
    BY <1>2
  <2>2. Len(b) \in {0, 1, 2}
    BY <2>1
  <2>3. \A x \in {0, 1, 2} : ~ (x >= 3)
    OBVIOUS
  <2> QED BY <2>2, <2>3, <1>4, <1>5
<1>6. CASE k = n /\ b = << >>
  <2>1. r[n] >= size
    BY <1>2, <1>3, <1>6 DEF SizeEnds
  <2>2. PICK x \in Nat : x = r[k]
    <3>1. Behind(cells, events, k, b)
      BY <1>2, <1>3, RecordFacts
    <3> QED BY <3>1, <1>2 DEF Behind
  <2>3. x < size /\ x >= size
    BY <2>1, <2>2, <1>3, <1>6
  <2> QED BY <2>3
<1>7. CASE k = n /\ b # << >>
  <2>1. Terminated(b) /\ Len(b) \in {1, 2} /\ b[1] <= 23
    BY <1>2, <1>4, <1>7
  <2>2. b[1] \in Nat
    BY <2>1, <1>4
  <2> QED BY <2>1, <2>2, <1>7 DEF Terminated
<1> QED BY <1>5, <1>6, <1>7

LEMMA LoopBreaks ==
  ASSUME NEW cells, NEW events, NEW txt, NEW want, NEW base, NEW entries,
         Stream(cells, events, txt, want, base), SizeFits(cells, events),
         Reading(cells, events, txt, want, base, entries), pc = "record",
         \/ offset >= size
         \/ buf # << >> /\ (buf[1] > 23 \/ (Len(buf) >= 3 /\ buf[3] \notin 1 .. 5)),
         size \in Nat, Break
  PROVE  Reading(cells, events, txt, want, base, entries)'
<1>1. PICK k \in 0 .. Len(events) :
         AtRecord(cells, events, k) /\ Len(entries) = base + EntAt(events, txt)[k]
  BY DEF Reading
<1>2. PICK n, r, b : n = Len(events) /\ r = RecAt(events) /\ b = buf
  OBVIOUS
<1>3. b = Drop(cells, r[k]) /\ offset = r[k]
  BY <1>1, <1>2 DEF AtRecord
<1>4. ASSUME Reaches(cells, events) PROVE k = n
  <2> SUFFICES ASSUME k # n PROVE FALSE
    OBVIOUS
  <2>1. PICK e : e = events[k + 1]
    OBVIOUS
  <2>2. /\ b \in Seq(Nat) /\ r[k] \in Nat /\ Len(b) >= 3
        /\ e.pcr \in 0 .. 23 /\ Len(e.digests) \in 1 .. 5
        /\ b[1] = e.pcr /\ b[3] = Len(e.digests)
    <3>1. /\ b \in Seq(Nat) /\ r[k] \in Nat /\ Len(b) >= 3
          /\ e.pcr \in 0 .. 23 /\ Len(e.digests) \in 1 .. 5
          /\ Len(b) >= 1 => b[1] = e.pcr
          /\ Len(b) >= 3 => b[3] = Len(e.digests)
      <4>1. Behind(cells, events, k, b)
        BY <1>2, <1>3, RecordFacts
      <4> QED BY <4>1, <1>2, <1>4, <2>1 DEF Behind
    <3>2. Len(b) >= 1
      BY <3>1
    <3> QED BY <3>1, <3>2
  <2>3. r[k] < size
    <3>1. n \in Nat
      BY <1>2 DEF Stream
    <3>2. k \in 0 .. n - 1
      BY <1>2, <3>1
    <3> QED BY <1>2, <1>4, <3>2 DEF SizeFits
  <2>4. ~ (offset >= size)
    BY <2>2, <2>3, <1>3
  <2>5. b[1] > 23 \/ b[3] \notin 1 .. 5
    BY <2>4, <1>2
  <2>6. b[1] \in 0 .. 23 /\ b[3] \in 1 .. 5
    BY <2>2
  <2>7. \A x \in 0 .. 23 : ~ (x > 23)
    OBVIOUS
  <2> QED BY <2>5, <2>6, <2>7
<1>5. Reaches(cells, events) => Len(entries) = Len(want)
  BY <1>1, <1>2, <1>4 DEF Stream
<1>6. pc' = "parsed" /\ logs' = logs
  BY DEF Break
<1>7. Tracks(logs, entries) /\ Follows(entries, want, Reaches(cells, events))
  BY DEF Reading
<1> QED BY <1>5, <1>6, <1>7 DEF Reading

LEMMA RecordRead ==
  ASSUME NEW cells, NEW events, NEW txt, NEW want, NEW base, NEW entries,
         Stream(cells, events, txt, want, base),
         Reading(cells, events, txt, want, base, entries), pc = "record",
         Len(buf) >= 3, buf[1] <= 23, buf[3] \in 1 .. 5,
         rec' = [pcr |-> buf[1], type |-> buf[2], count |-> buf[3], digests |-> << >>,
                 name |-> TypeName(buf[2], index501), tags |-> << >>],
         buf' = Drop(buf, 3), offset' = offset + 3, pc' = "digest", index501' = index501,
         logs' = logs
  PROVE  Reading(cells, events, txt, want, base, entries)'
<1>1. PICK k \in 0 .. Len(events) :
         AtRecord(cells, events, k) /\ Len(entries) = base + EntAt(events, txt)[k]
  BY DEF Reading
<1>2. PICK n, r, b : n = Len(events) /\ r = RecAt(events) /\ b = buf
  OBVIOUS
<1>3. b = Drop(cells, r[k]) /\ offset = r[k] /\ index501 = Count501(events, k)
  BY <1>1, <1>2 DEF AtRecord
<1>4. /\ b \in Seq(Nat) /\ r[k] \in Nat /\ Drop(b, 3) = Drop(cells, r[k] + 3)
      /\ k = n => b = << >> \/ Terminated(b)
      /\ k # n => b[1] = events[k + 1].pcr /\ b[2] = events[k + 1].type
                  /\ b[3] = Len(events[k + 1].digests)
  <2>1. /\ b \in Seq(Nat) /\ r[k] \in Nat /\ Drop(b, 3) = Drop(cells, r[k] + 3)
        /\ k = n => b = << >> \/ Terminated(b)
        /\ k # n => /\ Len(b) >= 1 => b[1] = events[k + 1].pcr
                    /\ Len(b) >= 3 => b[2] = events[k + 1].type
                                      /\ b[3] = Len(events[k + 1].digests)
    <3>1. Behind(cells, events, k, b)
      BY <1>2, <1>3, RecordFacts
    <3> QED BY <3>1, <1>2 DEF Behind
  <2>2. Len(b) >= 3 /\ Len(b) >= 1
    BY <1>2, <2>1
  <2> QED BY <2>1, <2>2
<1>5. k # n
  <2> SUFFICES ASSUME k = n PROVE FALSE
    OBVIOUS
  <2>1. Terminated(b)
    BY <1>2, <1>4
  <2>2. b[1] \in Nat /\ b[3] \in Nat
    BY <1>2, <1>4
  <2> QED BY <2>1, <2>2, <1>2 DEF Terminated
<1>6. PICK i \in 1 .. n : i = k + 1 /\ i - 1 = k
  <2>1. n \in Nat
    BY <1>2 DEF Stream
  <2> QED BY <2>1, <1>2, <1>5
<1>7. PICK e : e = events[i]
  OBVIOUS
<1>8. rec'.pcr = e.pcr /\ rec'.type = e.type /\ rec'.count = Len(e.digests) /\ rec'.digests = << >>
  BY <1>2, <1>4, <1>5, <1>6, <1>7
<1>9. rec'.name = NameOf(events, i, 0)
  <2>1. rec'.name = TypeName(events[i].type, Count501(events, k))
    BY <1>2, <1>3, <1>4, <1>5, <1>6
  <2>2. 0 + Count501(events, k) = Count501(events, k)
    <3>1. i \in Nat /\ i # 0
      <4>1. n \in Nat
        BY <1>2 DEF Stream
      <4> QED BY <4>1
    <3>2. Count501(events, i - 1) \in Nat
      BY <3>1, CountStep
    <3> QED BY <3>2, <1>6
  <2> QED BY <2>1, <2>2, <1>6 DEF NameOf
<1>10. DigAt(e)[0] = 0 /\ Len(e.digests) \in Nat
  BY <1>2, <1>6, <1>7, RecordSpelled DEF Stream
<1>11. Len(e.digests) >= 1
  <2>1. Len(e.digests) \in 1 .. 5
    BY <1>2, <1>4, <1>5, <1>6, <1>7
  <2>2. \A x \in 1 .. 5 : x >= 1
    OBVIOUS
  <2> QED BY <2>1, <2>2
<1>12. offset' = r[k] + (3 + DigAt(e)[0]) /\ buf' = Drop(cells, r[k] + (3 + DigAt(e)[0]))
  BY <1>2, <1>3, <1>4, <1>10
<1>13. AtDigest(cells, events, i, 0)'
  <2>1. HeaderRead(events, i)'
    <3>1. rec' = Header(events, i, << >>, << >>)
      <4>1. buf[1] = e.pcr /\ buf[2] = e.type /\ buf[3] = Len(e.digests)
        BY <1>2, <1>4, <1>5, <1>6, <1>7
      <4>2. TypeName(buf[2], index501) = NameOf(events, i, 0)
        BY <1>9
      <4> QED BY <4>1, <4>2, <1>7 DEF Header
    <3>2. rec'.digests = << >> /\ rec'.tags = << >>
      OBVIOUS
    <3> QED BY <3>1, <3>2, <1>2, <1>6 DEF HeaderRead
  <2>2. index501' = Count501(events, i - 1)
    BY <1>3, <1>6
  <2>3. 0 \in 0 .. Len(events[i].digests)
    BY <1>7, <1>10
  <2>4. rec'.digests \in Seq([bank : Nat, measurement : Seq(Nat)]) /\ Len(rec'.digests) = 0
    BY <1>8
  <2> QED BY <2>1, <2>2, <2>3, <2>4, <1>2, <1>6, <1>7, <1>12 DEF AtDigest
<1>14. 0 \in 0 .. Len(events[i].digests) - 1 /\ Len(entries) = base + EntAt(events, txt)[i - 1]
  BY <1>1, <1>6, <1>7, <1>10, <1>11
<1>15. Tracks(logs', entries) /\ Follows(entries, want, Reaches(cells, events))
  BY DEF Reading
<1> QED BY <1>2, <1>13, <1>14, <1>15 DEF Reading

LEMMA DigestRead ==
  ASSUME NEW cells, NEW events, NEW txt, NEW want, NEW base, NEW entries,
         Stream(cells, events, txt, want, base),
         Reading(cells, events, txt, want, base, entries), pc = "digest", buf # << >>,
         ReadDigest
  PROVE  Reading(cells, events, txt, want, base, entries)'
<1>0. PICK k \in 1 .. Len(events) : \E j \in 0 .. Len(events[k].digests) - 1 :
         AtDigest(cells, events, k, j) /\ Len(entries) = base + EntAt(events, txt)[k - 1]
  BY DEF Reading
<1>1. PICK j \in 0 .. Len(events[k].digests) - 1 :
         AtDigest(cells, events, k, j) /\ Len(entries) = base + EntAt(events, txt)[k - 1]
  BY <1>0
<1>2. PICK e, d, p, m, i : /\ e = events[k] /\ d = DigAt(e) /\ p = RecAt(events)[k - 1]
                           /\ m = Len(e.digests) /\ i = j + 1
  OBVIOUS
<1>3. /\ p \in Nat /\ m \in Nat /\ d \in [0 .. m -> Nat]
      /\ \A h \in 1 .. m :
           /\ e.digests[h].value \in Seq(Nat)
           /\ d[h] = d[h - 1] + (1 + Len(e.digests[h].value))
           /\ Spells(cells, p + (3 + d[h - 1]), e.digests[h].alg, e.digests[h].value)
  <2>1. events \in Seq(LoggedEvents) /\ cells \in Seq(Nat) /\ ReadsAs(cells, events)
    BY DEF Stream
  <2> QED BY <2>1, <1>2, RecordSpelled
<1>4. j \in 0 .. m /\ i \in 1 .. m /\ i - 1 = j /\ j \in Nat /\ j # m
  BY <1>2, <1>3
<1>a. PICK a : a = e.digests[i].alg
  OBVIOUS
<1>5. PICK y \in Nat, v \in Seq(Nat) :
         y = d[j] /\ v = e.digests[i].value /\ a = e.digests[i].alg
  BY <1>3, <1>4, <1>a
<1>6. PICK x \in Nat, l \in Nat : x = p + (3 + y) /\ l = Len(v)
  <2>1. p \in Nat
    BY <1>3
  <2>2. p + (3 + y) \in Nat /\ Len(v) \in Nat
    BY <2>1
  <2> QED BY <2>2
<1>7. Spells(cells, x, a, v) /\ d[i] = y + (1 + l) /\ p + (3 + d[i]) = x + (1 + l)
  <2>1. Spells(cells, x, a, v) /\ d[i] = y + (1 + l)
    BY <1>3, <1>4, <1>5, <1>6
  <2>2. p + (3 + (y + (1 + l))) = (p + (3 + y)) + (1 + l)
    BY <1>3
  <2> QED BY <2>1, <2>2, <1>6
<1>8. buf = Drop(cells, x) /\ offset = x /\ cells \in Seq(Nat)
  BY <1>1, <1>2, <1>5, <1>6 DEF AtDigest, Stream
<1>9. buf[1] = a /\ (x + (1 + l) <= Len(cells) => Take(Drop(buf, 1), l) = v)
  BY <1>6, <1>7, <1>8, ReadSpelled
<1>10. a \in DOMAIN DigestSize /\ DigestSize[a] = l /\ a \in Nat
  <2>1. events \in Seq(LoggedEvents) /\ KnownAlgorithms(events)
        /\ \A h \in DOMAIN events : WellFormed(events[h])
    BY DEF Stream
  <2>2. k \in DOMAIN events
    BY <2>1
  <2>3. e \in LoggedEvents /\ WellFormed(e)
    BY <2>1, <2>2, <1>2
  <2>4. e.digests \in Seq(LoggedDigests)
    BY <2>3 DEF LoggedEvents
  <2>5. i \in DOMAIN e.digests /\ e.digests[i] \in LoggedDigests
    BY <2>4, <1>2, <1>4
  <2>6. a \in DOMAIN DigestSize
    BY <2>1, <2>2, <2>5, <1>2, <1>5 DEF KnownAlgorithms
  <2>7. DigestSize[a] = l
    BY <2>3, <2>5, <2>6, <1>5, <1>6 DEF WellFormed
  <2>8. a \in Nat
    BY <2>5, <1>5 DEF LoggedDigests
  <2> QED BY <2>6, <2>7, <2>8
<1>11. PICK w : w = [bank |-> a, measurement |-> Take(Drop(buf, 1), l)]
  OBVIOUS
<1>12. /\ rec' = [rec EXCEPT !.digests = Append(@, w)]
       /\ buf' = Drop(buf, 1 + l) /\ offset' = (offset + 1) + l
       /\ pc' = IF Len(rec'.digests) = rec.count THEN "event" ELSE "digest"
       /\ index501' = index501 /\ logs' = logs
  <2>1. PICK n : n = IF buf[1] \in DOMAIN DigestSize THEN DigestSize[buf[1]] ELSE 0
    OBVIOUS
  <2>2. /\ rec' = [rec EXCEPT !.digests =
                     Append(@, [bank |-> IF buf[1] \in DOMAIN DigestSize THEN buf[1] ELSE 0,
                                measurement |-> Take(Drop(buf, 1), n)])]
        /\ buf' = Drop(buf, 1 + n) /\ offset' = (offset + 1) + n
        /\ pc' = IF Len(rec'.digests) = rec.count THEN "event" ELSE "digest"
        /\ index501' = index501 /\ logs' = logs
    BY <2>1 DEF ReadDigest
  <2>3. n = l /\ (IF buf[1] \in DOMAIN DigestSize THEN buf[1] ELSE 0) = a
    BY <2>1, <1>9, <1>10
  <2> QED BY <2>2, <2>3, <1>11
<1>13. PICK ds : ds = rec.digests /\ ds \in Seq([bank : Nat, measurement : Seq(Nat)]) /\ Len(ds) = j
  BY <1>1 DEF AtDigest
<1>14. w \in [bank : Nat, measurement : Seq(Nat)]
  <2>1. Take(Drop(buf, 1), l) \in Seq(Nat)
    <3>1. buf \in Seq(Nat)
      BY <1>8, DropProps
    <3>2. Drop(buf, 1) \in Seq(Nat)
      BY <3>1, DropProps
    <3> QED BY <3>2, TakeType
  <2> QED BY <2>1, <1>10, <1>11
<1>15. PICK more : more = Append(ds, w)
  OBVIOUS
<1>16. /\ more \in Seq([bank : Nat, measurement : Seq(Nat)]) /\ Len(more) = i
       /\ more[i] = w /\ \A h \in 1 .. j : more[h] = ds[h]
  BY <1>2, <1>13, <1>14, <1>15, AppendSeq
<1>17. rec = Header(events, k, ds, rec.tags) /\ k \in 1 .. Len(events)
  BY <1>1, <1>13 DEF AtDigest, HeaderRead
<1>18. rec' = Header(events, k, more, rec.tags) /\ rec.count = m
  <2>1. rec' = [rec EXCEPT !.digests = more]
    BY <1>12, <1>13, <1>15
  <2>2. PICK tags, a1, a2, a3, a4 :
          /\ tags = rec.tags /\ a1 = events[k].pcr /\ a2 = events[k].type
          /\ a3 = Len(events[k].digests) /\ a4 = NameOf(events, k, 0)
    OBVIOUS
  <2>3. rec = [pcr |-> a1, type |-> a2, count |-> a3, digests |-> ds, name |-> a4, tags |-> tags]
    BY <2>2, <1>17 DEF Header
  <2>4. rec' = [pcr |-> a1, type |-> a2, count |-> a3, digests |-> more, name |-> a4, tags |-> tags]
    BY <2>1, <2>3
  <2>5. rec.count = a3
    BY <2>3
  <2> QED BY <2>2, <2>4, <2>5, <1>2 DEF Header
<1>19. rec'.digests = more /\ rec'.tags = rec.tags
  BY <1>18 DEF Header
<1>20. offset' = p + (3 + d[i]) /\ buf' = Drop(cells, p + (3 + d[i]))
  <2>1. (x + 1) + l = x + (1 + l)
    OBVIOUS
  <2>2. Drop(Drop(cells, x), 1 + l) = Drop(cells, x + (1 + l))
    BY <1>8, DropDrop
  <2> QED BY <2>1, <2>2, <1>7, <1>8, <1>12
<1>21. ASSUME NEW h \in 1 .. i
       PROVE  /\ more[h].bank = e.digests[h].alg
              /\ p + (3 + d[h]) <= Len(cells) => more[h].measurement = e.digests[h].value
  <2>1. CASE h = i
    BY <2>1, <1>5, <1>6, <1>7, <1>9, <1>11, <1>16
  <2>2. CASE h # i
    <3>1. h \in 1 .. j
      BY <2>2, <1>2, <1>4
    <3>2. /\ ds[h].bank = e.digests[h].alg
          /\ p + (3 + d[h]) <= Len(cells) => ds[h].measurement = e.digests[h].value
      BY <3>1, <1>1, <1>2, <1>13 DEF AtDigest
    <3> QED BY <3>1, <3>2, <1>16
  <2> QED BY <2>1, <2>2
<1>22. AtDigest(cells, events, k, i)'
  <2>1. HeaderRead(events, k)'
    BY <1>17, <1>18, <1>19 DEF HeaderRead
  <2>2. index501' = Count501(events, k - 1)
    BY <1>1, <1>12 DEF AtDigest
  <2>3. i \in 0 .. Len(events[k].digests)
    BY <1>2, <1>3, <1>4
  <2>4. rec'.digests \in Seq([bank : Nat, measurement : Seq(Nat)]) /\ Len(rec'.digests) = i
    BY <1>16, <1>19
  <2> QED BY <2>1, <2>2, <2>3, <2>4, <1>2, <1>19, <1>20, <1>21 DEF AtDigest
<1>23. Tracks(logs', entries) /\ Follows(entries, want, Reaches(cells, events))
  BY <1>12 DEF Reading
<1>24. CASE i = m
  <2>1. pc' = "event"
    BY <1>12, <1>16, <1>18, <1>19, <1>24
  <2> QED BY <2>1, <1>1, <1>2, <1>22, <1>23, <1>24 DEF Reading
<1>25. CASE i # m
  <2>1. pc' = "digest"
    BY <1>12, <1>16, <1>18, <1>19, <1>25
  <2>2. i \in 0 .. m - 1
    BY <1>3, <1>4, <1>25
  <2> QED BY <2>1, <2>2, <1>1, <1>2, <1>22, <1>23 DEF Reading
<1> QED BY <1>24, <1>25

\* The positions of event k, and where the cells go if they go to the end.
LEMMA EventPositions ==
  ASSUME NEW cells, NEW events, NEW txt, NEW want, NEW base,
         Stream(cells, events, txt, want, base), NEW k \in 1 .. Len(events)
  PROVE  LET e == events[k]
             m == Len(e.digests)
             d == DigAt(e)
             p == RecAt(events)[k - 1]
         IN /\ cells \in Seq(Nat) /\ e \in LoggedEvents /\ WellFormed(e)
            /\ p \in Nat /\ m \in 1 .. 5 /\ d \in [0 .. m -> Nat]
            /\ \A h \in 0 .. m : d[h] <= d[m]
            /\ e.data \in Seq(Nat) /\ Spells(cells, p + (3 + d[m]), Len(e.data), e.data)
            /\ RecAt(events)[k] = (p + (3 + d[m])) + (1 + Len(e.data))
            /\ Reaches(cells, events) => RecAt(events)[k] <= Len(cells)
<1>1. events \in Seq(LoggedEvents) /\ cells \in Seq(Nat) /\ ReadsAs(cells, events)
      /\ \A i \in DOMAIN events : WellFormed(events[i])
  BY DEF Stream
<1>2. PICK e \in LoggedEvents : e = events[k] /\ WellFormed(e)
  BY <1>1
<1>3. PICK m, d, p : m = Len(e.digests) /\ d = DigAt(e) /\ p = RecAt(events)[k - 1]
  OBVIOUS
<1>4. /\ p \in Nat /\ d \in [0 .. m -> Nat] /\ e.data \in Seq(Nat)
      /\ Spells(cells, p + (3 + d[m]), Len(e.data), e.data)
      /\ RecAt(events)[k] = (p + (3 + d[m])) + (1 + Len(e.data))
  BY <1>1, <1>2, <1>3, RecordSpelled
<1>5. m \in 1 .. 5
  BY <1>2, <1>3 DEF WellFormed
<1>6. \A h \in 0 .. m : d[h] <= d[m]
  <2>1. \A h, i \in 0 .. m : h <= i => d[h] <= d[i]
    BY <1>2, <1>3, DigestLayout
  <2>2. m \in 0 .. m /\ \A h \in 0 .. m : h <= m
    BY <1>5
  <2> QED BY <2>1, <2>2
<1>7. ASSUME Reaches(cells, events) PROVE RecAt(events)[k] <= Len(cells)
  <2>r. PICK r : r = RecAt(events)
    OBVIOUS
  <2>1. PICK n \in Nat : n = Len(events) /\ r = RecAt(events)
    BY <1>1, <2>r
  <2>2. r \in [0 .. n -> Nat] /\ \A h, i \in 0 .. n : h <= i => r[h] <= r[i]
    BY <1>1, <2>1, RecordLayout
  <2>3. k \in 0 .. n /\ n \in 0 .. n /\ k <= n
    BY <2>1
  <2>4. PICK x, y, l \in Nat : x = r[k] /\ y = r[n] /\ l = Len(cells)
    BY <1>1, <2>2, <2>3
  <2>5. x <= y /\ y <= l
    BY <1>7, <2>1, <2>2, <2>3, <2>4 DEF Reaches
  <2>6. x <= l
    BY <2>5
  <2> QED BY <2>1, <2>4, <2>6
<1> QED BY <1>1, <1>2, <1>3, <1>4, <1>5, <1>6, <1>7

LEMMA ReadFailsShort ==
  ASSUME NEW cells, NEW events, NEW txt, NEW want, NEW base, NEW entries,
         Stream(cells, events, txt, want, base),
         Reading(cells, events, txt, want, base, entries), pc \in {"digest", "event"}, buf = << >>
  PROVE  ~ Reaches(cells, events)
<1> SUFFICES ASSUME Reaches(cells, events) PROVE FALSE
  OBVIOUS
<1>1. PICK k \in 1 .. Len(events) : \E j : AtDigest(cells, events, k, j)
  BY DEF Reading
<1>2. PICK j : AtDigest(cells, events, k, j)
  BY <1>1
<1>3. PICK e, m, d, p : /\ e = events[k] /\ m = Len(e.digests) /\ d = DigAt(e)
                        /\ p = RecAt(events)[k - 1]
  OBVIOUS
<1>4. /\ cells \in Seq(Nat) /\ p \in Nat /\ m \in 1 .. 5 /\ d \in [0 .. m -> Nat]
      /\ \A h \in 0 .. m : d[h] <= d[m]
      /\ e.data \in Seq(Nat) /\ RecAt(events)[k] = (p + (3 + d[m])) + (1 + Len(e.data))
      /\ RecAt(events)[k] <= Len(cells)
  BY <1>3, EventPositions
<1>5. j \in 0 .. m /\ buf = Drop(cells, p + (3 + d[j]))
  BY <1>2, <1>3 DEF AtDigest
<1>6. PICK x, y, l, c \in Nat : x = d[j] /\ y = d[m] /\ l = Len(e.data) /\ c = Len(cells)
  <2>1. m \in 0 .. m
    BY <1>4
  <2>2. d[j] \in Nat /\ d[m] \in Nat
    BY <2>1, <1>4, <1>5
  <2>3. PICK data \in Seq(Nat) : data = e.data
    BY <1>4
  <2>4. Len(e.data) \in Nat
    BY ONLY <2>3
  <2>5. Len(cells) \in Nat
    BY ONLY <1>4
  <2> QED BY ONLY <2>2, <2>4, <2>5
<1>7. x <= y /\ (p + (3 + y)) + (1 + l) <= c
  BY <1>4, <1>5, <1>6
<1>8. p + (3 + x) < c /\ p + (3 + x) \in Nat
  <2>1. p \in Nat
    BY <1>4
  <2> QED BY <2>1, <1>7
<1>9. Len(Drop(cells, p + (3 + x))) = Len(cells) - (p + (3 + x))
  <2>1. p + (3 + x) <= Len(cells)
    BY <1>6, <1>8
  <2> QED BY <2>1, <1>4, <1>8, DropProps
<1>10. Len(buf) > 0
  <2>1. Len(buf) = c - (p + (3 + x))
    BY <1>5, <1>6, <1>9
  <2>2. p \in Nat
    BY <1>4
  <2>3. c - (p + (3 + x)) > 0
    BY <1>8, <2>2
  <2> QED BY <2>1, <2>3
<1> QED BY <1>10

\* A name is never what marks a panic.
LEMMA NameNoPanic ==
  ASSUME NEW events, NEW k \in Nat, k # 0
  PROVE  <<<<NameOf(events, k, 0)>>>> # Panics
<1>1. PICK x, i : x = NameOf(events, k, 0) /\ i = Count501(events, k - 1)
  OBVIOUS
<1>2. i \in Nat /\ x = TypeName(events[k].type, i)
  <2>1. i \in Nat /\ x = TypeName(events[k].type, 0 + i)
    BY <1>1, CountStep DEF NameOf
  <2>2. 0 + i = i
    BY <2>1
  <2> QED BY <2>1, <2>2
<1>3. x \in 0 .. 6
  <2>1. \A type : TypeName(type, i) \in 0 .. 6 \/ (i < 5 /\ TypeName(type, i) = Names501[i + 1])
    BY DEF TypeName, ListedName, NoName, Names501
  <2>2. i < 5 => Names501[i + 1] \in 0 .. 6
    <3>1. i < 5 => i \in {0, 1, 2, 3, 4}
      BY <1>2
    <3> QED BY <3>1 DEF Names501, TBPolicy, VMLinuz, Initrd, AssetTag
  <2> QED BY <2>1, <2>2, <1>2
<1>4. x # -1
  BY <1>3
<1>5. <<<<x>>>> # <<<<-1>>>>
  BY <1>4
<1> QED BY <1>1, <1>5 DEF Panics

\* The size of the event and, if the log goes on to its end, the data.
Finds(cells, events, k) ==
  /\ AtDigest(cells, events, k, Len(events[k].digests))
  /\ events[k].data \in Seq(Nat) /\ buf[1] = Len(events[k].data)
  /\ Reaches(cells, events) => Take(Drop(buf, 1), buf[1]) = events[k].data
  /\ \A h \in 1 .. Len(events[k].digests) :
       rec.digests[h].measurement = events[k].digests[h].value
  /\ Drop(buf, 1 + buf[1]) = Drop(cells, RecAt(events)[k])
  /\ (offset + 1) + buf[1] = RecAt(events)[k]

LEMMA EventFound ==
  ASSUME NEW cells, NEW events, NEW txt, NEW want, NEW base,
         Stream(cells, events, txt, want, base), NEW k \in 1 .. Len(events),
         AtDigest(cells, events, k, Len(events[k].digests)), buf # << >>
  PROVE  Finds(cells, events, k)
<1>1. PICK e, m, d, p : /\ e = events[k] /\ m = Len(e.digests) /\ d = DigAt(e)
                        /\ p = RecAt(events)[k - 1]
  OBVIOUS
<1>2. /\ cells \in Seq(Nat) /\ p \in Nat /\ m \in 1 .. 5 /\ d \in [0 .. m -> Nat]
      /\ \A h \in 0 .. m : d[h] <= d[m]
      /\ e.data \in Seq(Nat) /\ Spells(cells, p + (3 + d[m]), Len(e.data), e.data)
      /\ RecAt(events)[k] = (p + (3 + d[m])) + (1 + Len(e.data))
      /\ Reaches(cells, events) => RecAt(events)[k] <= Len(cells)
  BY <1>1, EventPositions
<1>3. PICK y, l, c \in Nat : y = d[m] /\ l = Len(e.data) /\ c = Len(cells)
  <2>1. m \in 0 .. m
    BY <1>2
  <2> QED BY <2>1, <1>2
<1>4. PICK x \in Nat : x = p + (3 + y)
  BY <1>2
<1>5. buf = Drop(cells, x) /\ offset = x
  BY <1>1, <1>3, <1>4 DEF AtDigest
<1>6. Spells(cells, x, l, e.data) /\ RecAt(events)[k] = x + (1 + l)
  BY <1>2, <1>3, <1>4
<1>7. buf[1] = l /\ (x + (1 + l) <= Len(cells) => Take(Drop(buf, 1), l) = e.data)
  BY <1>2, <1>3, <1>5, <1>6, ReadSpelled
<1>8. Drop(buf, 1 + l) = Drop(cells, x + (1 + l)) /\ (offset + 1) + l = x + (1 + l)
  <2>1. 1 + l \in Nat
    OBVIOUS
  <2>2. Drop(Drop(cells, x), 1 + l) = Drop(cells, x + (1 + l))
    BY <2>1, <1>2, DropDrop
  <2> QED BY <2>2, <1>5
<1>9. x < c
  BY <1>2, <1>3, <1>5, DropProps
<1>10. ASSUME NEW h \in 1 .. m PROVE rec.digests[h].measurement = e.digests[h].value
  <2>1. h \in 0 .. m
    BY <1>2
  <2>2. PICK z \in Nat : z = d[h]
    BY <2>1, <1>2
  <2>3. z <= y
    BY <2>1, <2>2, <1>2, <1>3
  <2>4. p + (3 + z) <= c
    BY <2>3, <1>2, <1>4, <1>9
  <2>5. RecAt(events)[k - 1] + (3 + DigAt(events[k])[h]) <= Len(cells)
    BY <2>2, <2>4, <1>1, <1>3
  <2> QED BY <2>5, <1>1 DEF AtDigest
<1> QED BY <1>1, <1>2, <1>3, <1>6, <1>7, <1>8, <1>10 DEF Finds

\* A tag is never what marks a panic.
LEMMA TagNoPanic ==
  ASSUME NEW s \in Seq(Nat)
  PROVE  <<s>> # Panics /\ << >> # Panics
<1>1. s # <<-1>>
  <2> SUFFICES ASSUME s = <<-1>> PROVE FALSE
    OBVIOUS
  <2>1. s[1] = -1 /\ 1 \in 1 .. Len(s)
    OBVIOUS
  <2>2. s[1] \in Nat
    BY <2>1
  <2> QED BY <2>1, <2>2
<1> QED BY <1>1 DEF Panics

\* Where TextTag and NoActionTag find the first NUL.
NulAt(data) == SelectInSeq(data, LAMBDA c : c = Nul)

LEMMA FirstNul ==
  ASSUME NEW data \in Seq(Nat), NEW n \in Nat, n = Len(data)
  PROVE  \/ NulAt(data) = 0
         \/ /\ NulAt(data) \in 1 .. n /\ data[NulAt(data)] = Nul
            /\ \A i \in 1 .. n : data[i] = Nul => NulAt(data) <= i
<1> DEFINE I == {k \in 1 .. n : data[k] = Nul}
           i == NulAt(data)
<1>1. i = IF I # {} THEN Min(I) ELSE 0
  BY DEF NulAt, SelectInSeq
<1>2. CASE I = {}
  BY <1>1, <1>2
<1>3. CASE I # {}
  <2>1. \E x \in I : \A y \in I : x <= y
    <3>1. I \in SUBSET Nat
      OBVIOUS
    <3> HIDE DEF I
    <3> QED BY <3>1, <1>3, LeastNatural
  <2>2. Min(I) \in I /\ \A y \in I : Min(I) <= y
    <3> HIDE DEF I
    <3> QED BY <2>1 DEF Min
  <2>3. i \in I /\ \A y \in I : i <= y
    BY <1>1, <1>3, <2>2
  <2> QED BY <2>3
<1> QED BY <1>2, <1>3

LEMMA VariablePanics ==
  ASSUME NEW data \in Seq(Nat), NEW size0, VariableTag(data, size0) = Panics
  PROVE  Len(data) >= 3 /\ Len(data) < 3 + 2 * data[2]
<1>1. << >> # Panics
  BY DEF Panics
<1>2. Len(data) >= 3
  BY <1>1 DEF VariableTag
<1>3. PICK l \in Nat, n \in Nat : l = Len(data) /\ n = data[2]
  <2>1. 2 \in 1 .. Len(data)
    BY <1>2
  <2> QED BY <2>1
<1>4. PICK rest : rest = Drop(data, 3)
  OBVIOUS
<1>5. rest \in Seq(Nat) /\ Len(rest) = l - 3
  <2>1. 3 \in Nat /\ 3 <= Len(data)
    BY <1>2, <1>3
  <2>2. Drop(data, 3) \in Seq(Nat)
    BY <2>1, DropProps
  <2>3. Len(Drop(data, 3)) = Len(data) - 3
    BY <2>1, DropProps
  <2> QED BY <2>2, <2>3, <1>3, <1>4
<1>6. PICK name : name = Take(rest, 2 * n)
  OBVIOUS
<1>7. name \in Seq(Nat) /\ Len(name) = IF 2 * n < l - 3 THEN 2 * n ELSE l - 3
  <2>1. 2 * n \in Nat
    OBVIOUS
  <2>2. name \in Seq(Nat)
    BY <2>1, <1>5, <1>6, TakeType
  <2>3. Len(name) = IF 2 * n < l - 3 THEN 2 * n ELSE l - 3
    <3>1. PICK m \in Nat : m = 2 * n
      BY <2>1
    <3>2. PICK k \in Nat : k = Len(rest) /\ k = l - 3
      BY <1>5
    <3>3. Len(Take(rest, m)) = IF m < k THEN m ELSE k
      BY <3>1, <3>2, <1>5 DEF Take
    <3> QED BY <3>1, <3>2, <3>3, <1>6
  <2> QED BY <2>2, <2>3
<1>8. \/ Len(name) < 2 * n - 1
      \/ Len(name) >= 2 * n - 1 /\ <<[i \in 1 .. n |-> name[2 * i - 1]]>> = Panics
  <2>1. Panics = IF Len(name) < 2 * n - 1 THEN Panics
                 ELSE <<[i \in 1 .. n |-> name[2 * i - 1]]>>
    BY <1>1, <1>3, <1>4, <1>6 DEF VariableTag
  <2>2. Len(name) < 2 * n - 1 \/ Len(name) >= 2 * n - 1
    BY <1>3, <1>7
  <2> QED BY <2>1, <2>2
<1>9. CASE Len(name) < 2 * n - 1
  BY <1>2, <1>3, <1>7, <1>9
<1>10. CASE Len(name) >= 2 * n - 1 /\ <<[i \in 1 .. n |-> name[2 * i - 1]]>> = Panics
  <2>1. PICK f : f = [i \in 1 .. n |-> name[2 * i - 1]]
    OBVIOUS
  <2>2. ASSUME NEW i \in 1 .. n PROVE name[2 * i - 1] \in Nat
    <3>1. PICK k \in Nat : k = Len(name)
      BY <1>7
    <3>2. 2 * i - 1 \in 1 .. k
      BY <3>1, <1>10
    <3> QED BY <3>1, <3>2, <1>7
  <2>3. f \in [1 .. n -> Nat]
    BY <2>1, <2>2
  <2>4. f \in Seq(Nat)
    BY <2>3, SeqDef
  <2> QED BY <2>1, <2>4, <1>10, TagNoPanic
<1> QED BY <1>8, <1>9, <1>10

LEMMA BlobNoPanic ==
  ASSUME NEW data \in Seq(Nat)
  PROVE  BlobTag(data) # Panics
<1>1. CASE data = << >>
  BY <1>1 DEF BlobTag, Panics
<1>2. CASE data # << >>
  <2>1. PICK n \in Nat : n = data[1]
    BY <1>2
  <2>2. Drop(data, 1) \in Seq(Nat)
    BY DropProps
  <2>3. Take(Drop(data, 1), n) \in Seq(Nat)
    BY <2>2, TakeType
  <2> QED BY <2>1, <2>3, <1>2, TagNoPanic DEF BlobTag
<1> QED BY <1>1, <1>2

LEMMA TextNoPanic ==
  ASSUME NEW data \in Seq(Nat)
  PROVE  TextTag(data) # Panics
<1>1. PICK nul, n : nul = NulAt(data) /\ n = Len(data) /\ n \in Nat
  OBVIOUS
<1>2. TextTag(data) = IF nul = 0 THEN <<data>>
                      ELSE IF nul = 1 THEN << >> ELSE <<Take(data, nul - 1)>>
  BY <1>1 DEF TextTag, NulAt
<1>3. nul = 0 \/ nul \in 1 .. n
  BY <1>1, FirstNul
<1>4. CASE nul = 0
  BY <1>2, <1>4, TagNoPanic
<1>5. CASE nul = 1
  BY <1>2, <1>5, TagNoPanic
<1>6. CASE nul # 0 /\ nul # 1
  <2>1. nul - 1 \in Nat
    BY <1>3, <1>6
  <2>2. Take(data, nul - 1) \in Seq(Nat)
    BY <2>1, TakeType
  <2> QED BY <2>2, <1>2, <1>6, TagNoPanic
<1> QED BY <1>4, <1>5, <1>6

LEMMA NoActionPanics ==
  ASSUME NEW data \in Seq(Nat), NoActionTag(data) = Panics
  PROVE  Len(data) > 1 /\ {i \in DOMAIN data : data[i] = Nul} = {Len(data)}
<1>1. PICK n \in Nat : n = Len(data) /\ DOMAIN data = 1 .. n
  OBVIOUS
<1>2. PICK nul : nul = NulAt(data)
  OBVIOUS
<1>3. NoActionTag(data) = IF nul = 0 THEN <<data>> ELSE IF nul = 1 THEN << >>
                          ELSE IF nul = Len(data) THEN Panics
                          ELSE <<Append(Take(data, nul - 1), Char(data[nul + 1]))>>
  BY <1>2 DEF NoActionTag, NulAt
<1>4. \/ nul = 0
      \/ /\ nul \in 1 .. n /\ data[nul] = Nul
         /\ \A i \in 1 .. n : data[i] = Nul => nul <= i
  BY <1>1, <1>2, FirstNul
<1>5. nul # 0 /\ nul # 1
  BY <1>3, TagNoPanic
<1>6. CASE nul = n
  <2>1. n > 1 /\ n \in 1 .. n
    BY <1>4, <1>5, <1>6
  <2>2. \A i \in 1 .. n : data[i] = Nul => i = n
    BY <1>4, <1>5, <1>6
  <2> QED BY <2>1, <2>2, <1>1, <1>4, <1>5, <1>6
<1>7. CASE nul # n
  <2>1. nul - 1 \in Nat /\ nul + 1 \in 1 .. n
    BY <1>4, <1>5, <1>7
  <2>2. PICK m \in Nat : m = data[nul + 1]
    BY <2>1, <1>1
  <2>3. Char(data[nul + 1]) \in Nat
    BY <2>2 DEF Char
  <2>4. Take(data, nul - 1) \in Seq(Nat)
    BY <2>1, TakeType
  <2>5. Append(Take(data, nul - 1), Char(data[nul + 1])) \in Seq(Nat)
    BY <2>3, <2>4
  <2> QED BY <2>5, <1>1, <1>3, <1>5, <1>7, TagNoPanic
<1> QED BY <1>6, <1>7

LEMMA PfrPanics ==
  ASSUME NEW data \in Seq(Nat), NEW size0, NEW pcr, PfrTag(data, size0, pcr) = Panics
  PROVE  /\ Len(data) >= 7 /\ data[7] # 0
         /\ \E letters \in {PFR, pfr} :
              IsStrictPrefix(Take(Drop(data, 7 + data[6]), data[7]), letters)
<1>1. << >> # Panics
  BY DEF Panics
<1>2. Len(data) >= 7 /\ data[7] # 0
  BY <1>1 DEF PfrTag
<1>3. PICK string : string = Take(Drop(data, 7 + data[6]), data[7])
  OBVIOUS
<1>4. Panics = IF IsStrictPrefix(string, PFR) \/ IsStrictPrefix(string, pfr) THEN Panics
               ELSE IF IsPrefix(PFR, string) \/ IsPrefix(pfr, string) THEN <<string>>
               ELSE << >>
  BY <1>1, <1>3 DEF PfrTag
<1>5. string \in Seq(Nat)
  <2>1. PICK x \in Nat, y \in Nat : x = data[6] /\ y = data[7]
    BY <1>2
  <2>2. 7 + x \in Nat
    OBVIOUS
  <2>3. Drop(data, 7 + x) \in Seq(Nat)
    BY <2>2, DropProps
  <2>4. Take(Drop(data, 7 + x), y) \in Seq(Nat)
    BY <2>3, TakeType
  <2> QED BY <2>1, <2>4, <1>3
<1>6. <<string>> # Panics
  BY <1>5, TagNoPanic
<1>7. IsStrictPrefix(string, PFR) \/ IsStrictPrefix(string, pfr)
  BY <1>1, <1>4, <1>6
<1> QED BY <1>2, <1>3, <1>7

\* getEventTag panics on complete data of three kinds only.
LEMMA TagPanics ==
  ASSUME NEW e \in LoggedEvents, EventTag(e.type, e.data, Len(e.data), e.pcr) = Panics
  PROVE  Unreadable(e)
<1>1. PICK data \in Seq(Nat) : data = e.data
  BY DEF LoggedEvents
<1>2. << >> # Panics
  BY DEF Panics
<1>3. CASE e.type \in VariableTypes
  <2>1. VariableTag(data, Len(data)) = Panics
    BY <1>1, <1>3 DEF EventTag
  <2>2. Len(data) >= 3 /\ Len(data) < 3 + 2 * data[2]
    BY <2>1, VariablePanics
  <2> QED BY <2>2, <1>1, <1>3 DEF Unreadable
<1>4. CASE e.type \notin VariableTypes
  <2>1. e.type \notin BlobTypes
    BY <1>1, <1>4, BlobNoPanic DEF EventTag
  <2>2. ~ (e.type \in TextTypes \/ (e.type = CompactHash /\ e.pcr = 6))
    BY <2>1, <1>1, <1>4, TextNoPanic DEF EventTag
  <2>3. CASE e.type = NoAction
    <3>1. NoActionTag(data) = Panics
      BY <2>1, <2>2, <2>3, <1>1, <1>4 DEF EventTag
    <3>2. Len(data) > 1 /\ {i \in DOMAIN data : data[i] = Nul} = {Len(data)}
      BY <3>1, NoActionPanics
    <3> QED BY <3>2, <2>3, <1>1 DEF Unreadable
  <2>4. CASE e.type # NoAction
    <3>1. e.type \in PfrTypes /\ PfrTag(data, Len(data), e.pcr) = Panics
      BY <2>1, <2>2, <2>4, <1>1, <1>2, <1>4 DEF EventTag
    <3>2. /\ Len(data) >= 7 /\ data[7] # 0
          /\ \E letters \in {PFR, pfr} :
               IsStrictPrefix(Take(Drop(data, 7 + data[6]), data[7]), letters)
      BY <3>1, PfrPanics
    <3> QED BY <3>1, <3>2, <1>1 DEF Unreadable
  <2> QED BY <2>3, <2>4
<1> QED BY <1>3, <1>4

\* What getEventTag makes of an event of a whole log.
LEMMA EventTagged ==
  ASSUME NEW cells, NEW events, NEW txt \in BOOLEAN, NEW want, NEW base,
         Stream(cells, events, txt, want, base), NEW k \in 1 .. Len(events),
         Finds(cells, events, k), Reaches(cells, events), TxtEnabled = txt,
         NEW tags, tags = Tags(Take(Drop(buf, 1), buf[1]), buf[1])
  PROVE  /\ tags = Panics => ~ txt /\ Unreadable(events[k])
         /\ tags # Panics =>
              \A j : EntryOf(events, k, j, txt).event.tags
                    = [i \in DOMAIN tags |->
                         IF TxtEnabled THEN tags[i] ELSE removeUnicode(tags[i])]
<1>1. PICK e : e = events[k]
  OBVIOUS
<1>2. Take(Drop(buf, 1), buf[1]) = e.data /\ buf[1] = Len(e.data)
  BY <1>1 DEF Finds
<1>3. rec.type = e.type /\ rec.pcr = e.pcr /\ rec.name = NameOf(events, k, 0)
  <2>1. rec = Header(events, k, rec.digests, rec.tags)
    BY DEF Finds, AtDigest, HeaderRead
  <2>2. PICK ds, ts : rec = Header(events, k, ds, ts)
    BY <2>1
  <2> QED BY <2>2, <1>1 DEF Header
<1>4. CASE txt
  <2>1. tags = IF NameOf(events, k, 0) # NoName THEN <<<<NameOf(events, k, 0)>>>> ELSE << >>
    BY <1>3, <1>4 DEF Tags
  <2>2. <<<<NameOf(events, k, 0)>>>> # Panics
    <3>1. k \in Nat /\ k # 0
      BY DEF Stream
    <3> QED BY <3>1, NameNoPanic
  <2>3. << >> # Panics
    BY DEF Panics
  <2>4. \A j : EntryOf(events, k, j, txt).event.tags = tags
    BY <2>1, <1>4 DEF EntryOf
  <2>5. [i \in DOMAIN tags |-> IF TxtEnabled THEN tags[i] ELSE removeUnicode(tags[i])] = tags
    <3>1. [i \in DOMAIN tags |-> IF TxtEnabled THEN tags[i] ELSE removeUnicode(tags[i])]
          = [i \in DOMAIN tags |-> tags[i]]
      BY <1>4
    <3>2. PICK x : x = NameOf(events, k, 0)
      OBVIOUS
    <3>3. tags = << >> \/ tags = <<<<x>>>>
      BY <2>1, <3>2
    <3>4. [i \in DOMAIN tags |-> tags[i]] = tags
      BY <3>3
    <3> QED BY <3>1, <3>4
  <2> QED BY <2>1, <2>2, <2>3, <2>4, <2>5
<1>5. CASE ~ txt
  <2>1. tags = EventTag(e.type, e.data, Len(e.data), e.pcr)
    BY <1>2, <1>3, <1>5 DEF Tags
  <2>2. WellFormed(e) /\ e \in LoggedEvents
    BY <1>1, EventPositions
  <2>3. tags # Panics => e.tags = [i \in DOMAIN tags |-> removeUnicode(tags[i])]
    BY <2>1, <2>2 DEF WellFormed
  <2>5. tags = Panics => Unreadable(e)
    BY <2>1, <2>2, TagPanics
  <2>4. \A j : EntryOf(events, k, j, txt).event.tags = e.tags
    BY <1>1, <1>5 DEF EntryOf
  <2> QED BY <2>3, <2>4, <2>5, <1>1, <1>5
<1> QED BY <1>4, <1>5

\* The loop goes on to the events of a record.
LEMMA EventRead ==
  ASSUME NEW cells, NEW events, NEW txt, NEW want, NEW base, NEW entries,
         Stream(cells, events, txt, want, base),
         Reading(cells, events, txt, want, base, entries), pc = "event", buf # << >>,
         TxtEnabled = txt, NEW tags, tags = Tags(Take(Drop(buf, 1), buf[1]), buf[1]),
         tags # Panics,
         rec' = [rec EXCEPT !.tags =
                   [i \in DOMAIN tags |->
                      IF TxtEnabled THEN tags[i] ELSE removeUnicode(tags[i])]],
         buf' = Drop(buf, 1 + buf[1]), offset' = (offset + 1) + buf[1],
         index501' = IF rec.type = Event501 THEN index501 + 1 ELSE index501,
         pc' = "publish", logs' = logs
  PROVE  Reading(cells, events, txt, want, base, entries)'
<1>1. PICK k \in 1 .. Len(events) :
         /\ AtDigest(cells, events, k, Len(events[k].digests))
         /\ Len(entries) = base + EntAt(events, txt)[k - 1]
  BY DEF Reading
<1>2. Finds(cells, events, k)
  BY <1>1, EventFound
<1>3. PICK e, m, ds, ts, more :
         /\ e = events[k] /\ m = Len(e.digests) /\ ds = rec.digests /\ ts = rec.tags
         /\ more = [i \in DOMAIN tags |->
                      IF TxtEnabled THEN tags[i] ELSE removeUnicode(tags[i])]
  OBVIOUS
<1>4. m \in 1 .. 5 /\ k \in Nat /\ k # 0 /\ txt \in BOOLEAN /\ base \in Nat
  <2>1. m \in 1 .. 5
    BY <1>3, EventPositions
  <2> QED BY <2>1 DEF Stream
<1>5. rec = Header(events, k, ds, ts) /\ index501 = Count501(events, k - 1)
      /\ ds \in Seq([bank : Nat, measurement : Seq(Nat)]) /\ Len(ds) = m
      /\ \A h \in 1 .. m : ds[h].bank = e.digests[h].alg
  BY <1>1, <1>3 DEF AtDigest, HeaderRead
<1>6. rec' = Header(events, k, ds, more) /\ rec.type = e.type
  <2>1. PICK a1, a2, a3, a4 :
          /\ a1 = events[k].pcr /\ a2 = events[k].type
          /\ a3 = Len(events[k].digests) /\ a4 = NameOf(events, k, 0)
    OBVIOUS
  <2>2. rec = [pcr |-> a1, type |-> a2, count |-> a3, digests |-> ds, name |-> a4, tags |-> ts]
    BY <2>1, <1>5 DEF Header
  <2>3. rec' = [rec EXCEPT !.tags = more]
    BY <1>3
  <2>4. rec' = [pcr |-> a1, type |-> a2, count |-> a3, digests |-> ds, name |-> a4, tags |-> more]
    BY <2>2, <2>3
  <2>5. rec.type = a2
    BY <2>2
  <2> QED BY <2>1, <2>4, <2>5, <1>3 DEF Header
<1>7. rec'.digests = ds /\ rec'.tags = more
  BY <1>6 DEF Header
<1>8. HeaderRead(events, k)'
  BY <1>6, <1>7 DEF HeaderRead
<1>9. AtRecord(cells, events, k)'
  <2>1. offset' = RecAt(events)[k] /\ buf' = Drop(cells, RecAt(events)[k])
    BY <1>2 DEF Finds
  <2>2. index501' = Count501(events, k)
    BY <1>3, <1>4, <1>5, <1>6, CountStep
  <2>3. k \in 0 .. Len(events)
    BY <1>4
  <2> QED BY <2>1, <2>2, <2>3 DEF AtRecord
<1>10. \A h \in 1 .. m : ds[h].measurement = e.digests[h].value
  BY <1>2, <1>3 DEF Finds
<1>11. Reaches(cells, events) => more = EntryOf(events, k, 0 + 1, txt).event.tags
  BY <1>2, <1>3, <1>4, EventTagged
<1>12. AtPublish(cells, events, txt, k, 0)'
  <2>1. 0 \in 0 .. m - 1 /\ m - 0 = m /\ \A h \in 1 .. m : 0 + h = h
    BY <1>4
  <2> QED BY <2>1, <1>3, <1>5, <1>7, <1>8, <1>9, <1>10, <1>11 DEF AtPublish
<1>13. 0 \in 0 .. Len(events[k].digests) - 1
       /\ Len(entries) = base + (EntAt(events, txt)[k - 1] + 0)
  <2>1. events \in Seq(LoggedEvents)
    BY DEF Stream
  <2>2. EntAt(events, txt) \in [0 .. Len(events) -> Nat]
    BY <2>1, <1>4, EntriesLayout
  <2>3. k - 1 \in 0 .. Len(events)
    BY <2>1, <1>4
  <2>4. EntAt(events, txt)[k - 1] \in Nat
    BY <2>2, <2>3
  <2>5. PICK y \in Nat : y = EntAt(events, txt)[k - 1] /\ y + 0 = y
    BY <2>4
  <2>6. 0 \in 0 .. m - 1
    BY <1>4
  <2> QED BY <2>5, <2>6, <1>1, <1>3
<1>14. Tracks(logs', entries) /\ Follows(entries, want, Reaches(cells, events))
  BY DEF Reading
<1> QED BY <1>12, <1>13, <1>14 DEF Reading

\* One more event is published.
LEMMA EventPublished ==
  ASSUME NEW cells, NEW events, NEW txt, NEW want, NEW base, NEW entries,
         Stream(cells, events, txt, want, base),
         Reading(cells, events, txt, want, base, entries), PublishEvent
  PROVE  \E more : Reading(cells, events, txt, want, base, more)'
<1>0. PICK k \in 1 .. Len(events) : \E j \in 0 .. Len(events[k].digests) - 1 :
         /\ AtPublish(cells, events, txt, k, j)
         /\ Len(entries) = base + (EntAt(events, txt)[k - 1] + j)
  BY DEF Reading, PublishEvent
<1>1. PICK j \in 0 .. Len(events[k].digests) - 1 :
         /\ AtPublish(cells, events, txt, k, j)
         /\ Len(entries) = base + (EntAt(events, txt)[k - 1] + j)
  BY <1>0
<1>2. PICK e, m, ds, ts, d, c :
         /\ e = events[k] /\ m = Len(e.digests) /\ ds = rec.digests /\ ts = rec.tags
         /\ d = ds[1] /\ c = EntAt(events, txt)
  OBVIOUS
<1>3. /\ events \in Seq(LoggedEvents) /\ txt \in BOOLEAN /\ base \in Nat
      /\ \E S : want \in Seq(S)
      /\ Len(want) = base + c[Len(events)]
      /\ \A h \in 1 .. m : want[base + (c[k - 1] + h)] = EntryOf(events, k, h, txt)
  BY <1>2 DEF Stream
<1>4. m \in 1 .. 5 /\ j \in 0 .. m - 1 /\ j \in Nat
  <2>1. m \in 1 .. 5
    BY <1>2, EventPositions
  <2> QED BY <2>1, <1>2
<1>5. PICK n \in Nat : n = Len(events)
  BY <1>3
<1>6. PICK a \in Nat : a = c[k - 1] /\ c[k] = a + m /\ c[k] <= c[n] /\ c[n] \in Nat /\ c[k] \in Nat
  <2>1. /\ c \in [0 .. n -> Nat] /\ c[k] = c[k - 1] + Len(events[k].digests)
        /\ \A i, h \in 0 .. n : i <= h => c[i] <= c[h]
    BY <1>2, <1>3, <1>5, EntriesLayout
  <2>2. k - 1 \in 0 .. n /\ k \in 0 .. n /\ n \in 0 .. n /\ k <= n
    BY <1>5
  <2> QED BY <2>1, <2>2, <1>2
<1>7. /\ rec = Header(events, k, ds, ts) /\ AtRecord(cells, events, k)
      /\ ds \in Seq([bank : Nat, measurement : Seq(Nat)]) /\ Len(ds) = m - j
      /\ \A h \in 1 .. m - j : /\ ds[h].bank = e.digests[j + h].alg
                               /\ ds[h].measurement = e.digests[j + h].value
      /\ Reaches(cells, events) => ts = EntryOf(events, k, j + 1, txt).event.tags
  BY <1>1, <1>2 DEF AtPublish, HeaderRead
<1>8. 1 \in 1 .. m - j /\ d.bank = e.digests[j + 1].alg /\ d.measurement = e.digests[j + 1].value
      /\ d.bank \in Nat /\ Head(ds) = d
  <2>1. 1 \in 1 .. m - j /\ m - j # 0
    BY <1>4
  <2>2. d.bank = e.digests[j + 1].alg /\ d.measurement = e.digests[j + 1].value
    BY <2>1, <1>2, <1>7
  <2>3. ds # << >>
    BY <2>1, <1>7
  <2>4. Head(ds) = d /\ d \in [bank : Nat, measurement : Seq(Nat)]
    BY <2>3, <1>2, <1>7, HeadSeq
  <2>5. d.bank \in Nat
    BY <2>4
  <2> QED BY <2>1, <2>2, <2>4, <2>5
<1>9. rec.pcr = e.pcr /\ rec.type = e.type /\ rec.name = NameOf(events, k, 0) /\ e.pcr \in Nat
  <2>1. rec.pcr = e.pcr /\ rec.type = e.type /\ rec.name = NameOf(events, k, 0)
    BY <1>2, <1>7 DEF Header
  <2>2. e \in LoggedEvents
    BY <1>2, EventPositions
  <2>3. e.pcr \in 0 .. 23
    BY <2>2 DEF LoggedEvents
  <2>4. e.pcr \in Nat
    BY <2>3
  <2> QED BY <2>1, <2>4
<1>10. PICK event : event = [type |-> e.type, name |-> NameOf(events, k, 0), tags |-> ts,
                             measurement |-> d.measurement]
  OBVIOUS
<1>11. PICK x : x = [pcr |-> e.pcr, bank |-> d.bank, event |-> event]
  OBVIOUS
<1>12. PICK more : more = Append(entries, x)
  OBVIOUS
<1>13. Tracks(logs', more)
  <2>1. logs' = AddEvent(logs, e.pcr, d.bank, event)
    BY <1>2, <1>8, <1>9, <1>10 DEF PublishEvent
  <2>2. Tracks(logs, entries)
    BY DEF Reading
  <2>3. Tracks(AddEvent(logs, e.pcr, d.bank, event),
               Append(entries, [pcr |-> e.pcr, bank |-> d.bank, event |-> event]))
    BY <2>2, <1>8, <1>9, TracksAppend
  <2> QED BY <2>1, <2>3, <1>11, <1>12
<1>S. PICK S : entries \in Seq(S)
  BY DEF Reading, Tracks
<1>14. PICK l, w \in Nat : /\ l = Len(entries) /\ l = base + (a + j) /\ w = Len(want)
                           /\ entries \in Seq(S)
  <2>1. Len(want) \in Nat
    BY <1>3
  <2> QED BY <1>S, <2>1, <1>1, <1>2, <1>6
<1>15. /\ Len(more) = l + 1 /\ more[l + 1] = x
       /\ \A h \in 1 .. l : more[h] = entries[h]
  <2>1. PICK T : T = S \cup {x}
    OBVIOUS
  <2>2. entries \in Seq(T)
    <3>1. S \subseteq T
      BY <2>1
    <3> QED BY <3>1, <1>14, SeqMonotonic
  <2>3. x \in T
    BY <2>1
  <2>4. Len(entries) = l
    BY <1>14
  <2>5. /\ Len(Append(entries, x)) = l + 1 /\ Append(entries, x)[l + 1] = x
        /\ \A h \in 1 .. l : Append(entries, x)[h] = entries[h]
    BY <2>2, <2>3, <2>4, AppendSeq
  <2> QED BY <2>5, <1>12
<1>16. j + 1 \in 1 .. m /\ base + (a + (j + 1)) = l + 1 /\ l + 1 <= w
  <2>1. j + 1 \in 1 .. m /\ base + (a + (j + 1)) = l + 1
    BY <1>3, <1>4, <1>14
  <2>2. PICK u, v \in Nat : u = c[k] /\ v = c[n]
    BY <1>6
  <2>3. u = a + m /\ u <= v /\ w = base + v
    BY <2>2, <1>3, <1>5, <1>6, <1>14
  <2> QED BY <2>1, <2>3, <1>3, <1>4, <1>14
<1>17. PICK y : y = EntryOf(events, k, j + 1, txt) /\ want[l + 1] = y
  BY <1>3, <1>6, <1>16
<1>18. /\ x.pcr = y.pcr /\ x.bank = y.bank /\ Untagged(x.event) = Untagged(y.event)
       /\ Reaches(cells, events) => x = y
  <2>1. PICK t : y = [pcr |-> e.pcr, bank |-> d.bank,
                      event |-> [type |-> e.type, name |-> NameOf(events, k, 0), tags |-> t,
                                 measurement |-> d.measurement]]
    BY <1>2, <1>8, <1>17 DEF EntryOf
  <2>2. y.event.tags = t
    BY <2>1
  <2>3. Reaches(cells, events) => ts = t
    BY <2>2, <1>7, <1>17
  <2> QED BY <2>1, <2>3, <1>10, <1>11 DEF Untagged
<1>19. Follows(more, want, Reaches(cells, events))
  <2>1. Follows(entries, want, Reaches(cells, events))
    BY DEF Reading
  <2>2. \A q \in 1 .. l + 1 : q \in 1 .. l \/ q = l + 1
    OBVIOUS
  <2>3. Len(more) <= Len(want)
    BY <1>14, <1>15, <1>16
  <2>4. ASSUME NEW q \in 1 .. l + 1
        PROVE  /\ more[q].pcr = want[q].pcr /\ more[q].bank = want[q].bank
               /\ Untagged(more[q].event) = Untagged(want[q].event)
               /\ Reaches(cells, events) => more[q] = want[q]
    <3>1. CASE q = l + 1
      BY <3>1, <1>15, <1>17, <1>18
    <3>2. CASE q \in 1 .. l
      BY <3>2, <2>1, <1>14, <1>15 DEF Follows
    <3> QED BY <2>2, <3>1, <3>2
  <2> QED BY <2>3, <2>4, <1>15 DEF Follows
<1>20. PICK rest : rest = Tail(ds)
  OBVIOUS
<1>21. /\ rest \in Seq([bank : Nat, measurement : Seq(Nat)]) /\ Len(rest) = m - (j + 1)
       /\ \A h \in 1 .. m - (j + 1) : rest[h] = ds[h + 1]
  <2>1. ds # << >> /\ (m - j) - 1 = m - (j + 1)
    BY <1>4, <1>7
  <2> QED BY <2>1, <1>7, <1>20
<1>22. rec' = Header(events, k, rest, ts) /\ rec'.digests = rest /\ rec'.tags = ts
  <2>1. PICK a1, a2, a3, a4 :
          /\ a1 = events[k].pcr /\ a2 = events[k].type
          /\ a3 = Len(events[k].digests) /\ a4 = NameOf(events, k, 0)
    OBVIOUS
  <2>2. rec = [pcr |-> a1, type |-> a2, count |-> a3, digests |-> ds, name |-> a4, tags |-> ts]
    BY <2>1, <1>7 DEF Header
  <2>3. rec' = [rec EXCEPT !.digests = rest]
    BY <1>2, <1>20 DEF PublishEvent
  <2>4. rec' = [pcr |-> a1, type |-> a2, count |-> a3, digests |-> rest, name |-> a4, tags |-> ts]
    BY <2>2, <2>3
  <2> QED BY <2>1, <2>4 DEF Header
<1>23. AtRecord(cells, events, k)'
  <2>1. offset' = offset /\ buf' = buf /\ index501' = index501
    BY DEF PublishEvent
  <2> QED BY <2>1, <1>7 DEF AtRecord
<1>24. CASE j + 1 = m
  <2>1. pc' = "record"
    <3>1. m - j = 1
      BY <1>4, <1>24
    <3>2. Len(rec.digests) = 1
      BY <3>1, <1>2, <1>7
    <3> QED BY <3>2 DEF PublishEvent
  <2>2. Len(more) = base + EntAt(events, txt)[k]
    <3>1. Len(more) = base + (a + m)
      BY <1>15, <1>16, <1>24
    <3> QED BY <3>1, <1>2, <1>6
  <2>3. k \in 0 .. Len(events)
    BY <1>5
  <2>4. Reading(cells, events, txt, want, base, more)'
    BY <2>1, <2>2, <2>3, <1>13, <1>19, <1>23 DEF Reading
  <2> QED BY <2>4
<1>25. CASE j + 1 # m
  <2>1. pc' = "publish"
    <3>1. m - j # 1
      BY <1>4, <1>25
    <3>2. Len(rec.digests) # 1
      BY <3>1, <1>2, <1>7
    <3> QED BY <3>2 DEF PublishEvent
  <2>2. PICK i \in Nat : i = j + 1
    BY <1>4
  <2>3. i \in 0 .. m - 1
    BY <2>2, <1>4, <1>25
  <2>4. ASSUME NEW h \in 1 .. m - i
        PROVE  rest[h].bank = e.digests[i + h].alg /\ rest[h].measurement = e.digests[i + h].value
    <3>1. h + 1 \in 1 .. m - j /\ j + (h + 1) = i + h
      BY <2>2, <1>4
    <3>2. rest[h] = ds[h + 1]
      BY <2>2, <1>21
    <3> QED BY <3>1, <3>2, <1>7
  <2>5. Reaches(cells, events) => ts = EntryOf(events, k, i + 1, txt).event.tags
    <3>1. \A h : EntryOf(events, k, h, txt).event.tags
                 = IF ~txt THEN events[k].tags
                   ELSE IF NameOf(events, k, 0) = NoName THEN << >>
                   ELSE <<<<NameOf(events, k, 0)>>>>
      BY DEF EntryOf
    <3> QED BY <3>1, <1>7
  <2>6. AtPublish(cells, events, txt, k, i)'
    <3>1. HeaderRead(events, k)'
      BY <1>22 DEF HeaderRead
    <3>2. Len(rest) = m - i
      BY <2>2, <1>21
    <3> QED BY <3>1, <3>2, <2>3, <2>4, <2>5, <1>2, <1>21, <1>22, <1>23 DEF AtPublish
  <2>7. Len(more) = base + (EntAt(events, txt)[k - 1] + i)
    BY <2>2, <1>2, <1>6, <1>15, <1>16
  <2>8. i \in 0 .. Len(events[k].digests) - 1
    BY <2>3, <1>2
  <2>9. Reading(cells, events, txt, want, base, more)'
    BY <2>1, <2>6, <2>7, <2>8, <1>13, <1>19 DEF Reading
  <2> QED BY <2>9
<1> QED BY <1>24, <1>25

\* The agent cannot tag an event of the log.
PanicsOn(events, txt) == ~ txt /\ \E i \in DOMAIN events : Unreadable(events[i])

LoopAction == \/ ReadRecord \/ ReadDigest \/ ReadEvent \/ ReadFails \/ PublishEvent \/ LoopEnds

Aside == <<host, parser, second, eventLogs, measureLog, size>>

\* A step of createMeasureLog: it goes on, or it ends in an error, which does not
\* happen to a log that is whole, or it panics, which only happens to such a log
\* on an event that cannot be tagged.
LEMMA LoopStep ==
  ASSUME NEW cells, NEW events, NEW txt, NEW want, NEW base, NEW entries,
         Stream(cells, events, txt, want, base), SizeFits(cells, events), size \in Nat,
         Reading(cells, events, txt, want, base, entries), TxtEnabled = txt, LoopAction
  PROVE  \/ /\ pc' \in LoopPcs /\ UNCHANGED Aside
            /\ \E more : Reading(cells, events, txt, want, base, more)'
         \/ /\ ParserFails
            /\ SizeEnds(cells, events) => ~ Reaches(cells, events)
         \/ Panic /\ (Reaches(cells, events) => PanicsOn(events, txt))
<1>1. CASE ReadRecord
  <2>1. pc = "record" /\ offset < size
    BY <1>1 DEF ReadRecord
  <2>2. CASE (buf = << >> \/ (Len(buf) \in {1, 2} /\ buf[1] <= 23)) /\ ParserFails
    BY <2>1, <2>2, RecordFails
  <2>3. CASE buf # << >> /\ (buf[1] > 23 \/ (Len(buf) >= 3 /\ buf[3] \notin 1 .. 5)) /\ Break
    <3>1. Reading(cells, events, txt, want, base, entries)'
      BY <2>1, <2>3, LoopBreaks
    <3>2. pc' \in LoopPcs /\ UNCHANGED Aside
      BY <2>3 DEF Break, LoopPcs, Aside, parseVars
    <3> QED BY <3>1, <3>2
  <2>4. CASE /\ Len(buf) >= 3 /\ buf[1] <= 23 /\ buf[3] \in 1 .. 5
             /\ rec' = [pcr |-> buf[1], type |-> buf[2], count |-> buf[3], digests |-> << >>,
                        name |-> TypeName(buf[2], index501), tags |-> << >>]
             /\ buf' = Drop(buf, 3) /\ offset' = offset + 3 /\ pc' = "digest"
             /\ UNCHANGED <<host, parser, size, index501, second, logs, eventLogs, measureLog>>
    <3>1. Reading(cells, events, txt, want, base, entries)'
      BY <2>1, <2>4, RecordRead
    <3>2. pc' \in LoopPcs /\ UNCHANGED Aside
      BY <2>4 DEF LoopPcs, Aside
    <3> QED BY <3>1, <3>2
  <2> QED BY <1>1, <2>2, <2>3, <2>4 DEF ReadRecord
<1>2. CASE ReadDigest
  <2>1. pc = "digest" /\ buf # << >>
    BY <1>2 DEF ReadDigest
  <2>2. Reading(cells, events, txt, want, base, entries)'
    BY <2>1, <1>2, DigestRead
  <2>3. pc' \in LoopPcs /\ UNCHANGED Aside
    BY <1>2 DEF ReadDigest, LoopPcs, Aside
  <2> QED BY <2>2, <2>3
<1>3. CASE ReadEvent
  <2>1. pc = "event" /\ buf # << >>
    BY <1>3 DEF ReadEvent
  <2>2. PICK tags : tags = Tags(Take(Drop(buf, 1), buf[1]), buf[1])
    OBVIOUS
  <2>3. CASE tags = Panics /\ Panic
    <3>1. ASSUME Reaches(cells, events) PROVE PanicsOn(events, txt)
      <4>1. PICK k \in 1 .. Len(events) : AtDigest(cells, events, k, Len(events[k].digests))
        BY <2>1 DEF Reading
      <4>2. Finds(cells, events, k)
        BY <4>1, <2>1, EventFound
      <4>3. txt \in BOOLEAN
        BY DEF Stream
      <4>4. tags = Panics => ~ txt /\ Unreadable(events[k])
        BY <4>2, <4>3, <3>1, <2>2, EventTagged
      <4>5. k \in DOMAIN events
        BY DEF Stream
      <4> QED BY <4>4, <4>5, <2>3 DEF PanicsOn
    <3> QED BY <3>1, <2>3
  <2>4. CASE /\ tags # Panics
             /\ rec' = [rec EXCEPT !.tags =
                          [i \in DOMAIN tags |->
                             IF TxtEnabled THEN tags[i] ELSE removeUnicode(tags[i])]]
             /\ buf' = Drop(buf, 1 + buf[1]) /\ offset' = (offset + 1) + buf[1]
             /\ index501' = IF rec.type = Event501 THEN index501 + 1 ELSE index501
             /\ pc' = "publish"
             /\ UNCHANGED <<host, parser, size, second, logs, eventLogs, measureLog>>
    <3>1. logs' = logs
      BY <2>4
    <3>2. Reading(cells, events, txt, want, base, entries)'
      BY <2>1, <2>2, <2>4, <3>1, EventRead
    <3>3. pc' \in LoopPcs /\ UNCHANGED Aside
      BY <2>4 DEF LoopPcs, Aside
    <3> QED BY <3>2, <3>3
  <2> QED BY <1>3, <2>2, <2>3, <2>4 DEF ReadEvent
<1>4. CASE ReadFails
  <2>1. pc \in {"digest", "event"} /\ buf = << >> /\ ParserFails
    BY <1>4 DEF ReadFails
  <2> QED BY <2>1, ReadFailsShort
<1>5. CASE PublishEvent
  <2>1. \E more : Reading(cells, events, txt, want, base, more)'
    BY <1>5, EventPublished
  <2>2. pc' \in LoopPcs /\ UNCHANGED Aside
    BY <1>5 DEF PublishEvent, LoopPcs, Aside
  <2> QED BY <2>1, <2>2
<1>6. CASE LoopEnds
  <2>1. pc = "record" /\ offset >= size /\ Break
    BY <1>6 DEF LoopEnds
  <2>2. Reading(cells, events, txt, want, base, entries)'
    BY <2>1, LoopBreaks
  <2>3. pc' \in LoopPcs /\ UNCHANGED Aside
    BY <2>1 DEF Break, LoopPcs, Aside, parseVars
  <2> QED BY <2>2, <2>3
<1> QED BY <1>1, <1>2, <1>3, <1>4, <1>5, <1>6 DEF LoopAction

-----------------------------------------------------------------------------
(* How the loop begins.                                                     *)

LEMMA WrapNat ==
  ASSUME NEW x \in Int
  PROVE  Wrap(x) \in Nat /\ (0 <= x /\ x < UintRange => Wrap(x) = x)
<1>1. UintRange \in Nat \ {0}
  BY EventLogAssumption
<1> QED BY <1>1 DEF Wrap

\* What parseTcgSpecEvent leaves of an area, and of its size.
LEMMA BodyOf ==
  ASSUME NEW area \in Seq(Nat), Len(area) >= 4, Len(area) < UintRange,
         NEW b, b = Body(area), NEW s, s = Wrap(Len(area) - (area[4] + 4))
  PROVE  /\ b \in Seq(Nat) /\ b = Drop(area, 4 + area[4]) /\ s \in Nat
         /\ Whole(area) => s = Len(b)
         /\ ~ Whole(area) => b = << >>
<1>1. PICK l \in Nat, x \in Nat : l = Len(area) /\ x = area[4]
  <2>1. 4 \in 1 .. Len(area)
    OBVIOUS
  <2> QED BY <2>1
<1>2. b = Drop(area, 4 + x) /\ b \in Seq(Nat)
  <2>1. b = Drop(area, 4 + x)
    BY <1>1 DEF Body
  <2>2. 4 + x \in Nat
    OBVIOUS
  <2> QED BY <2>1, <2>2, DropProps
<1>3. s = Wrap(l - (x + 4)) /\ s \in Nat
  <2>1. l - (x + 4) \in Int
    OBVIOUS
  <2> QED BY <2>1, <1>1, WrapNat
<1>4. CASE Whole(area)
  <2>1. l >= 4 + x /\ 0 <= l - (x + 4) /\ l - (x + 4) < UintRange
    <3>1. l >= 4 + x
      BY <1>1, <1>4 DEF Whole
    <3>2. UintRange \in Nat /\ l < UintRange
      BY <1>1, EventLogAssumption
    <3> QED BY <3>1, <3>2
  <2>2. s = l - (x + 4)
    <3>1. l - (x + 4) \in Int
      OBVIOUS
    <3> QED BY <3>1, <2>1, <1>3, WrapNat
  <2>3. Len(b) = l - (4 + x)
    <3>1. 4 + x \in Nat /\ 4 + x <= Len(area)
      BY <2>1, <1>1
    <3>2. Len(Drop(area, 4 + x)) = Len(area) - (4 + x)
      BY <3>1, DropProps
    <3> QED BY <3>2, <1>1, <1>2
  <2> QED BY <2>2, <2>3, <1>1, <1>2, <1>3, <1>4
<1>5. CASE ~ Whole(area)
  <2>1. 4 + x \in Nat /\ 4 + x >= Len(area)
    BY <1>1, <1>5 DEF Whole
  <2>2. b = << >>
    BY <2>1, <1>2, DropProps
  <2> QED BY <2>2, <1>1, <1>2, <1>3, <1>5
<1> QED BY <1>4, <1>5

\* Cells that begin with a log, and those that a log begins with.
LEMMA StreamOf ==
  ASSUME NEW events \in Seq(LoggedEvents), \A i \in DOMAIN events : WellFormed(events[i]),
         KnownAlgorithms(events), NEW cells \in Seq(Nat),
         Holds(cells, events) \/ IsPrefix(cells, EncodeAll(events)),
         NEW txt \in BOOLEAN, NEW base \in Nat, NEW want, \E S : want \in Seq(S),
         Len(want) = base + EntAt(events, txt)[Len(events)],
         \A i \in 1 .. Len(events) : \A j \in 1 .. Len(events[i].digests) :
           want[base + (EntAt(events, txt)[i - 1] + j)] = EntryOf(events, i, j, txt)
  PROVE  /\ Stream(cells, events, txt, want, base)
         /\ Holds(cells, events) => Reaches(cells, events)
<1>1. PICK n, r, A, l, c : /\ n = Len(events) /\ r = RecAt(events) /\ A = EncodeAll(events)
                           /\ l = Len(A) /\ c = Len(cells)
  OBVIOUS
<1>2. A \in Seq(Nat) /\ l = r[n] /\ l \in Nat /\ c \in Nat
  <2>1. A \in Seq(Nat) /\ Len(A) = r[n]
    BY <1>1, RecordLayout
  <2> QED BY <2>1, <1>1
<1>3. CASE Holds(cells, events)
  <2>1. l <= c /\ SubSeq(A, 1, l) = SubSeq(cells, 1, l) /\ Terminated(Drop(cells, l))
    BY <1>1, <1>3 DEF Holds, IsPrefix
  <2>2. \A p \in 1 .. l : cells[p] = A[p]
    BY <2>1, <1>1, <1>2
  <2>3. ReadsAs(cells, events)
    BY <2>2, <1>1, <1>2 DEF ReadsAs
  <2>4. Reaches(cells, events)
    BY <2>1, <1>1, <1>2 DEF Reaches
  <2> QED BY <2>1, <2>3, <2>4, <1>1, <1>2 DEF Stream
<1>4. CASE IsPrefix(cells, A) /\ ~ Holds(cells, events)
  <2>1. c <= l /\ SubSeq(cells, 1, c) = SubSeq(A, 1, c)
    BY <1>1, <1>4 DEF IsPrefix
  <2>2. \A p \in 1 .. c : cells[p] = A[p]
    BY <2>1, <1>1, <1>2
  <2>3. ReadsAs(cells, events)
    BY <2>2, <1>1 DEF ReadsAs
  <2>4. Len(cells) <= RecAt(events)[Len(events)]
    BY <2>1, <1>1, <1>2
  <2>5. Terminated(Drop(cells, RecAt(events)[Len(events)]))
    <3>1. l >= Len(cells)
      BY <2>1, <1>1, <1>2
    <3>2. Drop(cells, l) = << >>
      BY <3>1, <1>2, DropProps
    <3> QED BY <3>2, <1>1, <1>2 DEF Terminated
  <2> QED BY <2>3, <2>4, <2>5, <1>4 DEF Stream
<1> QED BY <1>1, <1>3, <1>4

\* The same for a log of its own.
LEMMA StreamAlone ==
  ASSUME NEW events \in Seq(LoggedEvents), \A i \in DOMAIN events : WellFormed(events[i]),
         KnownAlgorithms(events), NEW cells \in Seq(Nat),
         Holds(cells, events) \/ IsPrefix(cells, EncodeAll(events)), NEW txt \in BOOLEAN
  PROVE  /\ Stream(cells, events, txt, Entries(events, txt, 0), 0)
         /\ Holds(cells, events) => Reaches(cells, events)
<1>1. PICK n, c, W : n = Len(events) /\ c = EntAt(events, txt) /\ W = Entries(events, txt, 0)
  OBVIOUS
<1>2. /\ n \in Nat /\ c \in [0 .. n -> Nat] /\ (\E Ev : W \in Seq(Entry(Ev))) /\ Len(W) = c[n]
      /\ \A i \in 1 .. n : \A j \in 1 .. Len(events[i].digests) :
           W[c[i - 1] + j] = EntryOf(events, i, j, txt)
  BY <1>1, EntriesLayout
<1>3. Len(W) = 0 + c[n]
  <2>1. c[n] \in Nat
    BY <1>2
  <2> QED BY <2>1, <1>2
<1>4. ASSUME NEW i \in 1 .. n, NEW j \in 1 .. Len(events[i].digests)
      PROVE  W[0 + (c[i - 1] + j)] = EntryOf(events, i, j, txt)
  <2>1. i - 1 \in 0 .. n
    BY <1>2
  <2>2. c[i - 1] \in Nat /\ j \in Int
    BY <2>1, <1>2
  <2>3. 0 + (c[i - 1] + j) = c[i - 1] + j
    BY <2>2
  <2> QED BY <2>3, <1>2
<1>5. /\ \E S : W \in Seq(S)
      /\ Len(W) = 0 + EntAt(events, txt)[Len(events)]
      /\ \A i \in 1 .. Len(events) : \A j \in 1 .. Len(events[i].digests) :
           W[0 + (EntAt(events, txt)[i - 1] + j)] = EntryOf(events, i, j, txt)
  BY <1>1, <1>2, <1>3, <1>4
<1>6. 0 \in Nat
  OBVIOUS
<1>7. Stream(cells, events, txt, W, 0) /\ (Holds(cells, events) => Reaches(cells, events))
  BY <1>5, <1>6, StreamOf
<1> QED BY <1>1, <1>7

LEMMA LoopBegins ==
  ASSUME NEW cells, NEW events, NEW txt, NEW want, NEW base, NEW entries,
         Stream(cells, events, txt, want, base), Tracks(logs', entries),
         Follows(entries, want, Reaches(cells, events)), Len(entries) = base,
         pc' = "record", offset' = 0, index501' = 0, buf' = cells
  PROVE  Reading(cells, events, txt, want, base, entries)'
<1>1. events \in Seq(LoggedEvents) /\ cells \in Seq(Nat) /\ txt \in BOOLEAN /\ base \in Nat
  BY DEF Stream
<1>2. RecAt(events)[0] = 0 /\ EntAt(events, txt)[0] = 0 /\ 0 \in 0 .. Len(events)
  BY <1>1, RecordLayout, EntriesLayout
<1>3. Drop(cells, 0) = cells
  BY <1>1 DEF Drop
<1>4. Count501(events, 0) = 0
  <2>1. {j \in 1 .. 0 : events[j].type = Event501} = {}
    OBVIOUS
  <2> QED BY <2>1, FS_EmptySet DEF Count501
<1>5. AtRecord(cells, events, 0)'
  BY <1>2, <1>3, <1>4 DEF AtRecord
<1>6. Len(entries) = base + EntAt(events, txt)[0]
  BY <1>1, <1>2
<1> QED BY <1>2, <1>5, <1>6 DEF Reading

\* The loop reaches every event if the size is not less than the log's.
LEMMA SizeReaches ==
  ASSUME NEW events \in Seq(LoggedEvents), NEW cells, size' \in Nat,
         events = << >> \/ (Reaches(cells, events) => size' >= RecAt(events)[Len(events)])
  PROVE  SizeFits(cells, events)'
<1> SUFFICES ASSUME Reaches(cells, events), NEW k \in 0 .. Len(events) - 1
             PROVE  RecAt(events)[k] < size'
  BY DEF SizeFits
<1>r. PICK r : r = RecAt(events)
  OBVIOUS
<1>1. PICK n \in Nat : n = Len(events) /\ r = RecAt(events)
  BY <1>r
<1>2. PICK i \in 1 .. n : i = k + 1 /\ i - 1 = k /\ n # 0
  BY <1>1
<1>3. /\ r \in [0 .. n -> Nat] /\ r[i] = r[i - 1] + Len(Encode(events[i]))
      /\ \A h, j \in 0 .. n : h <= j => r[h] <= r[j]
  BY <1>1, RecordLayout
<1>4. Len(Encode(events[i])) \in Nat /\ Len(Encode(events[i])) > 0
  <2>1. PICK e \in LoggedEvents : e = events[i]
    BY <1>1
  <2>2. /\ Encode(e) \in Seq(Nat)
        /\ Len(Encode(e)) = (3 + DigAt(e)[Len(e.digests)]) + (1 + Len(e.data))
    BY EncodeLayout
  <2>3. Len(e.digests) \in Nat /\ DigAt(e) \in [0 .. Len(e.digests) -> Nat]
    BY DigestLayout
  <2>4. PICK x, y \in Nat : x = DigAt(e)[Len(e.digests)] /\ y = Len(e.data)
    <3>1. Len(e.digests) \in 0 .. Len(e.digests)
      BY <2>3
    <3>2. e.data \in Seq(Nat)
      BY DEF LoggedEvents
    <3> QED BY <3>1, <3>2, <2>3
  <2>5. (3 + x) + (1 + y) > 0
    OBVIOUS
  <2> QED BY <2>1, <2>2, <2>4, <2>5
<1>5. PICK a, b, c \in Nat : a = r[k] /\ b = r[i] /\ c = r[n] /\ b <= c
  <2>1. k \in 0 .. n /\ i \in 0 .. n /\ n \in 0 .. n /\ i <= n
    BY <1>1, <1>2
  <2> QED BY <2>1, <1>3
<1>6. a < b
  BY <1>2, <1>3, <1>4, <1>5
<1>7. size' >= c
  <2>1. events # << >>
    BY <1>1, <1>2
  <2> QED BY <2>1, <1>1, <1>5
<1> QED BY <1>1, <1>5, <1>6, <1>7

-----------------------------------------------------------------------------
(* What the groups of a parser say of its log.                              *)

LEMMA FollowsPrefix ==
  ASSUME NEW groups, NEW entries, NEW want, NEW whole, Tracks(groups, entries),
         Follows(entries, want, whole), \E Ev : want \in Seq(Entry(Ev)),
         NEW g \in ToSet(groups)
  PROVE  SelectsPrefix(g, want)
<1>1. PICK Ev : groups \in Seq(Group(Ev)) /\ entries \in Seq(Entry(Ev)) /\ Agrees(groups, entries)
  BY DEF Tracks
<1>2. PICK Fv : want \in Seq(Entry(Fv))
  OBVIOUS
<1>3. PICK n \in Nat, w \in Nat : n = Len(entries) /\ w = Len(want) /\ n <= w
  BY <1>1, <1>2 DEF Follows
<1>4. g \in Group(Ev)
  BY <1>1 DEF ToSet
<1>a. PICK a, b : a = g.pcr /\ b = g.bank
  OBVIOUS
<1>5. PICK evs \in Seq(Ev) : evs = g.events /\ a = g.pcr /\ b = g.bank
  BY <1>4, <1>a DEF Group
<1>6. Selects(evs, entries, a, b)
  BY <1>1, <1>5 DEF Agrees
<1>7. PICK first, bare :
         /\ first = [i \in 1 .. n |-> [want[i] EXCEPT !.event = Untagged(@)]]
         /\ bare = [i \in DOMAIN evs |-> Untagged(evs[i])]
  OBVIOUS
<1>8. ASSUME NEW i \in 1 .. n
      PROVE  /\ first[i].pcr = entries[i].pcr /\ first[i].bank = entries[i].bank
             /\ first[i].event = Untagged(entries[i].event)
  <2>1. i \in 1 .. w
    BY <1>3
  <2>2. want[i] \in Entry(Fv)
    BY <2>1, <1>2, <1>3
  <2>3. PICK x, y, z : want[i] = [pcr |-> x, bank |-> y, event |-> z]
    BY <2>2 DEF Entry
  <2>4. first[i] = [pcr |-> x, bank |-> y, event |-> Untagged(z)]
    <3>1. \A u : [[pcr |-> x, bank |-> y, event |-> z] EXCEPT !.event = u]
                 = [pcr |-> x, bank |-> y, event |-> u]
      OBVIOUS
    <3>2. [want[i] EXCEPT !.event = Untagged(want[i].event)]
          = [pcr |-> x, bank |-> y, event |-> Untagged(z)]
      BY <2>3, <3>1
    <3> QED BY <3>2, <1>7
  <2>5. /\ entries[i].pcr = want[i].pcr /\ entries[i].bank = want[i].bank
        /\ Untagged(entries[i].event) = Untagged(want[i].event)
    BY <1>3 DEF Follows
  <2>6. entries[i].pcr = x /\ entries[i].bank = y /\ Untagged(entries[i].event) = Untagged(z)
    BY <2>3, <2>5
  <2> QED BY <2>4, <2>6
<1>9. PICK M, N : M = Places(entries, a, b) /\ N = Places(first, a, b)
  OBVIOUS
<1>10. DOMAIN entries = 1 .. n /\ DOMAIN first = 1 .. n
  BY <1>1, <1>3, <1>7
<1>11. N = M /\ M \subseteq 1 .. n
  BY <1>8, <1>9, <1>10 DEF Places
<1>12. Len(evs) = Cardinality(M)
       /\ \A j \in M : evs[Cardinality({i \in M : i <= j})] = entries[j].event
  BY <1>6, <1>9 DEF Selects
<1>13. PICK l \in Nat : l = Len(evs) /\ DOMAIN evs = 1 .. l
  OBVIOUS
<1>14. bare \in Seq({Untagged(e) : e \in Ev}) /\ Len(bare) = l
  <2>1. bare \in [1 .. l -> {Untagged(e) : e \in Ev}]
    BY <1>7, <1>13
  <2> QED BY <2>1, SeqDef
<1>15. ASSUME NEW j \in M
       PROVE  bare[Cardinality({i \in M : i <= j})] = first[j].event
  <2>1. PICK R, q : R = {i \in M : i <= j} /\ q = Cardinality(R)
    OBVIOUS
  <2>2. IsFiniteSet(M) /\ Cardinality(M) \in Nat
    <3>1. IsFiniteSet(1 .. n)
      BY FS_Interval
    <3>2. IsFiniteSet(M)
      BY <3>1, <1>11, FS_Subset
    <3> QED BY <3>2, FS_CardinalityType
  <2>3. R \subseteq M /\ j \in R
    <3>1. j \in Nat
      BY <1>11
    <3>2. j <= j
      BY <3>1
    <3> QED BY <3>2, <2>1
  <2>4. IsFiniteSet(R) /\ q \in Nat /\ q <= l
    BY <2>1, <2>2, <2>3, <1>12, <1>13, FS_Subset, FS_CardinalityType
  <2>5. q # 0
    BY <2>1, <2>3, <2>4, FS_EmptySet
  <2>6. q \in 1 .. l
    BY <2>4, <2>5
  <2>7. bare[q] = Untagged(evs[q])
    BY <2>6, <1>7, <1>13
  <2>8. evs[q] = entries[j].event
    BY <2>1, <1>12
  <2>9. first[j].event = Untagged(entries[j].event)
    BY <1>8, <1>11
  <2> QED BY <2>1, <2>7, <2>8, <2>9
<1>16. Selects(bare, first, a, b)
  BY <1>9, <1>11, <1>12, <1>13, <1>14, <1>15 DEF Selects
<1>17. n \in 0 .. Len(want)
  BY <1>3
<1> QED BY <1>5, <1>7, <1>16, <1>17 DEF SelectsPrefix

\* All that is wanted was published.
LEMMA FollowsAll ==
  ASSUME NEW entries, NEW want, NEW S, NEW T, entries \in Seq(S), want \in Seq(T),
         Follows(entries, want, TRUE), Len(entries) = Len(want)
  PROVE  entries = want
<1>1. \A q \in 1 .. Len(entries) : entries[q] = want[q]
  BY DEF Follows
<1> QED BY <1>1, SeqEqual

\* A group has an event, and there are groups if there are entries.
LEMMA TracksEvents ==
  ASSUME NEW groups, NEW entries, Tracks(groups, entries)
  PROVE  /\ \A i \in 1 .. Len(groups) : groups[i].events # << >>
         /\ entries # << >> => groups # << >>
<1>1. PICK Ev : groups \in Seq(Group(Ev)) /\ entries \in Seq(Entry(Ev)) /\ Agrees(groups, entries)
  BY DEF Tracks
<1>2. {<<g.pcr, g.bank>> : g \in ToSet(groups)} = {<<x.pcr, x.bank>> : x \in ToSet(entries)}
  BY <1>1 DEF Agrees
<1>3. ASSUME NEW i \in 1 .. Len(groups) PROVE groups[i].events # << >>
  <2>1. PICK g : g = groups[i] /\ g \in ToSet(groups)
    BY <1>1 DEF ToSet
  <2>2. PICK x \in ToSet(entries) : x.pcr = g.pcr /\ x.bank = g.bank
    <3>1. PICK E : E = ToSet(entries)
      OBVIOUS
    <3>2. <<g.pcr, g.bank>> \in {<<x.pcr, x.bank>> : x \in E}
      BY <3>1, <2>1, <1>2
    <3>3. \E x \in E : <<g.pcr, g.bank>> = <<x.pcr, x.bank>>
      BY <3>2
    <3> QED BY <3>1, <3>3
  <2>3. PICK j \in 1 .. Len(entries) : x = entries[j]
    BY <1>1 DEF ToSet
  <2>4. PICK M : M = Places(entries, g.pcr, g.bank)
    OBVIOUS
  <2>5. j \in M /\ M \subseteq 1 .. Len(entries)
    BY <2>2, <2>3, <2>4, <1>1 DEF Places
  <2>6. IsFiniteSet(M)
    <3>1. Len(entries) \in Nat
      BY <1>1
    <3>2. IsFiniteSet(1 .. Len(entries))
      BY <3>1, FS_Interval
    <3> QED BY <3>2, <2>5, FS_Subset
  <2>7. Cardinality(M) # 0
    BY <2>5, <2>6, FS_EmptySet
  <2>8. Len(g.events) = Cardinality(M)
    BY <2>1, <2>4, <1>1 DEF Agrees, Selects
  <2> QED BY <2>1, <2>7, <2>8
<1>4. ASSUME entries # << >> PROVE groups # << >>
  <2>1. entries[1] \in ToSet(entries)
    BY <1>1, <1>4 DEF ToSet
  <2>2. <<entries[1].pcr, entries[1].bank>> \in {<<x.pcr, x.bank>> : x \in ToSet(entries)}
    BY <2>1
  <2>3. PICK g \in ToSet(groups) : TRUE
    BY <2>2, <1>2
  <2> QED BY <2>3 DEF ToSet
<1> QED BY <1>3, <1>4

-----------------------------------------------------------------------------
(* The parsers of firmware logs.                                            *)

IsSeq(s) == \E S : s \in Seq(S)

\* The loop reads a log.
Loop(cells, events, txt, want, base) ==
  /\ Stream(cells, events, txt, want, base)
  /\ size \in Nat /\ SizeFits(cells, events)
  /\ \E entries : Reading(cells, events, txt, want, base, entries)

\* It reads a log that is whole.
WholeLoop(cells, events, txt, want, base) ==
  /\ Loop(cells, events, txt, want, base)
  /\ Reaches(cells, events) /\ SizeEnds(cells, events)

LEMMA SizeStops ==
  ASSUME NEW events \in Seq(LoggedEvents), NEW cells \in Seq(Nat), size' \in Nat,
         size' <= Len(cells)
  PROVE  SizeEnds(cells, events)'
<1>1. PICK z \in Nat : z = RecAt(events)[Len(events)]
  BY RecordLayout
<1>2. PICK c \in Nat : c = Len(cells)
  OBVIOUS
<1>3. ASSUME Drop(cells, z) = << >> PROVE z >= c
  <2> SUFFICES ASSUME z < c PROVE FALSE
    OBVIOUS
  <2>1. z <= Len(cells)
    BY <1>2
  <2>2. Len(Drop(cells, z)) = Len(cells) - z
    BY <2>1, DropProps
  <2>3. c - z # 0
    OBVIOUS
  <2> QED BY <2>2, <2>3, <1>2, <1>3
<1>4. z >= c => z >= size'
  BY <1>2
<1> QED BY <1>1, <1>3, <1>4 DEF SizeEnds

\* parseTcgSpecEvent gives the loop a log to read, or nothing.
LEMMA Opens ==
  ASSUME NEW area \in Seq(Nat), Len(area) < UintRange, NEW s, s = Len(area),
         parseTcgSpecEvent(area, s), logs = << >>, NEW txt \in BOOLEAN,
         NEW events \in Seq(LoggedEvents), \A i \in DOMAIN events : WellFormed(events[i])
  PROVE  \/ ParserFails /\ Len(area) < 4
         \/ /\ pc' = "record" /\ logs' = << >>
            /\ UNCHANGED <<host, parser, second, eventLogs, measureLog>>
            /\ \/ Whole(area) /\ Holds(Body(area), events)
               \/ KnownAlgorithms(events) /\ IsPrefix(Body(area), EncodeAll(events))
               => Loop(Body(area), events, txt, Entries(events, txt, 0), 0)'
            /\ Whole(area) /\ Holds(Body(area), events)
               => WholeLoop(Body(area), events, txt, Entries(events, txt, 0), 0)'
<1>1. CASE Len(area) < 4 /\ ParserFails
  BY <1>1
<1>2. CASE /\ Len(area) >= 4 /\ buf' = Drop(area, 4 + area[4]) /\ size' = Wrap(s - (area[4] + 4))
           /\ offset' = 0 /\ index501' = 0 /\ rec' = NoRecord /\ pc' = "record"
           /\ UNCHANGED <<host, parser, second, logs, eventLogs, measureLog>>
  <2>1. PICK b, want : b = Body(area) /\ want = Entries(events, txt, 0)
    OBVIOUS
  <2>2. /\ b \in Seq(Nat) /\ b = Drop(area, 4 + area[4]) /\ size' \in Nat
        /\ Whole(area) => size' = Len(b)
        /\ ~ Whole(area) => b = << >>
    BY <2>1, <1>2, BodyOf
  <2>3. ASSUME \/ Whole(area) /\ Holds(b, events)
               \/ KnownAlgorithms(events) /\ IsPrefix(b, EncodeAll(events))
        PROVE  Loop(b, events, txt, want, 0)' /\ (Holds(b, events) => Reaches(b, events))
    <3>1. KnownAlgorithms(events) /\ (Holds(b, events) \/ IsPrefix(b, EncodeAll(events)))
      BY <2>3 DEF Holds
    <3>2. Stream(b, events, txt, want, 0) /\ (Holds(b, events) => Reaches(b, events))
      BY <3>1, <2>1, <2>2, StreamAlone
    <3>3. SizeFits(b, events)'
      <4>1. Len(b) <= size'
        BY <2>2
      <4>2. PICK z, l \in Nat : z = RecAt(events)[Len(events)] /\ l = Len(b)
        <5>1. RecAt(events)[Len(events)] \in Nat
          BY RecordLayout
        <5> QED BY <5>1, <2>2
      <4>3. Reaches(b, events) => size' >= RecAt(events)[Len(events)]
        BY <4>1, <4>2, <2>2 DEF Reaches
      <4> QED BY <4>3, <2>2, SizeReaches
    <3>4. Reading(b, events, txt, want, 0, << >>)'
      <4>1. Tracks(logs', << >>)
        BY <1>2, TracksEmpty
      <4>2. Len(want) \in Nat
        BY <3>2 DEF Stream
      <4>3. Follows(<< >>, want, Reaches(b, events)) /\ Len(<< >>) = 0
        BY <4>2 DEF Follows
      <4> QED BY <4>1, <4>3, <3>2, <2>2, <1>2, LoopBegins
    <3> QED BY <3>2, <3>3, <3>4, <2>2 DEF Loop
  <2>4. ASSUME Whole(area), Holds(b, events) PROVE WholeLoop(b, events, txt, want, 0)'
    <3>1. SizeEnds(b, events)'
      <4>1. size' <= Len(b)
        BY <2>2, <2>4
      <4> QED BY <4>1, <2>2, SizeStops
    <3> QED BY <3>1, <2>3, <2>4 DEF WholeLoop
  <2> QED BY <2>1, <2>3, <2>4, <1>2
<1> QED BY <1>1, <1>2 DEF parseTcgSpecEvent

LEMMA AddEventSeq ==
  ASSUME NEW groups, IsSeq(groups), NEW pcr, NEW bank, NEW event
  PROVE  IsSeq(AddEvent(groups, pcr, bank, event))
<1>1. PICK S : groups \in Seq(S)
  BY DEF IsSeq
<1>i. PICK i : i = GroupAt(groups, pcr, bank)
  OBVIOUS
<1>2. PICK n \in Nat : /\ n = Len(groups) /\ groups \in [1 .. n -> S]
                       /\ i = GroupAt(groups, pcr, bank)
  BY <1>1, <1>i
<1>3. CASE i = 0
  <2>1. PICK x : x = [pcr |-> pcr, bank |-> bank, events |-> <<event>>]
    OBVIOUS
  <2>2. AddEvent(groups, pcr, bank, event) = Append(groups, x)
    BY <2>1, <1>2, <1>3 DEF AddEvent, GroupAt
  <2>3. groups \in Seq(S \cup {x})
    BY <1>1, SeqMonotonic
  <2>4. Append(groups, x) \in Seq(S \cup {x})
    BY <2>3
  <2> QED BY <2>2, <2>4 DEF IsSeq
<1>4. CASE i # 0
  <2>1. i \in 1 .. n
    BY <1>2, <1>4, FindGroup
  <2>2. PICK x : AddEvent(groups, pcr, bank, event) = [groups EXCEPT ![i] = x]
    <3>1. AddEvent(groups, pcr, bank, event) = [groups EXCEPT ![i].events = Append(@, event)]
      BY <1>2, <1>4 DEF AddEvent, GroupAt
    <3> QED BY <3>1
  <2>3. [groups EXCEPT ![i] = x] \in [1 .. n -> S \cup {x}]
    BY <2>1, <1>2
  <2>4. PICK f, T : f = [groups EXCEPT ![i] = x] /\ T = S \cup {x}
    OBVIOUS
  <2>5. f \in [1 .. n -> T]
    BY <2>3, <2>4
  <2>6. f \in Seq(T)
    BY <2>5, SeqDef
  <2> QED BY <2>2, <2>4, <2>6 DEF IsSeq
<1> QED BY <1>3, <1>4

\* What a step of the loop does to anything but the loop.
LEMMA LoopFrame ==
  ASSUME LoopAction, IsSeq(logs)
  PROVE  /\ pc \in LoopPcs
         /\ \/ pc' \in LoopPcs /\ UNCHANGED Aside /\ IsSeq(logs')
            \/ ParserFails
            \/ Panic
<1>1. CASE ReadRecord
  BY <1>1 DEF ReadRecord, Break, LoopPcs, Aside, parseVars
<1>2. CASE ReadDigest
  BY <1>2 DEF ReadDigest, LoopPcs, Aside
<1>3. CASE ReadEvent
  BY <1>3 DEF ReadEvent, LoopPcs, Aside
<1>4. CASE ReadFails
  BY <1>4 DEF ReadFails, LoopPcs
<1>5. CASE PublishEvent
  <2>1. IsSeq(logs')
    BY <1>5, AddEventSeq DEF PublishEvent
  <2> QED BY <2>1, <1>5 DEF PublishEvent, LoopPcs, Aside
<1>6. CASE LoopEnds
  BY <1>6 DEF LoopEnds, Break, LoopPcs, Aside, parseVars
<1> QED BY <1>1, <1>2, <1>3, <1>4, <1>5, <1>6 DEF LoopAction

\* createMeasureLog again, on what follows nextRecordOffset.
LEMMA OpensNext ==
  ASSUME NEW heap \in Seq(Nat), NEW q \in Nat, NEW alloc \in 0 .. UintRange - 1,
         alloc <= Len(heap), q <= Len(heap),
         NEW first \in Seq(LoggedEvents), NEW next \in Seq(LoggedEvents),
         \A i \in DOMAIN next : WellFormed(next[i]), Holds(Drop(heap, q), next),
         q + Len(EncodeAll(next)) <= alloc \/ (q < Len(heap) /\ next = << >>),
         NEW entries, Tracks(logs, entries), Follows(entries, Entries(first, TRUE, 0), TRUE),
         Len(entries) = Len(Entries(first, TRUE, 0)), logs' = logs, pc' = "record",
         buf' = Drop(heap, q), size' = Wrap(alloc - q), offset' = 0, index501' = 0
  PROVE  WholeLoop(Drop(heap, q), next, TRUE,
                   Entries(first, TRUE, 0) \o Entries(next, TRUE, 0),
                    Len(Entries(first, TRUE, 0)))'
<1>1. PICK b, w, v, n, c, z :
         /\ b = Drop(heap, q) /\ w = Entries(first, TRUE, 0) /\ v = Entries(next, TRUE, 0)
         /\ n = Len(next) /\ c = EntAt(next, TRUE) /\ z = RecAt(next)[n]
  OBVIOUS
<1>2. PICK h \in Nat, l \in Nat : h = Len(heap) /\ l = Len(b) /\ l = h - q
  <2>1. Len(Drop(heap, q)) = Len(heap) - q
    BY DropProps
  <2> QED BY <2>1, <1>1
<1>3. b \in Seq(Nat)
  BY <1>1, DropProps
<1>4. PICK S : w \in Seq(S) /\ v \in Seq(S)
  <2>1. PICK T : w \in Seq(T)
    BY <1>1, EntriesLayout
  <2>2. PICK U : v \in Seq(U)
    BY <1>1, EntriesLayout
  <2>3. w \in Seq(T \cup U)
    BY <2>1, SeqMonotonic
  <2>4. v \in Seq(T \cup U)
    BY <2>2, SeqMonotonic
  <2> QED BY <2>3, <2>4
<1>5. /\ n \in Nat /\ c \in [0 .. n -> Nat] /\ Len(v) = c[n]
      /\ \A i, k \in 0 .. n : i <= k => c[i] <= c[k]
      /\ \A i \in 1 .. n : c[i] = c[i - 1] + Len(next[i].digests)
      /\ \A i \in 1 .. n : \A j \in 1 .. Len(next[i].digests) :
           v[c[i - 1] + j] = EntryOf(next, i, j, TRUE)
  BY <1>1, EntriesLayout
<1>6. PICK m \in Nat : m = Len(w)
  BY <1>4
<1>7. PICK want : want = w \o v
  OBVIOUS
<1>8. /\ want \in Seq(S) /\ Len(want) = m + Len(v)
      /\ \A j \in 1 .. Len(v) : want[m + j] = v[j]
      /\ \A j \in 1 .. m : want[j] = w[j]
  BY <1>4, <1>6, <1>7, ConcatIndex
<1>9. ASSUME NEW i \in 1 .. n, NEW j \in 1 .. Len(next[i].digests)
      PROVE  want[m + (c[i - 1] + j)] = EntryOf(next, i, j, TRUE)
  <2>1. next[i].digests \in Seq(LoggedDigests)
    <3>1. next[i] \in LoggedEvents
      BY <1>1
    <3> QED BY <3>1 DEF LoggedEvents
  <2>2. PICK x, y, d \in Nat : x = c[i - 1] /\ y = c[n] /\ d = Len(next[i].digests) /\ x + d <= y
    <3>1. i - 1 \in 0 .. n /\ i \in 0 .. n /\ n \in 0 .. n /\ i <= n
      BY <1>5
    <3>2. c[i] <= c[n] /\ c[i - 1] \in Nat /\ c[n] \in Nat /\ c[i] = c[i - 1] + Len(next[i].digests)
      BY <3>1, <1>5
    <3>3. Len(next[i].digests) \in Nat
      BY <2>1
    <3> QED BY <3>2, <3>3
  <2>3. j \in 1 .. d
    BY <2>2
  <2>4. x + j \in 1 .. y
    BY <2>2, <2>3, IndexInside
  <2>5. want[m + (x + j)] = v[x + j]
    BY <2>2, <2>4, <1>5, <1>8
  <2> QED BY <2>2, <2>5, <1>5
<1>10. Stream(b, next, TRUE, want, m) /\ Reaches(b, next)
  <2>1. /\ \E T : want \in Seq(T)
        /\ Len(want) = m + EntAt(next, TRUE)[Len(next)]
        /\ \A i \in 1 .. Len(next) : \A j \in 1 .. Len(next[i].digests) :
             want[m + (EntAt(next, TRUE)[i - 1] + j)] = EntryOf(next, i, j, TRUE)
    BY <1>1, <1>5, <1>8, <1>9
  <2>2. KnownAlgorithms(next) /\ Holds(b, next)
    BY <1>1 DEF Holds
  <2>3. TRUE \in BOOLEAN
    OBVIOUS
  <2> QED BY <2>1, <2>2, <2>3, <1>3, StreamOf
<1>11. z \in Nat /\ Len(EncodeAll(next)) = z
  BY <1>1, RecordLayout
<1>12. size' \in Nat /\ (q <= alloc => size' = alloc - q)
  <2>1. alloc - q \in Int
    OBVIOUS
  <2>2. UintRange \in Nat
    BY EventLogAssumption
  <2>3. q <= alloc => 0 <= alloc - q /\ alloc - q < UintRange
    BY <2>2
  <2> QED BY <2>1, <2>3, WrapNat
<1>13. ASSUME q + z <= alloc PROVE SizeFits(b, next)' /\ SizeEnds(b, next)'
  <2>1. PICK s \in Nat : s = size' /\ s = alloc - q
    BY <1>11, <1>12, <1>13
  <2>2. SizeFits(b, next)'
    <3>1. s >= z
      BY <2>1, <1>11, <1>13
    <3>2. size' >= RecAt(next)[Len(next)]
      BY <3>1, <2>1, <1>1
    <3> QED BY <3>2, <1>12, SizeReaches
  <2>3. SizeEnds(b, next)'
    <3>1. s <= l
      BY <2>1, <1>2
    <3>2. size' <= Len(b)
      BY <3>1, <2>1, <1>2
    <3> QED BY <3>2, <1>3, <1>12, SizeStops
  <2> QED BY <2>2, <2>3
<1>14. ASSUME q < Len(heap) /\ next = << >> PROVE SizeFits(b, next)' /\ SizeEnds(b, next)'
  <2>1. SizeFits(b, next)'
    BY <1>12, <1>14, SizeReaches
  <2>2. SizeEnds(b, next)'
    <3>1. RecAt(next)[Len(next)] = 0
      BY <1>14, RecordLayout
    <3>2. b # << >> /\ Drop(b, 0) = b
      <4>1. l # 0
        BY <1>2, <1>14
      <4>2. b # << >>
        BY <4>1, <1>2
      <4>3. Drop(b, 0) = b
        BY <1>3 DEF Drop
      <4> QED BY <4>2, <4>3
    <3> QED BY <3>1, <3>2 DEF SizeEnds
  <2> QED BY <2>1, <2>2
<1>15. SizeFits(b, next)' /\ SizeEnds(b, next)'
  BY <1>11, <1>13, <1>14
<1>16. Follows(entries, want, Reaches(b, next))
  <2>1. Len(entries) = m /\ \A i \in 1 .. m : /\ entries[i].pcr = w[i].pcr /\ entries[i].bank = w[i].bank
                                              /\ Untagged(entries[i].event) = Untagged(w[i].event)
                                              /\ entries[i] = w[i]
    BY <1>1, <1>6 DEF Follows
  <2>2. Len(entries) <= Len(want)
    <3>1. PICK y \in Nat : y = Len(v)
      BY <1>4
    <3>2. m <= m + y
      OBVIOUS
    <3> QED BY <3>1, <3>2, <2>1, <1>8
  <2> QED BY <2>1, <2>2, <1>8 DEF Follows
<1>17. Reading(b, next, TRUE, want, m, entries)'
  <2>1. Len(entries) = m /\ buf' = b /\ Tracks(logs', entries)
    BY <1>1, <1>6
  <2> QED BY <2>1, <1>10, <1>16, LoopBegins
<1>18. WholeLoop(b, next, TRUE, want, m)'
  BY <1>10, <1>12, <1>15, <1>17 DEF WholeLoop, Loop
<1> QED BY <1>1, <1>6, <1>7, <1>18

-----------------------------------------------------------------------------
(* The parser of the application log.                                       *)

\* n lines are read.
AppReading(lines, n) ==
  n \in 0 .. Len(lines) /\ buf = Drop(lines, n) /\ Tracks(logs, SubSeq(AppEntries, 1, n))

AppLoop == \E n \in Nat : AppReading(host.app.lines, n)

LEMMA AppEntry ==
  ASSUME NEW lines \in Seq(AppLines), host.app.lines = lines, NEW n \in 1 .. Len(lines)
  PROVE  /\ IsSeq(AppEntries) /\ Len(AppEntries) = Len(lines)
         /\ SubSeq(AppEntries, 1, n)
            = Append(SubSeq(AppEntries, 1, n - 1),
                     [pcr |-> lines[n].pcr, bank |-> lines[n].bank, event |-> AppEvent(lines[n])])
<1>E. PICK E : E = AppEntries
  OBVIOUS
<1>1. PICK l \in Nat : l = Len(lines) /\ DOMAIN lines = 1 .. l /\ E = AppEntries
  BY <1>E
<1>2. PICK S : S = {[pcr |-> x.pcr, bank |-> x.bank, event |-> AppEvent(x)] : x \in AppLines}
  OBVIOUS
<1>3. ASSUME NEW i \in 1 .. l
      PROVE  E[i] = [pcr |-> lines[i].pcr, bank |-> lines[i].bank, event |-> AppEvent(lines[i])]
  BY <1>1 DEF AppEntries
<1>4. E \in [1 .. l -> S]
  <2>1. \A i \in 1 .. l : lines[i] \in AppLines
    BY <1>1
  <2>2. E = [i \in 1 .. l |-> [pcr |-> lines[i].pcr, bank |-> lines[i].bank,
                               event |-> AppEvent(lines[i])]]
    BY <1>1 DEF AppEntries
  <2>3. \A i \in 1 .. l : [pcr |-> lines[i].pcr, bank |-> lines[i].bank,
                           event |-> AppEvent(lines[i])] \in S
    BY <2>1, <1>2
  <2> QED BY <2>2, <2>3
<1>5. E \in Seq(S) /\ Len(E) = l
  BY <1>4, SeqDef
<1>6. SubSeq(E, 1, n) = Append(SubSeq(E, 1, n - 1), E[n])
  <2>1. n \in 1 .. Len(E)
    BY <1>1, <1>5
  <2> QED BY <2>1, <1>5
<1> QED BY <1>1, <1>3, <1>5, <1>6 DEF IsSeq

\* A line is read, or it is one that measure_host does not write.
LEMMA AppStep ==
  ASSUME NEW lines \in Seq(AppLines), host.app.lines = lines, NEW n \in Nat,
         AppReading(lines, n), AppLine
  PROVE  \/ (ParserFails \/ Panic) /\ ~ AppIntact
         \/ pc' = "line" /\ UNCHANGED Aside /\ AppReading(lines, n + 1)'
<1>1. pc = "line" /\ buf # << >>
  BY DEF AppLine
<1>2. PICK l \in Nat : l = Len(lines)
  OBVIOUS
<1>3. n < l /\ buf = Drop(lines, n)
  <2>1. Drop(lines, n) # << >> /\ buf = Drop(lines, n)
    BY <1>1 DEF AppReading
  <2> QED BY <2>1, <1>2, DropProps
<1>4. PICK i \in 1 .. l : i = n + 1 /\ i - 1 = n
  BY <1>3
<1>5. PICK line \in AppLines : line = lines[i]
  BY <1>2, <1>4
<1>6. Head(buf) = line /\ Tail(buf) = Drop(lines, i)
  <2>1. PICK b : b = Drop(lines, n) /\ b \in Seq(AppLines) /\ Len(b) = l - n
    <3>1. n <= Len(lines)
      BY <1>2, <1>3
    <3>2. Drop(lines, n) \in Seq(AppLines) /\ Len(Drop(lines, n)) = Len(lines) - n
      BY <3>1, DropProps
    <3> QED BY <3>2, <1>2
  <2>2. b[1] = line
    <3>1. 1 \in 1 .. Len(lines) - n
      BY <1>2, <1>3
    <3>2. Drop(lines, n)[1] = lines[n + 1]
      BY <3>1, DropProps
    <3> QED BY <3>2, <2>1, <1>4, <1>5
  <2>3. Tail(b) = Drop(b, 1)
    <3>1. b # << >>
      BY <2>1, <1>3
    <3> QED BY <3>1, <2>1 DEF Drop
  <2>4. Drop(b, 1) = Drop(lines, i)
    BY <2>1, <1>4, DropDrop
  <2>5. Head(b) = b[1]
    BY <2>1, <1>1, <1>3, HeadSeq
  <2> QED BY <2>1, <2>2, <2>3, <2>4, <2>5, <1>3
<1>7. AppIntact => line.fields >= 4 /\ line.number
  <2>1. i \in DOMAIN lines
    BY <1>2
  <2> QED BY <2>1, <1>5 DEF AppIntact
<1>8. line.fields \in Nat /\ line.number \in BOOLEAN /\ line.pcr \in Nat /\ line.bank \in Nat
  BY <1>5 DEF AppLines
<1>9. CASE line.fields >= 2 /\ ~line.number /\ ParserFails
  BY <1>7, <1>9
<1>10. CASE (line.fields < 2 \/ (line.number /\ line.fields < 4)) /\ Panic
  <2>1. \A x \in Nat : x < 2 \/ x < 4 => ~ (x >= 4)
    OBVIOUS
  <2> QED BY <2>1, <1>7, <1>8, <1>10
<1>11. CASE /\ logs' = AddEvent(logs, line.pcr, line.bank, AppEvent(line))
            /\ buf' = Tail(buf)
            /\ UNCHANGED <<host, pc, parser, size, offset, index501, rec, second, eventLogs,
                           measureLog>>
  <2>1. PICK E : E = AppEntries
    OBVIOUS
  <2>2. AppEntries' = E
    BY <2>1, <1>11 DEF AppEntries
  <2>3. Tracks(logs, SubSeq(E, 1, n))
    BY <2>1 DEF AppReading
  <2>4. SubSeq(E, 1, i) = Append(SubSeq(E, 1, n), [pcr |-> line.pcr, bank |-> line.bank,
                                                   event |-> AppEvent(line)])
    <3>1. i \in 1 .. Len(lines)
      BY <1>2
    <3> QED BY <3>1, <2>1, <1>4, <1>5, AppEntry
  <2>5. Tracks(logs', SubSeq(E, 1, i))
    BY <2>3, <2>4, <1>8, <1>11, TracksAppend
  <2>6. i \in 0 .. Len(lines) /\ buf' = Drop(lines, i)
    BY <1>2, <1>6, <1>11
  <2>7. AppReading(lines, i)'
    BY <2>2, <2>5, <2>6 DEF AppReading
  <2>8. pc' = "line" /\ UNCHANGED Aside
    BY <1>1, <1>11 DEF Aside
  <2> QED BY <2>7, <2>8, <1>4
<1> QED BY <1>6, <1>9, <1>10, <1>11 DEF AppLine

\* Every line was read.
LEMMA AppRead ==
  ASSUME NEW lines \in Seq(AppLines), host.app.lines = lines, NEW n \in Nat,
         AppReading(lines, n), buf = << >>
  PROVE  Tracks(logs, AppEntries)
<1>E. PICK E : E = AppEntries
  OBVIOUS
<1>1. PICK l \in Nat : l = Len(lines) /\ E = AppEntries
  BY <1>E
<1>2. n = l
  <2>1. Drop(lines, n) = << >> /\ n \in 0 .. l
    BY <1>1 DEF AppReading
  <2>2. n <= Len(lines)
    BY <2>1, <1>1
  <2>3. Len(Drop(lines, n)) = Len(lines) - n
    BY <2>2, DropProps
  <2>4. l - n = 0
    BY <2>1, <2>3, <1>1
  <2> QED BY <2>1, <2>4
<1>3. Tracks(logs, SubSeq(E, 1, l))
  BY <1>1, <1>2 DEF AppReading
<1>4. CASE l = 0
  <2>1. E = << >>
    <3>1. DOMAIN lines = {}
      <4>1. DOMAIN lines = 1 .. l
        BY <1>1
      <4>2. 1 .. 0 = {}
        OBVIOUS
      <4> QED BY <4>1, <4>2, <1>4
    <3>2. E = [i \in {} |-> E[i]]
      BY <3>1, <1>1 DEF AppEntries
    <3> QED BY <3>2
  <2>2. SubSeq(E, 1, l) = E
    BY <2>1, <1>4
  <2> QED BY <2>2, <1>1, <1>3
<1>5. CASE l # 0
  <2>1. l \in 1 .. Len(lines)
    BY <1>1, <1>5
  <2>2. IsSeq(E) /\ Len(E) = l
    BY <2>1, <1>1, AppEntry
  <2>3. SubSeq(E, 1, l) = E
    BY <2>2 DEF IsSeq
  <2> QED BY <2>3, <1>1, <1>3
<1> QED BY <1>4, <1>5

-----------------------------------------------------------------------------
(* The aggregate parser.                                                    *)

\* What getTxtEventLog reads of the TXT log holds the records, to their ends.
TxtArea == Take(Drop(Heap, FirstEventLogOffset), host.txt.allocated)

TxtRead ==
  \/ /\ host.txt.source = "file"
     /\ Whole(Heap) /\ Holds(Body(Heap), host.txt.events)
  \/ /\ host.txt.source = "memory"
     /\ FirstEventLogOffset + host.txt.allocated <= Len(Heap)
     /\ Whole(TxtArea) /\ Holds(Body(TxtArea), host.txt.events)
     /\ \/ host.txt.next = 0 /\ host.txt.nextEvents = << >>
        \/ /\ host.txt.next # 0
           /\ \/ /\ NextEventLogOffset + Len(EncodeAll(host.txt.nextEvents))
                     <= host.txt.allocated
              \/ NextEventLogOffset < Len(Heap) /\ host.txt.nextEvents = << >>
           /\ Holds(Drop(Heap, NextEventLogOffset), host.txt.nextEvents)

\* The groups that a parser left behind.
UefiDone(groups) ==
  /\ UefiIntact => Tracks(groups, UefiEntries)
  /\ UefiIntact \/ UefiCutOff => \A g \in ToSet(groups) : SelectsPrefix(g, UefiEntries)
  /\ host.uefi.source = "missing" => groups = << >>

TxtDone(groups) ==
  /\ TxtRead => Tracks(groups, TxtEntriesRestarted)
  /\ host.txt.source = "missing" => groups = << >>

AppDone(groups) ==
  /\ groups = << >> \/ Tracks(groups, AppEntries)
  /\ AppIntact => Tracks(groups, AppEntries)

\* The groups of the parsers that have ended, one after the other.
GatheredAs(A, B, C) ==
  /\ IsSeq(A) /\ IsSeq(B) /\ IsSeq(C) /\ eventLogs = A \o (B \o C)
  /\ IF parser = "uefi" THEN A = << >> ELSE UefiDone(A)
  /\ IF parser \in {"uefi", "txt"} THEN B = << >> ELSE TxtDone(B)
  /\ IF parser \in {"uefi", "txt", "app"} THEN C = << >> ELSE AppDone(C)

Gathered == \E A, B, C : GatheredAs(A, B, C)

TxtMem == host.txt.source = "memory"

\* What the loop reads.
UefiInput(cells, events, want) ==
  cells = Body(UefiArea) /\ events = host.uefi.events /\ want = UefiEntries

TxtInput(cells, events, txt, want, base) ==
  IF second
  THEN /\ cells = Drop(Heap, NextEventLogOffset) /\ events = host.txt.nextEvents
       /\ txt = TRUE /\ want = TxtEntriesRestarted /\ base = Len(Entries(host.txt.events, TRUE, 0))
  ELSE /\ cells = Body(IF TxtMem THEN TxtArea ELSE Heap) /\ events = host.txt.events
       /\ txt = TxtMem /\ want = Entries(host.txt.events, TxtMem, 0) /\ base = 0

UefiLoop ==
  parser = "uefi" /\ (UefiIntact \/ UefiCutOff) =>
    \E cells, events, want :
      /\ UefiInput(cells, events, want) /\ Loop(cells, events, FALSE, want, 0)
      /\ UefiIntact => WholeLoop(cells, events, FALSE, want, 0)

TxtLoop ==
  parser = "txt" /\ TxtRead =>
    \E cells, events, txt, want, base :
      /\ TxtInput(cells, events, txt, want, base)
      /\ WholeLoop(cells, events, txt, want, base)

Control ==
  /\ host \in Hosts /\ parser \in {"uefi", "txt", "app", "none"} /\ second \in BOOLEAN
  /\ pc \in {"open", "line", "write", "done", "panicked"} \cup LoopPcs
  /\ pc = "open" => parser # "none" /\ logs = << >> /\ ~second
  /\ pc \in LoopPcs =>
       /\ parser \in {"uefi", "txt"} /\ IsSeq(logs)
       /\ parser = "uefi" => ~second /\ host.uefi.source # "missing"
       /\ parser = "txt" => /\ host.txt.source # "missing"
                            /\ second => TxtMem /\ host.txt.next # 0
  /\ pc = "line" => parser = "app" /\ host.app.source = "file"
  /\ pc \in {"write", "done"} => parser = "none"

NothingTorn ==
  /\ UefiIntact \/ host.uefi.source = "missing"
  /\ TxtRead \/ host.txt.source = "missing"
  /\ AppIntact \/ host.app.source = "missing"
  /\ ~UnreadableData

Written ==
  IF pc = "done" /\ eventLogs # << >> THEN measureLog = eventLogs ELSE measureLog = Old

EventLogInv ==
  /\ Control /\ Gathered /\ Written
  /\ pc \in LoopPcs => UefiLoop /\ TxtLoop
  /\ pc = "line" => AppLoop
  /\ pc = "panicked" => ~NothingTorn

LEMMA HostFixed ==
  ASSUME host' = host
  PROVE  /\ UefiIntact' = UefiIntact /\ UefiCutOff' = UefiCutOff
         /\ UefiEntries' = UefiEntries /\ UefiArea' = UefiArea
         /\ TxtRead' = TxtRead /\ TxtEntriesRestarted' = TxtEntriesRestarted /\ TxtMem' = TxtMem
         /\ Heap' = Heap /\ TxtArea' = TxtArea /\ NextEventLogOffset' = NextEventLogOffset
         /\ AppIntact' = AppIntact /\ AppEntries' = AppEntries
<1>1. UefiArea' = UefiArea /\ UefiEntries' = UefiEntries
  BY DEF UefiArea, UefiEntries
<1>2. UefiIntact' = UefiIntact /\ UefiCutOff' = UefiCutOff
  BY <1>1 DEF UefiIntact, UefiCutOff
<1>3. /\ Heap' = Heap /\ TxtArea' = TxtArea /\ NextEventLogOffset' = NextEventLogOffset
      /\ FirstEventLogOffset' = FirstEventLogOffset /\ TxtMem' = TxtMem
  BY DEF Heap, TxtArea, NextEventLogOffset, FirstEventLogOffset, TxtMem
<1>4. TxtRead' = TxtRead /\ TxtEntriesRestarted' = TxtEntriesRestarted
  BY <1>3 DEF TxtRead, TxtEntriesRestarted, TxtEntriesFrom
<1>5. AppIntact' = AppIntact /\ AppEntries' = AppEntries
  BY DEF AppIntact, AppEntries
<1> QED BY <1>1, <1>2, <1>3, <1>4, <1>5

LEMMA DoneFixed ==
  ASSUME host' = host, NEW groups
  PROVE  /\ UefiDone(groups)' = UefiDone(groups) /\ TxtDone(groups)' = TxtDone(groups)
         /\ AppDone(groups)' = AppDone(groups) /\ NothingTorn' = NothingTorn
<1>1. /\ UefiIntact' = UefiIntact /\ UefiCutOff' = UefiCutOff /\ UefiEntries' = UefiEntries
      /\ TxtRead' = TxtRead /\ TxtEntriesRestarted' = TxtEntriesRestarted
      /\ AppIntact' = AppIntact /\ AppEntries' = AppEntries
  BY HostFixed
<1>2. UnreadableData' = UnreadableData
  BY DEF UnreadableData
<1> QED BY <1>1, <1>2 DEF UefiDone, TxtDone, AppDone, NothingTorn

\* Nothing has been gathered from a parser that has not ended.
LEMMA GatheredNext ==
  ASSUME NEW A, NEW B, NEW G, IsSeq(A), IsSeq(B), IsSeq(G)
  PROVE  /\ (<< >> \o (<< >> \o << >>)) \o G = G \o (<< >> \o << >>)
         /\ (A \o (<< >> \o << >>)) \o G = A \o (G \o << >>)
         /\ (A \o (B \o << >>)) \o G = A \o (B \o G)
<1>1. PICK S : A \in Seq(S) /\ B \in Seq(S) /\ G \in Seq(S)
  <2>1. PICK T, U, V : A \in Seq(T) /\ B \in Seq(U) /\ G \in Seq(V)
    BY DEF IsSeq
  <2>2. PICK S : S = T \cup (U \cup V)
    OBVIOUS
  <2>3. A \in Seq(S) /\ B \in Seq(S) /\ G \in Seq(S)
    <3>1. T \subseteq S /\ U \subseteq S /\ V \subseteq S
      BY <2>2
    <3> QED BY <3>1, <2>1, SeqMonotonic
  <2> QED BY <2>3
<1>2. << >> \in Seq(S)
  OBVIOUS
<1>3. << >> \o << >> = << >> /\ << >> \o G = G /\ G \o << >> = G /\ A \o << >> = A /\ B \o << >> = B
  BY <1>1, <1>2, ConcatEmptySeq
<1>4. (A \o B) \o G = A \o (B \o G)
  BY <1>1, ConcatAssociative
<1> QED BY <1>3, <1>4

\* A parser ends, with these groups.
LEMMA ParserDone ==
  ASSUME Control, Gathered, measureLog = Old, NEW G, IsSeq(G), ParserEnds(G),
         parser # "none",
         parser = "uefi" => UefiDone(G), parser = "txt" => TxtDone(G),
         parser = "app" => AppDone(G)
  PROVE  EventLogInv'
<1>1. PICK A, B, C : GatheredAs(A, B, C)
  BY DEF Gathered
<1>2. host' = host /\ measureLog' = measureLog /\ eventLogs' = eventLogs \o G
      /\ parser' = NextParser[parser] /\ pc' = (IF parser = "app" THEN "write" ELSE "open")
      /\ second' = FALSE /\ logs' = << >>
  BY DEF ParserEnds
<1>3. parser \in {"uefi", "txt", "app"}
  BY DEF Control
<1>4. /\ parser = "uefi" => parser' = "txt" /\ pc' = "open"
      /\ parser = "txt" => parser' = "app" /\ pc' = "open"
      /\ parser = "app" => parser' = "none" /\ pc' = "write"
  BY <1>2 DEF NextParser
<1>5. /\ \A D : UefiDone(D)' = UefiDone(D)
      /\ \A D : TxtDone(D)' = TxtDone(D)
      /\ \A D : AppDone(D)' = AppDone(D)
  BY <1>2, DoneFixed
<1>6. IsSeq(<< >>)
  <2>1. << >> \in Seq({})
    OBVIOUS
  <2> QED BY <2>1 DEF IsSeq
<1>7. CASE parser = "uefi"
  <2>1. eventLogs = << >> \o (<< >> \o << >>)
    BY <1>1, <1>7 DEF GatheredAs
  <2>2. eventLogs' = G \o (<< >> \o << >>)
    BY <2>1, <1>2, <1>6, GatheredNext
  <2>3. GatheredAs(G, << >>, << >>)'
    BY <2>2, <1>4, <1>5, <1>6, <1>7 DEF GatheredAs
  <2> QED BY <2>3, <1>2, <1>4, <1>7 DEF EventLogInv, Control, Gathered, Written, LoopPcs
<1>8. CASE parser = "txt"
  <2>1. eventLogs = A \o (<< >> \o << >>) /\ IsSeq(A) /\ UefiDone(A)
    BY <1>1, <1>8 DEF GatheredAs
  <2>2. eventLogs' = A \o (G \o << >>)
    BY <2>1, <1>2, <1>6, GatheredNext
  <2>3. GatheredAs(A, G, << >>)'
    BY <2>1, <2>2, <1>4, <1>5, <1>6, <1>8 DEF GatheredAs
  <2> QED BY <2>3, <1>2, <1>4, <1>8 DEF EventLogInv, Control, Gathered, Written, LoopPcs
<1>9. CASE parser = "app"
  <2>1. eventLogs = A \o (B \o << >>) /\ IsSeq(A) /\ UefiDone(A) /\ IsSeq(B) /\ TxtDone(B)
    BY <1>1, <1>9 DEF GatheredAs
  <2>2. eventLogs' = A \o (B \o G)
    BY <2>1, <1>2, <1>6, GatheredNext
  <2>3. GatheredAs(A, B, G)'
    BY <2>1, <2>2, <1>4, <1>5, <1>6, <1>9 DEF GatheredAs
  <2> QED BY <2>3, <1>2, <1>4, <1>9 DEF EventLogInv, Control, Gathered, Written, LoopPcs
<1> QED BY <1>3, <1>7, <1>8, <1>9

LEMMA GatheredFixed ==
  ASSUME Gathered, host' = host, parser' = parser, eventLogs' = eventLogs
  PROVE  Gathered'
<1>1. PICK A, B, C : GatheredAs(A, B, C)
  BY DEF Gathered
<1>2. /\ \A D : UefiDone(D)' = UefiDone(D)
      /\ \A D : TxtDone(D)' = TxtDone(D)
      /\ \A D : AppDone(D)' = AppDone(D)
  BY DoneFixed
<1>3. GatheredAs(A, B, C)'
  BY <1>1, <1>2 DEF GatheredAs
<1> QED BY <1>3 DEF Gathered

LEMMA Panicked ==
  ASSUME Control, Gathered, measureLog = Old, Panic, ~NothingTorn
  PROVE  EventLogInv'
<1>1. /\ pc' = "panicked" /\ host' = host /\ parser' = parser /\ second' = second
      /\ eventLogs' = eventLogs /\ measureLog' = measureLog
  BY DEF Panic
<1>2. Gathered'
  BY <1>1, GatheredFixed
<1>3. ~NothingTorn'
  BY <1>1, DoneFixed
<1>4. Control' /\ Written'
  BY <1>1 DEF Control, Written, LoopPcs
<1> QED BY <1>1, <1>2, <1>3, <1>4 DEF EventLogInv, LoopPcs

LEMMA InputFixed ==
  ASSUME host' = host, second' = second, NEW cells, NEW events, NEW txt, NEW want, NEW base
  PROVE  /\ UefiInput(cells, events, want)' = UefiInput(cells, events, want)
         /\ TxtInput(cells, events, txt, want, base)' = TxtInput(cells, events, txt, want, base)
<1>1. /\ UefiEntries' = UefiEntries /\ UefiArea' = UefiArea
      /\ TxtEntriesRestarted' = TxtEntriesRestarted /\ TxtMem' = TxtMem
      /\ Heap' = Heap /\ TxtArea' = TxtArea /\ NextEventLogOffset' = NextEventLogOffset
  BY HostFixed
<1> QED BY <1>1 DEF UefiInput, TxtInput

LEMMA LoopInput ==
  ASSUME NEW cells, NEW events, NEW txt, NEW want, NEW base,
         Loop(cells, events, txt, want, base), TxtEnabled = txt, LoopAction
  PROVE  \/ /\ pc' \in LoopPcs /\ UNCHANGED Aside /\ IsSeq(logs')
            /\ Loop(cells, events, txt, want, base)'
            /\ WholeLoop(cells, events, txt, want, base)
               => WholeLoop(cells, events, txt, want, base)'
         \/ ParserFails /\ ~ WholeLoop(cells, events, txt, want, base)
         \/ Panic /\ (WholeLoop(cells, events, txt, want, base) => PanicsOn(events, txt))
<1>1. /\ Stream(cells, events, txt, want, base) /\ size \in Nat /\ SizeFits(cells, events)
      /\ \E entries : Reading(cells, events, txt, want, base, entries)
  BY DEF Loop
<1>2. PICK entries : Reading(cells, events, txt, want, base, entries)
  BY <1>1
<1>3. \/ /\ pc' \in LoopPcs /\ UNCHANGED Aside
         /\ \E more : Reading(cells, events, txt, want, base, more)'
      \/ /\ ParserFails
         /\ SizeEnds(cells, events) => ~ Reaches(cells, events)
      \/ Panic /\ (Reaches(cells, events) => PanicsOn(events, txt))
  BY <1>1, <1>2, LoopStep
<1>4. CASE /\ pc' \in LoopPcs /\ UNCHANGED Aside
           /\ \E more : Reading(cells, events, txt, want, base, more)'
  <2>1. size' = size
    BY <1>4 DEF Aside
  <2>2. SizeFits(cells, events)' /\ (SizeEnds(cells, events) => SizeEnds(cells, events)')
    BY <2>1, <1>1 DEF SizeFits, SizeEnds
  <2>3. Loop(cells, events, txt, want, base)'
    BY <2>1, <2>2, <1>1, <1>4 DEF Loop
  <2>4. IsSeq(logs')
    <3>1. PICK more : Reading(cells, events, txt, want, base, more)'
      BY <1>4
    <3>2. Tracks(logs', more)
      BY <3>1 DEF Reading
    <3> QED BY <3>2 DEF Tracks, IsSeq
  <2> QED BY <2>2, <2>3, <2>4, <1>4 DEF WholeLoop
<1>5. CASE /\ ParserFails
           /\ SizeEnds(cells, events) => ~ Reaches(cells, events)
  BY <1>5 DEF WholeLoop
<1>6. CASE Panic /\ (Reaches(cells, events) => PanicsOn(events, txt))
  BY <1>6 DEF WholeLoop
<1> QED BY <1>3, <1>4, <1>5, <1>6

\* The loop goes on, with the aggregate as it was.
LEMMA LoopKept ==
  ASSUME EventLogInv, pc \in LoopPcs, pc' \in LoopPcs, UNCHANGED Aside, IsSeq(logs'),
         (UefiLoop /\ TxtLoop)'
  PROVE  EventLogInv'
<1>1. /\ host' = host /\ parser' = parser /\ second' = second
      /\ eventLogs' = eventLogs /\ measureLog' = measureLog
  BY DEF Aside
<1>2. Gathered'
  BY <1>1, GatheredFixed DEF EventLogInv
<1>3. pc # "done" /\ pc' \notin {"open", "line", "write", "done", "panicked"}
  BY DEF LoopPcs
<1>4. Written'
  BY <1>1, <1>3 DEF EventLogInv, Written
<1>5. TxtMem' = TxtMem
  BY <1>1, HostFixed
<1>6. Control'
  BY <1>1, <1>3, <1>5 DEF EventLogInv, Control
<1> QED BY <1>2, <1>3, <1>4, <1>6 DEF EventLogInv

LEMMA HostTyped ==
  ASSUME host \in Hosts
  PROVE  /\ host.uefi.source \in {"memory", "file", "missing"}
         /\ host.uefi.cells \in Seq(Nat) /\ Len(host.uefi.cells) < UintRange
         /\ host.uefi.size \in 0 .. Len(host.uefi.cells)
         /\ host.txt.source \in {"memory", "file", "missing"}
         /\ host.txt.cells \in Seq(Nat) /\ Len(host.txt.cells) < UintRange
         /\ host.txt.base \in Nat /\ host.txt.first \in Nat /\ host.txt.next \in Nat
         /\ host.txt.allocated \in 0 .. UintRange - 1
         /\ \A log \in {host.uefi.events, host.txt.events, host.txt.nextEvents} :
              log \in Seq(LoggedEvents) /\ \A i \in DOMAIN log : WellFormed(log[i])
         /\ host.app.source \in {"file", "missing"}
         /\ host.app.lines \in Seq(AppLines)
BY EventLogAssumption

LEMMA LoopActionInv ==
  ASSUME EventLogInv, LoopAction
  PROVE  EventLogInv'
<1>1. /\ Control /\ Gathered /\ Written
      /\ pc \in LoopPcs => UefiLoop /\ TxtLoop
  BY DEF EventLogInv
<1>2. pc \in LoopPcs
  BY DEF LoopAction, ReadRecord, ReadDigest, ReadEvent, ReadFails, PublishEvent, LoopEnds, LoopPcs
<1>3. measureLog = Old
  BY <1>1, <1>2 DEF Written, LoopPcs
<1>4. /\ parser \in {"uefi", "txt"} /\ IsSeq(logs)
      /\ parser = "uefi" => host.uefi.source # "missing"
      /\ parser = "txt" => /\ host.txt.source # "missing"
                           /\ second => TxtMem /\ host.txt.next # 0
  BY <1>1, <1>2 DEF Control
<1>5. \/ pc' \in LoopPcs /\ UNCHANGED Aside /\ IsSeq(logs')
      \/ ParserFails
      \/ Panic
  BY <1>4, LoopFrame
<1>6. IsSeq(<< >>) /\ ToSet(<< >>) = {}
  <2>1. << >> \in Seq({})
    OBVIOUS
  <2> QED BY <2>1 DEF IsSeq, ToSet
<1>7. UNCHANGED Aside => host' = host /\ parser' = parser /\ second' = second
  BY DEF Aside
<1>8. CASE parser = "uefi"
  <2>1. ASSUME ~UefiIntact PROVE UefiDone(<< >>) /\ ~NothingTorn
    BY <2>1, <1>4, <1>6, <1>8 DEF UefiDone, NothingTorn
  <2>2. CASE UefiIntact \/ UefiCutOff
    <3>1. PICK cells, events, want :
            /\ UefiInput(cells, events, want) /\ Loop(cells, events, FALSE, want, 0)
            /\ UefiIntact => WholeLoop(cells, events, FALSE, want, 0)
      BY <2>2, <1>1, <1>2, <1>8 DEF UefiLoop
    <3>2. TxtEnabled = FALSE
      BY <1>8 DEF TxtEnabled
    <3>3. \/ /\ pc' \in LoopPcs /\ UNCHANGED Aside /\ IsSeq(logs')
             /\ Loop(cells, events, FALSE, want, 0)'
             /\ WholeLoop(cells, events, FALSE, want, 0)
                => WholeLoop(cells, events, FALSE, want, 0)'
          \/ ParserFails /\ ~ WholeLoop(cells, events, FALSE, want, 0)
          \/ Panic /\ (WholeLoop(cells, events, FALSE, want, 0) => PanicsOn(events, FALSE))
      BY <3>1, <3>2, LoopInput
    <3>4. CASE /\ pc' \in LoopPcs /\ UNCHANGED Aside /\ IsSeq(logs')
               /\ Loop(cells, events, FALSE, want, 0)'
               /\ WholeLoop(cells, events, FALSE, want, 0)
                  => WholeLoop(cells, events, FALSE, want, 0)'
      <4>1. host' = host /\ parser' = parser /\ second' = second
        BY <3>4, <1>7
      <4>2. UefiInput(cells, events, want)' /\ UefiIntact' = UefiIntact
        BY <4>1, <3>1, InputFixed, HostFixed
      <4>3. UefiLoop' /\ TxtLoop'
        BY <4>1, <4>2, <3>1, <3>4, <1>8 DEF UefiLoop, TxtLoop
      <4> QED BY <4>3, <3>4, <1>2, LoopKept
    <3>5. CASE ParserFails /\ ~ WholeLoop(cells, events, FALSE, want, 0)
      <4>1. ~UefiIntact
        BY <3>1, <3>5
      <4> QED BY <4>1, <3>5, <2>1, <1>1, <1>3, <1>6, <1>8, ParserDone DEF ParserFails
    <3>6. CASE Panic /\ (WholeLoop(cells, events, FALSE, want, 0) => PanicsOn(events, FALSE))
      <4>1. ~NothingTorn
        <5>1. CASE ~UefiIntact
          BY <5>1, <2>1
        <5>2. CASE UefiIntact
          <6>1. PanicsOn(host.uefi.events, FALSE)
            BY <5>2, <3>1, <3>6 DEF UefiInput
          <6> QED BY <6>1 DEF PanicsOn, NothingTorn, UnreadableData
        <5> QED BY <5>1, <5>2
      <4> QED BY <4>1, <3>6, <1>1, <1>3, Panicked
    <3> QED BY <3>3, <3>4, <3>5, <3>6
  <2>3. CASE ~ (UefiIntact \/ UefiCutOff)
    <3>1. CASE ParserFails
      BY <2>3, <3>1, <2>1, <1>1, <1>3, <1>6, <1>8, ParserDone DEF ParserFails
    <3>2. CASE Panic
      BY <2>3, <3>2, <2>1, <1>1, <1>3, Panicked
    <3>3. CASE pc' \in LoopPcs /\ UNCHANGED Aside /\ IsSeq(logs')
      <4>1. host' = host /\ parser' = parser /\ second' = second
        BY <3>3, <1>7
      <4>2. UefiIntact' = UefiIntact /\ UefiCutOff' = UefiCutOff
        BY <4>1, HostFixed
      <4>3. UefiLoop' /\ TxtLoop'
        BY <4>1, <4>2, <2>3, <1>8 DEF UefiLoop, TxtLoop
      <4> QED BY <4>3, <3>3, <1>2, LoopKept
    <3> QED BY <1>5, <3>1, <3>2, <3>3
  <2> QED BY <2>2, <2>3
<1>9. CASE parser = "txt"
  <2>1. ASSUME ~TxtRead PROVE TxtDone(<< >>) /\ ~NothingTorn
    BY <2>1, <1>4, <1>9 DEF TxtDone, NothingTorn
  <2>2. CASE TxtRead
    <3>1. PICK cells, events, txt, want, base :
            /\ TxtInput(cells, events, txt, want, base)
            /\ WholeLoop(cells, events, txt, want, base)
      BY <2>2, <1>1, <1>2, <1>9 DEF TxtLoop
    <3>2. TxtEnabled = txt
      <4>1. txt = TxtMem /\ txt \in BOOLEAN
        BY <3>1, <1>4, <1>9 DEF TxtInput, TxtMem
      <4> QED BY <4>1, <1>9 DEF TxtEnabled, TxtMem
    <3>3. \/ /\ pc' \in LoopPcs /\ UNCHANGED Aside /\ IsSeq(logs')
             /\ WholeLoop(cells, events, txt, want, base)'
          \/ Panic /\ PanicsOn(events, txt)
      <4>1. Loop(cells, events, txt, want, base)
        BY <3>1 DEF WholeLoop
      <4> QED BY <4>1, <3>1, <3>2, LoopInput
    <3>4. CASE /\ pc' \in LoopPcs /\ UNCHANGED Aside /\ IsSeq(logs')
               /\ WholeLoop(cells, events, txt, want, base)'
      <4>1. host' = host /\ parser' = parser /\ second' = second
        BY <3>4, <1>7
      <4>2. TxtInput(cells, events, txt, want, base)'
        BY <4>1, <3>1, InputFixed
      <4>3. UefiLoop' /\ TxtLoop'
        BY <3>4, <4>1, <4>2, <1>9 DEF UefiLoop, TxtLoop
      <4> QED BY <3>4, <4>3, <1>2, LoopKept
    <3>5. CASE Panic /\ PanicsOn(events, txt)
      <4>1. ~ txt
        BY <3>5 DEF PanicsOn
      <4>2. events = host.txt.events /\ host.txt.source # "memory"
        BY <4>1, <3>1, <1>4, <1>9 DEF TxtInput, TxtMem
      <4>3. host.txt.source = "file"
        <5>1. host \in Hosts
          BY <1>1 DEF Control
        <5> QED BY <5>1, <4>2, <1>4, <1>9, HostTyped
      <4>4. ~NothingTorn
        BY <4>2, <4>3, <3>5 DEF PanicsOn, NothingTorn, UnreadableData
      <4> QED BY <4>4, <3>5, <1>1, <1>3, Panicked
    <3> QED BY <3>3, <3>4, <3>5
  <2>3. CASE ~TxtRead
    <3>1. CASE ParserFails
      BY <2>3, <3>1, <2>1, <1>1, <1>3, <1>6, <1>9, ParserDone DEF ParserFails
    <3>2. CASE Panic
      BY <2>3, <3>2, <2>1, <1>1, <1>3, Panicked
    <3>3. CASE pc' \in LoopPcs /\ UNCHANGED Aside /\ IsSeq(logs')
      <4>1. host' = host /\ parser' = parser /\ second' = second
        BY <3>3, <1>7
      <4>2. TxtRead' = TxtRead
        BY <4>1, HostFixed
      <4>3. UefiLoop' /\ TxtLoop'
        BY <4>1, <4>2, <2>3, <1>9 DEF UefiLoop, TxtLoop
      <4> QED BY <4>3, <3>3, <1>2, LoopKept
    <3> QED BY <1>5, <3>1, <3>2, <3>3
  <2> QED BY <2>2, <2>3
<1> QED BY <1>4, <1>8, <1>9

LEMMA TakeLen ==
  ASSUME NEW S, NEW s \in Seq(S), NEW n \in Nat, n <= Len(s)
  PROVE  Take(s, n) \in Seq(S) /\ Len(Take(s, n)) = n
BY DEF Take

\* A firmware log is opened.
LEMMA UefiOpened ==
  ASSUME EventLogInv, pc = "open", parser = "uefi", host.uefi.source # "missing",
         NEW area \in Seq(Nat), area = UefiArea, Len(area) < UintRange,
         parseTcgSpecEvent(area, Len(area))
  PROVE  EventLogInv'
<1>1. Control /\ Gathered /\ measureLog = Old /\ logs = << >> /\ ~second /\ host \in Hosts
  BY DEF EventLogInv, Control, Written
<1>2. PICK events \in Seq(LoggedEvents) :
         events = host.uefi.events /\ \A i \in DOMAIN events : WellFormed(events[i])
  BY <1>1, HostTyped
<1>3. PICK cells, want : cells = Body(area) /\ want = Entries(events, FALSE, 0)
  OBVIOUS
<1>4. IsSeq(<< >>) /\ ToSet(<< >>) = {}
  <2>1. << >> \in Seq({})
    OBVIOUS
  <2> QED BY <2>1 DEF IsSeq, ToSet
<1>5. \/ ParserFails /\ Len(area) < 4
      \/ /\ pc' = "record" /\ logs' = << >>
         /\ UNCHANGED <<host, parser, second, eventLogs, measureLog>>
         /\ \/ Whole(area) /\ Holds(cells, events)
            \/ KnownAlgorithms(events) /\ IsPrefix(cells, EncodeAll(events))
            => Loop(cells, events, FALSE, want, 0)'
         /\ Whole(area) /\ Holds(cells, events)
            => WholeLoop(cells, events, FALSE, want, 0)'
  BY <1>1, <1>2, <1>3, Opens
<1>6. CASE ParserFails /\ Len(area) < 4
  <2>1. ~UefiIntact
    BY <1>6 DEF UefiIntact, Whole
  <2>2. UefiDone(<< >>)
    BY <2>1, <1>4 DEF UefiDone
  <2> QED BY <2>2, <1>1, <1>4, <1>6, ParserDone DEF ParserFails
<1>7. CASE /\ pc' = "record" /\ logs' = << >>
           /\ UNCHANGED <<host, parser, second, eventLogs, measureLog>>
           /\ \/ Whole(area) /\ Holds(cells, events)
              \/ KnownAlgorithms(events) /\ IsPrefix(cells, EncodeAll(events))
              => Loop(cells, events, FALSE, want, 0)'
           /\ Whole(area) /\ Holds(cells, events)
              => WholeLoop(cells, events, FALSE, want, 0)'
  <2>1. UefiIntact' = UefiIntact /\ UefiCutOff' = UefiCutOff
    BY <1>7, HostFixed
  <2>2. /\ UefiIntact => Whole(area) /\ Holds(cells, events)
        /\ UefiCutOff => KnownAlgorithms(events) /\ IsPrefix(cells, EncodeAll(events))
    BY <1>2, <1>3 DEF UefiIntact, UefiCutOff
  <2>3. UefiInput(cells, events, want)
    BY <1>2, <1>3 DEF UefiInput, UefiEntries
  <2>4. UefiInput(cells, events, want)'
    BY <2>3, <1>7, InputFixed
  <2>5. UefiLoop' /\ TxtLoop'
    BY <2>1, <2>2, <2>4, <1>7 DEF UefiLoop, TxtLoop
  <2>6. Gathered'
    BY <1>1, <1>7, GatheredFixed
  <2>7. Control' /\ Written'
    BY <1>1, <1>4, <1>7 DEF Control, Written, LoopPcs
  <2> QED BY <2>5, <2>6, <2>7, <1>7 DEF EventLogInv, LoopPcs
<1> QED BY <1>5, <1>6, <1>7

LEMMA TxtOpened ==
  ASSUME EventLogInv, pc = "open", parser = "txt", host.txt.source # "missing",
         NEW area \in Seq(Nat), area = IF TxtMem THEN TxtArea ELSE Heap, Len(area) < UintRange,
         parseTcgSpecEvent(area, Len(area))
  PROVE  EventLogInv'
<1>1. Control /\ Gathered /\ measureLog = Old /\ logs = << >> /\ ~second /\ host \in Hosts
  BY DEF EventLogInv, Control, Written
<1>2. PICK events \in Seq(LoggedEvents) :
         events = host.txt.events /\ \A i \in DOMAIN events : WellFormed(events[i])
  BY <1>1, HostTyped
<1>3. PICK cells, txt, want : cells = Body(area) /\ txt = TxtMem /\ want = Entries(events, txt, 0)
  OBVIOUS
<1>4. IsSeq(<< >>) /\ txt \in BOOLEAN
  <2>1. << >> \in Seq({})
    OBVIOUS
  <2> QED BY <2>1, <1>3 DEF IsSeq, TxtMem
<1>5. \/ ParserFails /\ Len(area) < 4
      \/ /\ pc' = "record" /\ logs' = << >>
         /\ UNCHANGED <<host, parser, second, eventLogs, measureLog>>
         /\ Whole(area) /\ Holds(cells, events)
            => WholeLoop(cells, events, txt, want, 0)'
  BY <1>1, <1>2, <1>3, <1>4, Opens
<1>6. TxtRead => Whole(area) /\ Holds(cells, events)
  BY <1>2, <1>3 DEF TxtRead, TxtMem
<1>7. CASE ParserFails /\ Len(area) < 4
  <2>1. ~TxtRead
    BY <1>6, <1>7 DEF Whole
  <2>2. TxtDone(<< >>)
    BY <2>1 DEF TxtDone
  <2> QED BY <2>2, <1>1, <1>4, <1>7, ParserDone DEF ParserFails
<1>8. CASE /\ pc' = "record" /\ logs' = << >>
           /\ UNCHANGED <<host, parser, second, eventLogs, measureLog>>
           /\ Whole(area) /\ Holds(cells, events)
              => WholeLoop(cells, events, txt, want, 0)'
  <2>1. TxtRead' = TxtRead
    BY <1>8, HostFixed
  <2>2. TxtInput(cells, events, txt, want, 0)
    BY <1>1, <1>2, <1>3 DEF TxtInput
  <2>3. TxtInput(cells, events, txt, want, 0)'
    BY <2>2, <1>8, InputFixed
  <2>4. UefiLoop' /\ TxtLoop'
    BY <2>1, <2>3, <1>6, <1>8 DEF UefiLoop, TxtLoop
  <2>5. Gathered'
    BY <1>1, <1>8, GatheredFixed
  <2>6. Control' /\ Written'
    BY <1>1, <1>4, <1>8 DEF Control, Written, LoopPcs
  <2> QED BY <2>4, <2>5, <2>6, <1>8 DEF EventLogInv, LoopPcs
<1> QED BY <1>5, <1>7, <1>8

LEMMA OpenInv ==
  ASSUME EventLogInv,
         \/ \E p \in {"uefi", "txt"} : host[p].source = "file" /\ OpenFile(p, host[p].cells)
         \/ OpenUefi \/ UefiMissing \/ OpenTxt \/ TxtMissing
  PROVE  EventLogInv'
<1>1. Control /\ Gathered /\ Written /\ host \in Hosts
  BY DEF EventLogInv, Control
<1>2. IsSeq(<< >>) /\ ToSet(<< >>) = {}
  <2>1. << >> \in Seq({})
    OBVIOUS
  <2> QED BY <2>1 DEF IsSeq, ToSet
<1>3. UintRange \in Nat
  BY EventLogAssumption
<1>4. CASE host.uefi.source = "file" /\ OpenFile("uefi", host.uefi.cells)
  <2>1. pc = "open" /\ parser = "uefi"
    BY <1>4 DEF OpenFile, At
  <2>2. PICK area \in Seq(Nat) : area = host.uefi.cells /\ Len(area) < UintRange
    BY <1>1, HostTyped
  <2>3. area = UefiArea
    BY <2>2, <1>4 DEF UefiArea
  <2>4. Wrap(Len(area)) = Len(area)
    BY <2>2, WrapNat
  <2>5. parseTcgSpecEvent(area, Len(area))
    <3>1. parseTcgSpecEvent(area, Wrap(Len(area)))
      BY <2>2, <1>4 DEF OpenFile, parseTcgSpecEvent
    <3> QED BY <3>1, <2>4 DEF parseTcgSpecEvent
  <2> QED BY <2>1, <2>2, <2>3, <2>5, <1>4, UefiOpened
<1>5. CASE host.txt.source = "file" /\ OpenFile("txt", host.txt.cells)
  <2>1. pc = "open" /\ parser = "txt"
    BY <1>5 DEF OpenFile, At
  <2>2. PICK area \in Seq(Nat) : area = host.txt.cells /\ Len(area) < UintRange
    BY <1>1, HostTyped
  <2>3. area = IF TxtMem THEN TxtArea ELSE Heap
    BY <2>2, <1>5 DEF TxtMem, Heap
  <2>4. Wrap(Len(area)) = Len(area)
    BY <2>2, WrapNat
  <2>5. parseTcgSpecEvent(area, Len(area))
    <3>1. parseTcgSpecEvent(area, Wrap(Len(area)))
      BY <2>2, <1>5 DEF OpenFile, parseTcgSpecEvent
    <3> QED BY <3>1, <2>4 DEF parseTcgSpecEvent
  <2> QED BY <2>1, <2>2, <2>3, <2>5, <1>5, TxtOpened
<1>6. CASE OpenUefi
  <2>1. pc = "open" /\ parser = "uefi" /\ host.uefi.source = "memory"
    BY <1>6 DEF OpenUefi, At
  <2>2. PICK all \in Seq(Nat), n \in Nat :
          all = host.uefi.cells /\ n = host.uefi.size /\ n <= Len(all) /\ Len(all) < UintRange
    BY <1>1, HostTyped
  <2>3. PICK area : area = Take(all, n)
    OBVIOUS
  <2>4. area \in Seq(Nat) /\ Len(area) = n
    BY <2>2, <2>3, TakeLen
  <2>5. area = UefiArea /\ Len(area) < UintRange
    BY <2>1, <2>2, <2>3, <2>4, <1>3 DEF UefiArea
  <2>6. parseTcgSpecEvent(area, Len(area))
    BY <2>2, <2>3, <2>4, <1>6 DEF OpenUefi, parseTcgSpecEvent
  <2> QED BY <2>1, <2>4, <2>5, <2>6, UefiOpened
<1>7. CASE OpenTxt
  <2>1. pc = "open" /\ parser = "txt" /\ host.txt.source = "memory"
    BY <1>7 DEF OpenTxt, At
  <2>2. PICK heap \in Seq(Nat), n \in Nat, p \in Nat :
          /\ heap = Heap /\ n = host.txt.allocated /\ p = FirstEventLogOffset
          /\ n < UintRange
    <3>1. /\ host.txt.cells \in Seq(Nat) /\ host.txt.base \in Nat /\ host.txt.first \in Nat
          /\ host.txt.allocated \in 0 .. UintRange - 1
      BY <1>1, HostTyped
    <3>2. host.txt.base + host.txt.first \in Nat
      BY <3>1
    <3>3. host.txt.allocated \in Nat /\ host.txt.allocated < UintRange
      BY <3>1, <1>3
    <3> QED BY <3>1, <3>2, <3>3 DEF Heap, FirstEventLogOffset
  <2>3. PICK area : area = Take(Drop(heap, p), n)
    OBVIOUS
  <2>4. CASE p + n > Len(heap) /\ Panic
    <3>1. PICK l \in Nat : l = Len(heap)
      BY <2>2
    <3>2. ~ (p + n <= l)
      BY <3>1, <2>4
    <3>3. ~TxtRead
      BY <3>1, <3>2, <2>1, <2>2 DEF TxtRead
    <3>4. ~NothingTorn
      BY <3>3, <2>1 DEF NothingTorn
    <3>5. measureLog = Old
      BY <2>1, <1>1 DEF Written
    <3> QED BY <2>4, <3>4, <3>5, <1>1, Panicked
  <2>5. CASE p + n <= Len(heap) /\ parseTcgSpecEvent(area, n)
    <3>1. p <= Len(heap)
      BY <2>2, <2>5
    <3>2. Drop(heap, p) \in Seq(Nat) /\ Len(Drop(heap, p)) = Len(heap) - p
      BY <3>1, <2>2, DropProps
    <3>3. n <= Len(Drop(heap, p))
      BY <3>2, <2>2, <2>5
    <3>4. area \in Seq(Nat) /\ Len(area) = n
      BY <3>2, <3>3, <2>2, <2>3, TakeLen
    <3>5. area = IF TxtMem THEN TxtArea ELSE Heap
      BY <2>1, <2>2, <2>3 DEF TxtMem, TxtArea
    <3>6. parseTcgSpecEvent(area, Len(area)) /\ Len(area) < UintRange
      BY <3>4, <2>2, <2>5
    <3> QED BY <3>4, <3>5, <3>6, <2>1, TxtOpened
  <2>6. (p + n <= Len(heap) /\ parseTcgSpecEvent(area, n)) \/ (p + n > Len(heap) /\ Panic)
    BY <2>2, <2>3, <1>7 DEF OpenTxt, parseTcgSpecEvent
  <2> QED BY <2>4, <2>5, <2>6
<1>8. CASE UefiMissing
  <2>1. pc = "open" /\ parser = "uefi" /\ host.uefi.source = "missing" /\ ParserFails
    BY <1>8 DEF UefiMissing, At
  <2>2. UefiDone(<< >>)
    BY <2>1, <1>2 DEF UefiDone, UefiIntact
  <2>3. measureLog = Old
    BY <2>1, <1>1 DEF Written
  <2> QED BY <2>1, <2>2, <2>3, <1>1, <1>2, ParserDone DEF ParserFails
<1>9. CASE TxtMissing
  <2>1. pc = "open" /\ parser = "txt" /\ host.txt.source = "missing" /\ ParserFails
    BY <1>9 DEF TxtMissing, At
  <2>2. TxtDone(<< >>)
    BY <2>1 DEF TxtDone, TxtRead
  <2>3. measureLog = Old
    BY <2>1, <1>1 DEF Written
  <2> QED BY <2>1, <2>2, <2>3, <1>1, <1>2, ParserDone DEF ParserFails
<1> QED BY <1>4, <1>5, <1>6, <1>7, <1>8, <1>9

\* The loop over a log that is whole has published all of it.
LEMMA WholeLoopDone ==
  ASSUME NEW cells, NEW events, NEW txt, NEW want, NEW base,
         WholeLoop(cells, events, txt, want, base), pc = "parsed"
  PROVE  \E entries : /\ Tracks(logs, entries) /\ Follows(entries, want, TRUE)
                      /\ Len(entries) = Len(want) /\ entries = want
<1>1. Loop(cells, events, txt, want, base) /\ Reaches(cells, events)
  BY DEF WholeLoop
<1>2. PICK entries : Reading(cells, events, txt, want, base, entries)
  BY <1>1 DEF Loop
<1>3. /\ Tracks(logs, entries) /\ Follows(entries, want, TRUE)
      /\ Len(entries) = Len(want)
  BY <1>1, <1>2 DEF Reading
<1>4. PICK S : want \in Seq(S)
  BY <1>1 DEF Loop, Stream
<1>5. PICK T : entries \in Seq(T)
  BY <1>3 DEF Tracks
<1>6. entries = want
  <2>1. want \in Seq(S \cup T)
    BY <1>4, SeqMonotonic
  <2>2. entries \in Seq(S \cup T)
    BY <1>5, SeqMonotonic
  <2> QED BY <2>1, <2>2, <1>3, FollowsAll
<1> QED BY <1>3, <1>6

LEMMA OpenNextInv ==
  ASSUME EventLogInv, OpenTxtNext
  PROVE  EventLogInv'
<1>1. pc = "parsed" /\ parser = "txt" /\ TxtMem /\ ~second /\ host.txt.next # 0
  BY DEF OpenTxtNext, TxtMem
<1>2. Control /\ Gathered /\ TxtLoop /\ measureLog = Old /\ host \in Hosts /\ IsSeq(logs)
  BY <1>1 DEF EventLogInv, Control, Written, LoopPcs
<1>3. PICK heap \in Seq(Nat), q \in Nat, alloc \in 0 .. UintRange - 1, p \in Nat :
         /\ heap = Heap /\ q = NextEventLogOffset /\ alloc = host.txt.allocated
         /\ p = FirstEventLogOffset
  <2>1. /\ host.txt.cells \in Seq(Nat) /\ host.txt.base \in Nat /\ host.txt.first \in Nat
        /\ host.txt.next \in Nat /\ host.txt.allocated \in 0 .. UintRange - 1
    BY <1>2, HostTyped
  <2>2. host.txt.base + host.txt.first \in Nat /\ host.txt.base + host.txt.next \in Nat
    <3>1. PICK x, y, z \in Nat : x = host.txt.base /\ y = host.txt.first /\ z = host.txt.next
      BY <2>1
    <3>2. x + y \in Nat /\ x + z \in Nat
      OBVIOUS
    <3> QED BY <3>1, <3>2
  <2> QED BY <2>1, <2>2 DEF Heap, NextEventLogOffset, FirstEventLogOffset
<1>4. PICK first \in Seq(LoggedEvents), next \in Seq(LoggedEvents) :
         /\ first = host.txt.events /\ next = host.txt.nextEvents
         /\ \A i \in DOMAIN next : WellFormed(next[i])
  BY <1>2, HostTyped
<1>5. PICK l \in Nat, e \in Nat : l = Len(heap) /\ e = Len(EncodeAll(next))
  BY RecordLayout
<1>6. ASSUME TxtRead
      PROVE  /\ alloc <= l /\ q <= l /\ Holds(Drop(heap, q), next)
             /\ q + e <= alloc \/ (q < l /\ next = << >>)
  <2>1. UintRange \in Nat
    BY EventLogAssumption
  <2>2. /\ p + alloc <= l /\ Holds(Drop(heap, q), next)
        /\ q + e <= alloc \/ (q < l /\ next = << >>)
    BY <1>1, <1>3, <1>4, <1>5, <1>6 DEF TxtRead, TxtMem
  <2>3. alloc <= l /\ q <= l
    BY <2>1, <2>2
  <2> QED BY <2>2, <2>3
<1>7. CASE q > l /\ Panic
  <2>1. ~TxtRead
    BY <1>6, <1>7
  <2>2. ~NothingTorn
    BY <2>1, <1>1 DEF NothingTorn, TxtMem
  <2> QED BY <2>2, <1>2, <1>7, Panicked
<1>8. CASE /\ buf' = Drop(heap, q) /\ size' = Wrap(alloc - q)
           /\ offset' = 0 /\ index501' = 0 /\ rec' = NoRecord /\ second' = TRUE
           /\ pc' = "record" /\ UNCHANGED <<host, parser, logs, eventLogs, measureLog>>
  <2>1. PICK w, v : w = Entries(first, TRUE, 0) /\ v = Entries(next, TRUE, 0)
    OBVIOUS
  <2>2. ASSUME TxtRead
        PROVE  WholeLoop(Drop(heap, q), next, TRUE, w \o v, Len(w))'
    <3>1. PICK cells, events, txt, want, base :
            /\ TxtInput(cells, events, txt, want, base)
            /\ WholeLoop(cells, events, txt, want, base)
      BY <2>2, <1>1, <1>2 DEF TxtLoop
    <3>2. want = w
      BY <3>1, <2>1, <1>1, <1>4 DEF TxtInput
    <3>3. PICK entries : /\ Tracks(logs, entries) /\ Follows(entries, w, TRUE)
                         /\ Len(entries) = Len(w)
      BY <3>1, <3>2, <1>1, WholeLoopDone
    <3>4. /\ alloc <= Len(heap) /\ q <= Len(heap) /\ Holds(Drop(heap, q), next)
          /\ q + Len(EncodeAll(next)) <= alloc \/ (q < Len(heap) /\ next = << >>)
      BY <2>2, <1>5, <1>6
    <3>5. logs' = logs
      BY <1>8
    <3>6. WholeLoop(Drop(heap, q), next, TRUE,
                    Entries(first, TRUE, 0) \o Entries(next, TRUE, 0),
                    Len(Entries(first, TRUE, 0)))'
      BY <3>3, <3>4, <3>5, <2>1, <1>4, <1>8, OpensNext
    <3> QED BY <3>6, <2>1
  <2>3. PICK b, want, m : b = Drop(heap, q) /\ want = w \o v /\ m = Len(w)
    OBVIOUS
  <2>4. TxtEntriesRestarted = want
    BY <2>1, <2>3, <1>1, <1>4 DEF TxtEntriesRestarted, TxtEntriesFrom, TxtMem
  <2>5. /\ TxtEntriesRestarted' = TxtEntriesRestarted /\ Heap' = Heap /\ TxtRead' = TxtRead
        /\ NextEventLogOffset' = NextEventLogOffset /\ TxtMem' = TxtMem /\ host' = host
    BY <1>8, HostFixed
  <2>6. TxtInput(b, next, TRUE, want, m)'
    BY <2>1, <2>3, <2>4, <2>5, <1>3, <1>4, <1>8 DEF TxtInput
  <2>7. UefiLoop' /\ TxtLoop'
    BY <2>2, <2>3, <2>5, <2>6, <1>1, <1>8 DEF UefiLoop, TxtLoop
  <2>8. Gathered'
    BY <1>2, <1>8, GatheredFixed
  <2>9. Control' /\ Written'
    BY <2>5, <1>1, <1>2, <1>8 DEF Control, Written, LoopPcs, TxtMem
  <2> QED BY <2>7, <2>8, <2>9, <1>8 DEF EventLogInv, LoopPcs
<1> QED BY <1>3, <1>5, <1>7, <1>8 DEF OpenTxtNext

\* A parser returns its groups.
LEMMA ReturnInv ==
  ASSUME EventLogInv, ParserReturns
  PROVE  EventLogInv'
<1>1. pc = "parsed" /\ ParserEnds(logs)
      /\ ~(parser = "txt" /\ TxtMem /\ ~second /\ host.txt.next # 0)
  BY DEF ParserReturns, TxtMem
<1>2. /\ Control /\ Gathered /\ UefiLoop /\ TxtLoop /\ measureLog = Old /\ host \in Hosts
      /\ IsSeq(logs) /\ parser \in {"uefi", "txt"}
      /\ parser = "uefi" => host.uefi.source # "missing"
      /\ parser = "txt" => /\ host.txt.source # "missing"
                           /\ second => TxtMem /\ host.txt.next # 0
  BY <1>1 DEF EventLogInv, Control, Written, LoopPcs
<1>3. PICK G : G = logs
  OBVIOUS
<1>4. ParserEnds(G)
  BY <1>1, <1>3 DEF ParserEnds
<1>5. CASE parser = "uefi"
  <2>1. ASSUME UefiIntact \/ UefiCutOff
        PROVE  /\ UefiIntact => Tracks(G, UefiEntries)
               /\ \A g \in ToSet(G) : SelectsPrefix(g, UefiEntries)
    <3>1. PICK cells, events, want :
            /\ UefiInput(cells, events, want) /\ Loop(cells, events, FALSE, want, 0)
            /\ UefiIntact => WholeLoop(cells, events, FALSE, want, 0)
      BY <2>1, <1>2, <1>5 DEF UefiLoop
    <3>2. want = UefiEntries
      BY <3>1 DEF UefiInput
    <3>3. UefiIntact => Tracks(G, want)
      BY <3>1, <1>1, <1>3, WholeLoopDone
    <3>4. PICK entries : Reading(cells, events, FALSE, want, 0, entries)
      BY <3>1 DEF Loop
    <3>5. Tracks(G, entries) /\ Follows(entries, want, Reaches(cells, events))
      BY <3>4, <1>3 DEF Reading
    <3>6. \E Ev : want \in Seq(Entry(Ev))
      <4>1. host.uefi.events \in Seq(LoggedEvents) /\ FALSE \in BOOLEAN
        BY <1>2, HostTyped
      <4> QED BY <4>1, <3>2, EntriesLayout DEF UefiEntries
    <3>7. \A g \in ToSet(G) : SelectsPrefix(g, want)
      BY <3>5, <3>6, FollowsPrefix
    <3> QED BY <3>2, <3>3, <3>7
  <2>2. UefiDone(G)
    BY <2>1, <1>2, <1>5 DEF UefiDone
  <2> QED BY <2>2, <1>2, <1>3, <1>4, <1>5, ParserDone
<1>6. CASE parser = "txt"
  <2>1. ASSUME TxtRead PROVE Tracks(G, TxtEntriesRestarted)
    <3>1. PICK cells, events, txt, want, base :
            /\ TxtInput(cells, events, txt, want, base)
            /\ WholeLoop(cells, events, txt, want, base)
      BY <2>1, <1>2, <1>6 DEF TxtLoop
    <3>2. Tracks(G, want)
      BY <3>1, <1>1, <1>3, WholeLoopDone
    <3>3. CASE second
      BY <3>1, <3>2, <3>3 DEF TxtInput
    <3>4. CASE ~second /\ ~TxtMem
      <4>1. host.txt.source = "file"
        BY <3>4, <2>1 DEF TxtRead, TxtMem
      <4>2. want = TxtEntriesRestarted
        BY <3>1, <3>4, <4>1 DEF TxtInput, TxtEntriesRestarted, TxtEntriesFrom, TxtMem
      <4> QED BY <3>2, <4>2
    <3>5. CASE ~second /\ TxtMem
      <4>1. host.txt.next = 0
        BY <3>5, <1>1, <1>6
      <4>2. host.txt.nextEvents = << >>
        BY <3>5, <4>1, <2>1 DEF TxtRead, TxtMem
      <4>3. Entries(<< >>, TRUE, 0) = << >>
        <5>1. << >> \in Seq(LoggedEvents) /\ TRUE \in BOOLEAN
          OBVIOUS
        <5>2. /\ \E Ev : Entries(<< >>, TRUE, 0) \in Seq(Entry(Ev))
              /\ Len(Entries(<< >>, TRUE, 0)) = EntAt(<< >>, TRUE)[Len(<< >>)]
              /\ EntAt(<< >>, TRUE)[0] = 0
          BY <5>1, EntriesLayout
        <5>3. PICK W, S : W = Entries(<< >>, TRUE, 0) /\ W \in Seq(S) /\ Len(W) = 0
          BY <5>2
        <5>4. W = << >>
          BY <5>3, NoElements
        <5> QED BY <5>3, <5>4
      <4>4. PICK W, S : W = Entries(host.txt.events, TRUE, 0) /\ W \in Seq(S)
        <5>1. host.txt.events \in Seq(LoggedEvents) /\ TRUE \in BOOLEAN
          BY <1>2, HostTyped
        <5> QED BY <5>1, EntriesLayout
      <4>5. W \o << >> = W
        BY <4>4, ConcatEmptySeq
      <4>6. TxtEntriesRestarted = W
        BY <3>5, <4>2, <4>3, <4>4, <4>5 DEF TxtEntriesRestarted, TxtEntriesFrom, TxtMem
      <4>7. want = W
        BY <3>1, <3>5, <4>4 DEF TxtInput, TxtMem
      <4> QED BY <3>2, <4>6, <4>7
    <3> QED BY <3>3, <3>4, <3>5
  <2>2. TxtDone(G)
    BY <2>1, <1>2, <1>6 DEF TxtDone
  <2> QED BY <2>2, <1>2, <1>3, <1>4, <1>6, ParserDone
<1> QED BY <1>2, <1>5, <1>6

\* The application log.
LEMMA AppInv ==
  ASSUME EventLogInv, OpenApp \/ AppLine \/ AppEnds
  PROVE  EventLogInv'
<1>1. Control /\ Gathered /\ Written /\ host \in Hosts
  BY DEF EventLogInv, Control
<1>2. PICK lines \in Seq(AppLines) : lines = host.app.lines
  BY <1>1, HostTyped
<1>3. parser = "app" /\ pc \in {"open", "line"} /\ measureLog = Old
  <2>1. (pc = "open" /\ parser = "app") \/ pc = "line"
    BY DEF OpenApp, At, AppLine, AppEnds
  <2>2. parser = "app"
    BY <2>1, <1>1 DEF Control
  <2>3. measureLog = Old
    BY <2>1, <1>1 DEF Written
  <2> QED BY <2>1, <2>2, <2>3
<1>4. IsSeq(<< >>)
  <2>1. << >> \in Seq({})
    OBVIOUS
  <2> QED BY <2>1 DEF IsSeq
<1>5. ASSUME ~AppIntact, ParserFails PROVE EventLogInv'
  <2>1. AppDone(<< >>)
    BY <1>5 DEF AppDone
  <2> QED BY <2>1, <1>1, <1>3, <1>4, <1>5, ParserDone DEF ParserFails
<1>6. ASSUME pc' = "line", host.app.source = "file", AppLoop',
             UNCHANGED <<host, parser, second, eventLogs, measureLog>>
      PROVE  EventLogInv'
  <2>1. Gathered'
    BY <1>1, <1>6, GatheredFixed
  <2>2. Control' /\ Written'
    BY <1>1, <1>3, <1>6 DEF Control, Written, LoopPcs
  <2> QED BY <2>1, <2>2, <1>6 DEF EventLogInv, LoopPcs
<1>7. CASE OpenApp
  <2>1. CASE host.app.source = "missing" /\ ParserFails
    <3>1. ~AppIntact
      BY <2>1 DEF AppIntact
    <3> QED BY <2>1, <3>1, <1>5
  <2>2. CASE /\ host.app.source = "file" /\ buf' = host.app.lines /\ pc' = "line"
             /\ UNCHANGED <<host, parser, size, offset, index501, rec, second, logs, eventLogs,
                            measureLog>>
    <3>1. logs' = << >> /\ buf' = lines /\ host' = host
      <4>1. pc = "open"
        BY <1>7 DEF OpenApp, At
      <4> QED BY <4>1, <2>2, <1>1, <1>2 DEF Control
    <3>2. Drop(lines, 0) = lines /\ 0 \in 0 .. Len(lines)
      BY DEF Drop
    <3>3. SubSeq(AppEntries, 1, 0) = << >>
      BY SubSeqEmpty
    <3>4. AppEntries' = AppEntries
      BY <3>1, HostFixed
    <3>5. Tracks(logs', SubSeq(AppEntries', 1, 0))
      BY <3>1, <3>3, <3>4, TracksEmpty
    <3>6. AppReading(lines, 0)'
      BY <3>1, <3>2, <3>5 DEF AppReading
    <3>7. AppLoop'
      BY <3>1, <3>6, <1>2 DEF AppLoop
    <3> QED BY <3>7, <2>2, <1>6
  <2> QED BY <2>1, <2>2, <1>7 DEF OpenApp
<1>8. CASE AppLine \/ AppEnds
  <2>1. pc = "line" /\ host.app.source = "file" /\ AppLoop
    BY <1>1, <1>8 DEF AppLine, AppEnds, EventLogInv, Control
  <2>2. PICK n \in Nat : AppReading(lines, n)
    BY <2>1, <1>2 DEF AppLoop
  <2>3. CASE AppLine
    <3>1. CASE (ParserFails \/ Panic) /\ ~ AppIntact
      <4>1. CASE ParserFails
        BY <3>1, <4>1, <1>5
      <4>2. CASE Panic
        <5>1. ~NothingTorn
          BY <3>1, <2>1 DEF NothingTorn
        <5> QED BY <4>2, <5>1, <1>1, <1>3, Panicked
      <4> QED BY <3>1, <4>1, <4>2
    <3>2. CASE pc' = "line" /\ UNCHANGED Aside /\ AppReading(lines, n + 1)'
      <4>1. UNCHANGED <<host, parser, second, eventLogs, measureLog>>
        BY <3>2 DEF Aside
      <4>2. n + 1 \in Nat
        OBVIOUS
      <4>3. AppLoop'
        BY <3>2, <4>1, <4>2, <1>2 DEF AppLoop
      <4> QED BY <3>2, <4>1, <4>3, <2>1, <1>6
    <3> QED BY <3>1, <3>2, <2>2, <2>3, <1>2, AppStep
  <2>4. CASE AppEnds
    <3>1. buf = << >> /\ ParserEnds(logs)
      BY <2>4 DEF AppEnds
    <3>2. PICK G : G = logs
      OBVIOUS
    <3>3. ParserEnds(G)
      BY <3>1, <3>2 DEF ParserEnds
    <3>4. Tracks(G, AppEntries)
      BY <3>1, <3>2, <2>2, <1>2, AppRead
    <3>5. IsSeq(G) /\ AppDone(G)
      BY <3>4 DEF Tracks, IsSeq, AppDone
    <3> QED BY <3>3, <3>5, <1>1, <1>3, ParserDone
  <2> QED BY <2>3, <2>4, <1>8
<1> QED BY <1>7, <1>8

LEMMA WriteInv ==
  ASSUME EventLogInv, UpdateMeasureLog
  PROVE  EventLogInv'
<1>1. /\ pc = "write" /\ pc' = "done" /\ host' = host /\ parser' = parser
      /\ second' = second /\ eventLogs' = eventLogs /\ logs' = logs
      /\ measureLog' = IF eventLogs = << >> THEN measureLog ELSE eventLogs
  BY DEF UpdateMeasureLog
<1>2. Gathered'
  BY <1>1, GatheredFixed DEF EventLogInv
<1>3. measureLog = Old
  BY <1>1 DEF EventLogInv, Written
<1>4. Written'
  BY <1>1, <1>3 DEF Written
<1>5. Control'
  BY <1>1 DEF EventLogInv, Control, LoopPcs
<1> QED BY <1>1, <1>2, <1>4, <1>5 DEF EventLogInv, LoopPcs

LEMMA StutterInv ==
  ASSUME EventLogInv, UNCHANGED vars
  PROVE  EventLogInv'
<1>1. /\ host' = host /\ pc' = pc /\ parser' = parser /\ buf' = buf /\ size' = size
      /\ offset' = offset /\ index501' = index501 /\ rec' = rec /\ second' = second
      /\ logs' = logs /\ eventLogs' = eventLogs /\ measureLog' = measureLog
  BY DEF vars, parseVars
<1>2. Gathered'
  BY <1>1, GatheredFixed DEF EventLogInv
<1>3. NothingTorn' = NothingTorn
  BY <1>1, DoneFixed
<1>4. /\ UefiIntact' = UefiIntact /\ UefiCutOff' = UefiCutOff /\ TxtRead' = TxtRead
      /\ AppEntries' = AppEntries /\ TxtMem' = TxtMem
  BY <1>1, HostFixed
<1>5. ASSUME pc \in LoopPcs PROVE UefiLoop' /\ TxtLoop'
  <2>1. ASSUME NEW cells, NEW events, NEW txt, NEW want, NEW base
        PROVE  /\ UefiInput(cells, events, want) => UefiInput(cells, events, want)'
               /\ TxtInput(cells, events, txt, want, base)
                  => TxtInput(cells, events, txt, want, base)'
               /\ Loop(cells, events, txt, want, base)
                  => Loop(cells, events, txt, want, base)'
               /\ WholeLoop(cells, events, txt, want, base)
                  => WholeLoop(cells, events, txt, want, base)'
    <3>1. /\ UefiInput(cells, events, want) => UefiInput(cells, events, want)'
          /\ TxtInput(cells, events, txt, want, base)
             => TxtInput(cells, events, txt, want, base)'
      BY <1>1, InputFixed
    <3>2. ASSUME NEW entries, Reading(cells, events, txt, want, base, entries)
          PROVE  Reading(cells, events, txt, want, base, entries)'
      <4>1. ASSUME NEW k PROVE AtRecord(cells, events, k)' = AtRecord(cells, events, k)
        BY <1>1 DEF AtRecord
      <4>2. ASSUME NEW k, NEW j
            PROVE  AtDigest(cells, events, k, j) => AtDigest(cells, events, k, j)'
        BY <1>1 DEF AtDigest, HeaderRead
      <4>3. ASSUME NEW k, NEW j
            PROVE  AtPublish(cells, events, txt, k, j) => AtPublish(cells, events, txt, k, j)'
        BY <1>1, <4>1 DEF AtPublish, HeaderRead
      <4> QED BY <1>1, <3>2, <4>1, <4>2, <4>3 DEF Reading
    <3>3. Loop(cells, events, txt, want, base) => Loop(cells, events, txt, want, base)'
      BY <3>2, <1>1 DEF Loop, SizeFits
    <3>4. SizeEnds(cells, events) => SizeEnds(cells, events)'
      BY <1>1 DEF SizeEnds
    <3> QED BY <3>1, <3>3, <3>4 DEF WholeLoop
  <2>2. UefiLoop /\ TxtLoop
    BY <1>5 DEF EventLogInv
  <2>3. UefiLoop'
    BY <2>1, <2>2, <1>1, <1>4 DEF UefiLoop
  <2>4. TxtLoop'
    BY <2>1, <2>2, <1>1, <1>4 DEF TxtLoop
  <2> QED BY <2>3, <2>4
<1>6. ASSUME pc = "line" PROVE AppLoop'
  <2>1. AppLoop
    BY <1>6 DEF EventLogInv
  <2>l. PICK lines : lines = host.app.lines
    OBVIOUS
  <2>2. PICK n \in Nat : lines = host.app.lines /\ AppReading(lines, n)
    BY <2>1, <2>l DEF AppLoop
  <2>3. AppReading(lines, n)'
    BY <2>2, <1>1, <1>4 DEF AppReading
  <2> QED BY <2>2, <2>3, <1>1 DEF AppLoop
<1>7. Written'
  BY <1>1 DEF EventLogInv, Written
<1>8. Control'
  BY <1>1, <1>4 DEF EventLogInv, Control
<1> QED BY <1>1, <1>2, <1>3, <1>5, <1>6, <1>7, <1>8 DEF EventLogInv

LEMMA InitInv ==
  ASSUME Init
  PROVE  EventLogInv
<1>1. << >> \in Seq({})
  OBVIOUS
<1>2. IsSeq(<< >>)
  BY <1>1 DEF IsSeq
<1>3. << >> \o (<< >> \o << >>) = << >>
  BY <1>1, ConcatEmptySeq
<1>4. GatheredAs(<< >>, << >>, << >>)
  BY <1>2, <1>3 DEF GatheredAs, Init
<1>5. Control /\ Written
  BY DEF Init, Control, Written, LoopPcs
<1> QED BY <1>4, <1>5 DEF EventLogInv, Gathered, Init, LoopPcs

\* The invariant is inductive.
LEMMA StepInv ==
  ASSUME EventLogInv, [Next]_vars
  PROVE  EventLogInv'
<1>1. CASE \/ \E p \in {"uefi", "txt"} : host[p].source = "file" /\ OpenFile(p, host[p].cells)
           \/ OpenUefi \/ UefiMissing \/ OpenTxt \/ TxtMissing
  BY <1>1, OpenInv
<1>2. CASE OpenTxtNext
  BY <1>2, OpenNextInv
<1>3. CASE OpenApp \/ AppLine \/ AppEnds
  BY <1>3, AppInv
<1>4. CASE LoopAction
  BY <1>4, LoopActionInv
<1>5. CASE ParserReturns
  BY <1>5, ReturnInv
<1>6. CASE UpdateMeasureLog
  BY <1>6, WriteInv
<1>7. CASE UNCHANGED vars
  BY <1>7, StutterInv
<1> QED BY <1>1, <1>2, <1>3, <1>4, <1>5, <1>6, <1>7 DEF Next, LoopAction

LEMMA EventLogInvariant == Spec => []EventLogInv
<1>1. Init => EventLogInv
  BY InitInv
<1>2. EventLogInv /\ [Next]_vars => EventLogInv'
  BY StepInv
<1> QED BY <1>1, <1>2, PTL DEF Spec

-----------------------------------------------------------------------------
(* What measure-log.json holds.                                             *)

\* The parts of measure-log.json.
LEMMA WrittenParts ==
  ASSUME EventLogInv, pc = "done"
  PROVE  \E A, B, C, S :
           /\ A \in Seq(S) /\ B \in Seq(S) /\ C \in Seq(S) /\ eventLogs = A \o (B \o C)
           /\ UefiDone(A) /\ TxtDone(B) /\ AppDone(C)
           /\ eventLogs # << >> => measureLog = eventLogs
           /\ eventLogs = << >> => measureLog = Old
<1>1. Gathered /\ Written /\ parser = "none"
  BY DEF EventLogInv, Control
<1>2. PICK A, B, C : GatheredAs(A, B, C)
  BY <1>1 DEF Gathered
<1>3. /\ IsSeq(A) /\ IsSeq(B) /\ IsSeq(C) /\ eventLogs = A \o (B \o C)
      /\ UefiDone(A) /\ TxtDone(B) /\ AppDone(C)
  BY <1>1, <1>2 DEF GatheredAs
<1>4. PICK T, U, V : A \in Seq(T) /\ B \in Seq(U) /\ C \in Seq(V)
  BY <1>3 DEF IsSeq
<1>5. PICK S : S = T \cup (U \cup V)
  OBVIOUS
<1>6. A \in Seq(S) /\ B \in Seq(S) /\ C \in Seq(S)
  <2>1. T \subseteq S /\ U \subseteq S /\ V \subseteq S
    BY <1>5
  <2> QED BY <2>1, <1>4, SeqMonotonic
<1> QED BY <1>1, <1>3, <1>6 DEF Written

\* P is a run of consecutive elements of s; each part of a sequence of three is one.
IsRun(P, s) == \E i \in DOMAIN s : \E j \in i .. Len(s) : SubSeq(s, i, j) = P

LEMMA PartOf ==
  ASSUME NEW S, NEW A \in Seq(S), NEW B \in Seq(S), NEW C \in Seq(S), NEW P, P # << >>,
         P = A \/ P = B \/ P = C
  PROVE  A \o (B \o C) # << >> /\ IsRun(P, A \o (B \o C))
<1>1. PICK a, b, c \in Nat : a = Len(A) /\ b = Len(B) /\ c = Len(C)
  OBVIOUS
<1>2. PICK D, all : D = B \o C /\ all = A \o D
  OBVIOUS
<1>3. D \in Seq(S) /\ Len(D) = b + c
      /\ (\A j \in 1 .. b : D[j] = B[j]) /\ (\A j \in 1 .. c : D[b + j] = C[j])
  BY <1>1, <1>2, ConcatIndex
<1>4. all \in Seq(S) /\ Len(all) = a + (b + c)
      /\ (\A j \in 1 .. a : all[j] = A[j]) /\ (\A j \in 1 .. b + c : all[a + j] = D[j])
  BY <1>1, <1>2, <1>3, ConcatIndex
<1>5. PICK p, m \in Nat : /\ m = Len(P) /\ P \in Seq(S) /\ p + m <= a + (b + c) /\ m # 0
                          /\ \A j \in 1 .. m : all[p + j] = P[j]
  <2>1. CASE P = A
    <3>1. \A j \in 1 .. a : all[0 + j] = A[j]
      BY <1>4
    <3>2. 0 + a <= a + (b + c) /\ a # 0
      BY <2>1, <1>1, NoElements
    <3> QED BY <2>1, <3>1, <3>2, <1>1
  <2>2. CASE P = B
    <3>1. ASSUME NEW j \in 1 .. b PROVE all[a + j] = B[j]
      <4>1. j \in 1 .. b + c
        OBVIOUS
      <4> QED BY <4>1, <1>3, <1>4
    <3>2. a + b <= a + (b + c) /\ b # 0
      BY <2>2, <1>1, NoElements
    <3> QED BY <2>2, <3>1, <3>2, <1>1
  <2>3. CASE P = C
    <3>1. ASSUME NEW j \in 1 .. c PROVE all[(a + b) + j] = C[j]
      <4>1. b + j \in 1 .. b + c /\ a + (b + j) = (a + b) + j
        OBVIOUS
      <4>2. all[a + (b + j)] = D[b + j]
        BY <4>1, <1>4
      <4> QED BY <4>1, <4>2, <1>3
    <3>2. (a + b) + c <= a + (b + c) /\ c # 0 /\ a + b \in Nat
      BY <2>3, <1>1, NoElements
    <3> QED BY <2>3, <3>1, <3>2, <1>1
  <2> QED BY <2>1, <2>2, <2>3
<1>6. PICK n \in Nat : n = Len(all) /\ p + m <= n
  BY <1>4, <1>5
<1>7. PICK i, j \in Nat : i = p + 1 /\ j = p + m
  <2>1. p + 1 \in Nat /\ p + m \in Nat
    OBVIOUS
  <2> QED BY <2>1
<1>8. i \in 1 .. n /\ j \in i .. n
  BY <1>5, <1>6, <1>7
<1>9. SubSeq(all, i, j) = P
  <2>1. \A h \in i .. j : all[h] \in S
    BY <1>4, <1>6, <1>8
  <2>2. PICK Q : Q = SubSeq(all, i, j)
    OBVIOUS
  <2>3. /\ Q \in Seq(S) /\ Len(Q) = IF i <= j THEN (j - i) + 1 ELSE 0
        /\ \A h \in 1 .. (j - i) + 1 : Q[h] = all[(i + h) - 1]
    BY <2>1, <2>2, SubSeqProperties
  <2>4. i <= j /\ (j - i) + 1 = m
    BY <1>5, <1>7
  <2>5. Len(Q) = m /\ \A h \in 1 .. m : Q[h] = all[(i + h) - 1]
    BY <2>3, <2>4
  <2>6. ASSUME NEW h \in 1 .. m PROVE Q[h] = P[h]
    <3>1. (i + h) - 1 = p + h
      BY <1>5, <1>7
    <3> QED BY <3>1, <2>5, <1>5
  <2> QED BY <2>2, <2>3, <2>5, <2>6, <1>5, SeqEqual
<1>10. all # << >> /\ i \in DOMAIN all /\ j \in i .. Len(all)
  <2>1. n # 0 /\ DOMAIN all = 1 .. n
    BY <1>4, <1>6, <1>8
  <2> QED BY <2>1, <1>6, <1>8
<1>11. IsRun(P, all)
  BY <1>9, <1>10 DEF IsRun
<1> QED BY <1>2, <1>10, <1>11

\* The groups of a parser that tracked its entries are published.
LEMMA PartPublished ==
  ASSUME NEW S, NEW A \in Seq(S), NEW B \in Seq(S), NEW C \in Seq(S), NEW P,
         P = A \/ P = B \/ P = C, eventLogs = A \o (B \o C),
         eventLogs # << >> => measureLog = eventLogs, NEW entries, Tracks(P, entries)
  PROVE  Published(entries)
<1> SUFFICES ASSUME entries # << >>
             PROVE  \E i \in DOMAIN measureLog : \E j \in i .. Len(measureLog) :
                      Agrees(SubSeq(measureLog, i, j), entries)
  BY DEF Published
<1>1. P # << >> /\ Agrees(P, entries)
  BY TracksEvents DEF Tracks
<1>2. PICK all : all = A \o (B \o C)
  OBVIOUS
<1>3. all # << >> /\ IsRun(P, all)
  BY <1>1, <1>2, PartOf
<1>4. measureLog = all
  BY <1>2, <1>3
<1> QED BY <1>1, <1>3, <1>4 DEF IsRun

-----------------------------------------------------------------------------
(* A TXT log that is intact and covered is read as it is.                   *)

\* t goes on after s.
Extends(t, s) == Len(s) <= Len(t) /\ \A i \in 1 .. Len(s) : t[i] = s[i]

LEMMA DropExtends ==
  ASSUME NEW s \in Seq(Nat), NEW t \in Seq(Nat), NEW p \in Nat, p <= Len(s), Extends(t, s)
  PROVE  /\ Extends(Drop(t, p), Drop(s, p))
         /\ Len(Drop(s, p)) = Len(s) - p /\ Len(Drop(t, p)) = Len(t) - p
<1>1. PICK m \in Nat, n \in Nat : m = Len(s) /\ n = Len(t) /\ m <= n /\ p <= m
  BY DEF Extends
<1>2. Len(Drop(s, p)) = m - p /\ Len(Drop(t, p)) = n - p
  <2>1. p <= Len(s) /\ p <= Len(t)
    BY <1>1
  <2>2. Len(Drop(s, p)) = Len(s) - p
    BY <2>1, DropProps
  <2>3. Len(Drop(t, p)) = Len(t) - p
    BY <2>1, DropProps
  <2> QED BY <2>2, <2>3, <1>1
<1>3. ASSUME NEW i \in 1 .. m - p PROVE Drop(t, p)[i] = Drop(s, p)[i]
  <2>1. i \in 1 .. n - p /\ p + i \in 1 .. m
    BY <1>1
  <2>2. Drop(t, p)[i] = t[p + i] /\ Drop(s, p)[i] = s[p + i]
    BY <2>1, <1>1, DropProps
  <2> QED BY <2>1, <2>2, <1>1 DEF Extends
<1>4. m - p <= n - p
  BY <1>1
<1> QED BY <1>1, <1>2, <1>3, <1>4 DEF Extends

\* Cells after the log do not matter if something ends it before them.
LEMMA HoldsLonger ==
  ASSUME NEW cells \in Seq(Nat), NEW more \in Seq(Nat), NEW events \in Seq(LoggedEvents),
         Holds(cells, events), Extends(more, cells),
         Len(EncodeAll(events)) < Len(cells) \/ Len(more) = Len(cells)
  PROVE  Holds(more, events)
<1>1. PICK A \in Seq(Nat) : A = EncodeAll(events)
  BY RecordLayout
<1>2. PICK l \in Nat, c \in Nat, d \in Nat : l = Len(A) /\ c = Len(cells) /\ d = Len(more)
  OBVIOUS
<1>3. l <= c /\ c <= d /\ SubSeq(A, 1, l) = SubSeq(cells, 1, l) /\ Terminated(Drop(cells, l))
  BY <1>1, <1>2 DEF Holds, IsPrefix, Extends
<1>4. CASE d = c
  <2>1. \A i \in 1 .. c : more[i] = cells[i]
    BY <1>2 DEF Extends
  <2>2. more = cells
    BY <2>1, <1>2, <1>4, SeqEqual
  <2> QED BY <2>2
<1>5. CASE l < c
  <2>1. SubSeq(more, 1, l) = SubSeq(cells, 1, l)
    <3>1. \A i \in 1 .. l : more[i] = cells[i]
      BY <1>2, <1>3 DEF Extends
    <3> QED BY <3>1, <1>2, <1>3
  <2>2. IsPrefix(A, more)
    BY <2>1, <1>2, <1>3 DEF IsPrefix
  <2>3. PICK r \in Seq(Nat), s \in Seq(Nat) : r = Drop(cells, l) /\ s = Drop(more, l)
    BY DropProps
  <2>4. Len(r) = c - l /\ Len(s) = d - l /\ Extends(s, r)
    BY <2>3, <1>2, <1>3, DropExtends
  <2>5. r # << >>
    BY <2>4, <1>5
  <2>6. Terminated(s)
    <3>1. PICK m \in Nat, n \in Nat : m = Len(r) /\ n = Len(s) /\ m <= n /\ m >= 1
      BY <2>4, <2>5, <1>3, <1>5
    <3>2. s[1] = r[1] /\ (m >= 3 => s[3] = r[3])
      BY <3>1, <2>4 DEF Extends
    <3>3. r[1] > 23 \/ (m >= 3 /\ r[3] = 0)
      BY <3>1, <2>3, <2>5, <1>3 DEF Terminated
    <3>4. m >= 3 => n >= 3
      BY <3>1
    <3> QED BY <3>1, <3>2, <3>3, <3>4 DEF Terminated
  <2> QED BY <2>2, <2>3, <2>6, <1>1, <1>2 DEF Holds
<1> QED BY <1>1, <1>2, <1>4, <1>5

\* The cells of a container.
LEMMA ContainerCells ==
  ASSUME NEW heap \in Seq(Nat), NEW b \in Nat, NEW a \in Nat, b + a <= Len(heap)
  PROVE  LET C == SubSeq(heap, b + 1, b + a)
         IN C \in Seq(Nat) /\ Len(C) = a /\ Extends(Drop(heap, b), C)
<1>0. PICK C : C = SubSeq(heap, b + 1, b + a)
  OBVIOUS
<1>1. C \in Seq(Nat) /\ Len(C) = a /\ \A i \in 1 .. a : C[i] = heap[b + i]
  BY <1>0
<1>2. PICK h \in Nat : h = Len(heap) /\ b <= h /\ a <= h - b
  OBVIOUS
<1>3. Len(Drop(heap, b)) = h - b /\ \A i \in 1 .. h - b : Drop(heap, b)[i] = heap[b + i]
  BY <1>2, DropProps
<1>4. \A i \in 1 .. a : Drop(heap, b)[i] = C[i]
  <2>1. \A i \in 1 .. a : i \in 1 .. h - b
    BY <1>2
  <2> QED BY <2>1, <1>1, <1>3
<1>5. Extends(Drop(heap, b), C)
  BY <1>1, <1>2, <1>3, <1>4 DEF Extends
<1> QED BY <1>0, <1>1, <1>5

LEMMA FirstCells ==
  ASSUME NEW s \in Seq(Nat), NEW n \in Nat, n <= Len(s)
  PROVE  /\ SubSeq(s, 1, n) \in Seq(Nat) /\ Len(SubSeq(s, 1, n)) = n
         /\ \A i \in 1 .. n : SubSeq(s, 1, n)[i] = s[i]
OBVIOUS

\* The first record of an area is whole in a longer one, and what follows it too.
LEMMA WholeExtends ==
  ASSUME NEW F \in Seq(Nat), NEW T \in Seq(Nat), Extends(T, F), Whole(F)
  PROVE  /\ Whole(T) /\ F[4] \in Nat /\ 4 + F[4] <= Len(F)
         /\ Body(F) = Drop(F, 4 + F[4]) /\ Body(T) = Drop(T, 4 + F[4])
<1>1. PICK m \in Nat, n \in Nat : m = Len(F) /\ n = Len(T) /\ m <= n /\ m >= 4
  BY DEF Extends, Whole
<1>2. 4 \in 1 .. Len(F)
  BY <1>1
<1>3. F[4] \in Nat /\ T[4] = F[4]
  BY <1>2 DEF Extends
<1>4. PICK x \in Nat : x = F[4] /\ x = T[4]
  BY <1>3
<1>5. m >= 4 + x
  BY <1>1, <1>4 DEF Whole
<1>6. n >= 4 /\ n >= 4 + x
  BY <1>1, <1>5
<1>7. Whole(T)
  BY <1>1, <1>4, <1>6 DEF Whole
<1>8. Body(F) = Drop(F, 4 + x) /\ Body(T) = Drop(T, 4 + x)
  BY <1>1, <1>4, <1>6 DEF Body
<1> QED BY <1>1, <1>4, <1>5, <1>7, <1>8

\* The first set, in the cells that getTxtEventLog takes for it.
LEMMA AreaHolds ==
  ASSUME NEW heap \in Seq(Nat), NEW b \in Nat, NEW f \in Nat, NEW a \in Nat,
         (b + f) + a <= Len(heap), NEW C, C = SubSeq(heap, b + 1, b + a),
         NEW F, F = Drop(C, f), Whole(F), NEW events \in Seq(LoggedEvents),
         Holds(Body(F), events), f > 0 => Len(EncodeAll(events)) < Len(Body(F)),
         NEW T, T = Take(Drop(heap, b + f), a)
  PROVE  Whole(T) /\ Holds(Body(T), events)
<1>1. b + a <= Len(heap)
  OBVIOUS
<1>2. C \in Seq(Nat) /\ Len(C) = a /\ Extends(Drop(heap, b), C)
  <2>1. LET D == SubSeq(heap, b + 1, b + a)
        IN D \in Seq(Nat) /\ Len(D) = a /\ Extends(Drop(heap, b), D)
    BY <1>1, ContainerCells
  <2> QED BY <2>1
<1>3. F \in Seq(Nat) /\ f < a
  <2>1. F \in Seq(Nat) /\ (F # << >> => f < Len(C))
    BY <1>2, DropProps
  <2>2. F # << >>
    <3>1. Len(F) >= 4
      BY DEF Whole
    <3> QED BY <3>1
  <2> QED BY <2>1, <2>2, <1>2
<1>4. PICK G \in Seq(Nat) : G = Drop(heap, b + f) /\ G = Drop(Drop(heap, b), f)
  <2>1. b + f \in Nat
    OBVIOUS
  <2>2. Drop(heap, b + f) \in Seq(Nat)
    BY <2>1, DropProps
  <2> QED BY <2>2, DropDrop
<1>5. Extends(G, F) /\ Len(F) = a - f
  <2>1. Drop(heap, b) \in Seq(Nat)
    BY DropProps
  <2>2. f <= Len(C)
    BY <1>2, <1>3
  <2>3. /\ Extends(Drop(Drop(heap, b), f), Drop(C, f)) /\ Len(Drop(C, f)) = Len(C) - f
    BY <2>1, <2>2, <1>2, DropExtends
  <2> QED BY <2>3, <1>2, <1>4
<1>6. Len(G) >= a
  <2>1. b + f \in Nat /\ b + f <= Len(heap)
    OBVIOUS
  <2>2. Len(G) = Len(heap) - (b + f)
    BY <2>1, <1>4, DropProps
  <2> QED BY <2>2
<1>7. T \in Seq(Nat) /\ Len(T) = a /\ \A i \in 1 .. a : T[i] = G[i]
  <2>1. T = Take(G, a)
    BY <1>4
  <2>2. T = SubSeq(G, 1, a)
    <3>1. PICK g \in Nat : g = Len(G) /\ g >= a
      BY <1>6
    <3>2. (IF a < g THEN a ELSE g) = a
      BY <3>1
    <3> QED BY <2>1, <3>1, <3>2 DEF Take
  <2>3. a <= Len(G)
    BY <1>6
  <2>4. /\ SubSeq(G, 1, a) \in Seq(Nat) /\ Len(SubSeq(G, 1, a)) = a
        /\ \A i \in 1 .. a : SubSeq(G, 1, a)[i] = G[i]
    BY <2>3, FirstCells
  <2> QED BY <2>2, <2>4
<1>8. Extends(T, F)
  <2>1. \A i \in 1 .. a - f : i \in 1 .. a
    OBVIOUS
  <2>2. \A i \in 1 .. a - f : T[i] = F[i]
    BY <2>1, <1>5, <1>7 DEF Extends
  <2>3. a - f <= a
    OBVIOUS
  <2> QED BY <2>2, <2>3, <1>5, <1>7 DEF Extends
<1>9. /\ Whole(T) /\ F[4] \in Nat /\ 4 + F[4] <= Len(F)
      /\ Body(F) = Drop(F, 4 + F[4]) /\ Body(T) = Drop(T, 4 + F[4])
  BY <1>3, <1>7, <1>8, WholeExtends
<1>12. PICK p \in Nat : p = 4 + F[4]
  BY <1>9
<1>13. Body(F) = Drop(F, p) /\ Body(T) = Drop(T, p)
  BY <1>9, <1>12
<1>14. /\ Extends(Body(T), Body(F)) /\ Len(Body(F)) = (a - f) - p /\ Len(Body(T)) = a - p
  <2>1. p <= Len(F)
    BY <1>9, <1>12
  <2>2. Extends(Drop(T, p), Drop(F, p)) /\ Len(Drop(F, p)) = Len(F) - p
        /\ Len(Drop(T, p)) = Len(T) - p
    BY <2>1, <1>3, <1>7, <1>8, DropExtends
  <2> QED BY <2>2, <1>5, <1>7, <1>13
<1>15. Body(F) \in Seq(Nat) /\ Body(T) \in Seq(Nat)
  BY <1>3, <1>7, <1>13, DropProps
<1>16. Len(EncodeAll(events)) < Len(Body(F)) \/ Len(Body(T)) = Len(Body(F))
  <2>1. f = 0 => (a - f) - p = a - p
    OBVIOUS
  <2>2. f > 0 \/ f = 0
    OBVIOUS
  <2> QED BY <2>1, <2>2, <1>14
<1>17. Holds(Body(T), events)
  BY <1>14, <1>15, <1>16, HoldsLonger
<1> QED BY <1>9, <1>17

\* The second set, from its place to the end of the heap.
LEMMA RestHolds ==
  ASSUME NEW heap \in Seq(Nat), NEW b \in Nat, NEW a \in Nat, NEW q \in Nat,
         b + a <= Len(heap), q <= a, NEW C, C = SubSeq(heap, b + 1, b + a),
         NEW events \in Seq(LoggedEvents), Holds(Drop(C, q), events),
         q + Len(EncodeAll(events)) < a \/ b + a = Len(heap)
  PROVE  Holds(Drop(heap, b + q), events)
<1>1. C \in Seq(Nat) /\ Len(C) = a /\ Extends(Drop(heap, b), C)
  <2>1. LET D == SubSeq(heap, b + 1, b + a)
        IN D \in Seq(Nat) /\ Len(D) = a /\ Extends(Drop(heap, b), D)
    BY ContainerCells
  <2> QED BY <2>1
<1>2. PICK h \in Nat, l \in Nat : h = Len(heap) /\ l = Len(EncodeAll(events)) /\ b <= h
  BY RecordLayout
<1>3. PICK H \in Seq(Nat) : H = Drop(heap, b) /\ Len(H) = h - b
  BY <1>2, DropProps
<1>4. PICK D \in Seq(Nat), R \in Seq(Nat) : D = Drop(C, q) /\ R = Drop(H, q)
  BY <1>1, DropProps
<1>5. R = Drop(heap, b + q)
  BY <1>3, <1>4, DropDrop
<1>6. Extends(R, D) /\ Len(D) = a - q /\ Len(R) = (h - b) - q
  <2>1. q <= Len(C) /\ Extends(H, C)
    BY <1>1, <1>3
  <2>2. /\ Extends(Drop(H, q), Drop(C, q)) /\ Len(Drop(C, q)) = Len(C) - q
        /\ Len(Drop(H, q)) = Len(H) - q
    BY <2>1, <1>1, DropExtends
  <2> QED BY <2>2, <1>1, <1>3, <1>4
<1>7. l < Len(D) \/ Len(R) = Len(D)
  <2>1. CASE q + l < a
    <3>1. l < a - q
      BY <2>1
    <3> QED BY <3>1, <1>6
  <2>2. CASE b + a = h
    <3>1. (h - b) - q = a - q
      BY <2>2
    <3> QED BY <3>1, <1>6
  <2> QED BY <2>1, <2>2, <1>2
<1>8. Holds(R, events)
  BY <1>2, <1>4, <1>6, <1>7, HoldsLonger
<1> QED BY <1>5, <1>8

LEMMA ReadableRead ==
  ASSUME host \in Hosts, TxtReadable
  PROVE  TxtRead /\ host.txt.source # "missing"
<1>1. TxtIntact /\ TxtCovered
  BY DEF TxtReadable
<1>2. CASE host.txt.source = "file"
  BY <1>1, <1>2 DEF TxtIntact, TxtRead
<1>3. CASE host.txt.source = "memory"
  <2>1. PICK heap \in Seq(Nat), b \in Nat, f \in Nat, a \in Nat, q \in Nat :
          /\ heap = Heap /\ b = host.txt.base /\ f = host.txt.first
          /\ a = host.txt.allocated /\ q = host.txt.next
    <3>1. /\ host.txt.cells \in Seq(Nat) /\ host.txt.base \in Nat /\ host.txt.first \in Nat
          /\ host.txt.next \in Nat /\ host.txt.allocated \in 0 .. UintRange - 1
      BY HostTyped
    <3>2. UintRange \in Nat
      BY EventLogAssumption
    <3>3. host.txt.allocated \in Nat
      BY <3>1, <3>2
    <3> QED BY <3>1, <3>3 DEF Heap
  <2>2. PICK set \in Seq(LoggedEvents), more \in Seq(LoggedEvents) :
          set = host.txt.events /\ more = host.txt.nextEvents
    BY HostTyped
  <2>3. PICK C, F, T : C = Container /\ F = Drop(C, f) /\ T = TxtArea
    OBVIOUS
  <2>4. C = SubSeq(heap, b + 1, b + a) /\ T = Take(Drop(heap, b + f), a)
        /\ FirstEventLogOffset = b + f /\ NextEventLogOffset = b + q
    BY <2>1, <2>3 DEF Container, TxtArea, FirstEventLogOffset, NextEventLogOffset
  <2>5. /\ b + a <= Len(heap) /\ Whole(F) /\ Holds(Body(F), set)
        /\ \/ q = 0 /\ more = << >>
           \/ q \in 1 .. a /\ Holds(Drop(C, q), more)
    BY <1>1, <1>3, <2>1, <2>2, <2>3 DEF TxtIntact
  <2>6. /\ (b + f) + a <= Len(heap)
        /\ f > 0 => Len(EncodeAll(set)) < Len(Body(F))
        /\ q # 0 => /\ q + Len(EncodeAll(more)) < a \/ b + a = Len(heap)
                    /\ \/ (b + q) + Len(EncodeAll(more)) <= a
                       \/ b + q < Len(heap) /\ more = << >>
    BY <1>1, <1>3, <2>1, <2>2, <2>3, <2>4 DEF TxtCovered, Followed
  <2>7. Whole(T) /\ Holds(Body(T), set)
    BY <2>3, <2>4, <2>5, <2>6, AreaHolds
  <2>8. ASSUME q # 0 PROVE Holds(Drop(heap, b + q), more)
    <3>1. q <= a /\ Holds(Drop(C, q), more)
      BY <2>5, <2>8
    <3> QED BY <3>1, <2>4, <2>5, <2>6, <2>8, RestHolds
  <2>9. \/ q = 0 /\ more = << >>
        \/ /\ q # 0
           /\ \/ (b + q) + Len(EncodeAll(more)) <= a
              \/ b + q < Len(heap) /\ more = << >>
           /\ Holds(Drop(heap, b + q), more)
    BY <2>5, <2>6, <2>8
  <2> QED BY <1>3, <2>1, <2>2, <2>3, <2>4, <2>6, <2>7, <2>9 DEF TxtRead
<1> QED BY <1>1, <1>2, <1>3 DEF TxtIntact

\* The entries of one event, under a name.
Row(events, i, txt, name) ==
  [j \in DOMAIN events[i].digests |->
    [pcr |-> events[i].pcr, bank |-> events[i].digests[j].alg,
     event |-> [type |-> events[i].type, name |-> name,
                tags |-> IF ~txt THEN events[i].tags
                         ELSE IF name = NoName THEN << >> ELSE <<<<name>>>>,
                measurement |-> events[i].digests[j].value]]]

\* The names do not depend on where the count begins if nothing is counted.
LEMMA CountUnseen ==
  ASSUME host.txt.source # "missing", host \in Hosts, ~CountRestarts
  PROVE  TxtEntries = TxtEntriesRestarted
<1>1. CASE host.txt.source = "file"
  BY <1>1 DEF TxtEntries, TxtEntriesRestarted, TxtEntriesFrom
<1>2. CASE host.txt.source = "memory"
  <2>1. PICK first \in Seq(LoggedEvents), next \in Seq(LoggedEvents) :
          first = host.txt.events /\ next = host.txt.nextEvents
    BY HostTyped
  <2>2. PICK n : n = Count501(first, Len(first))
    OBVIOUS
  <2>3. CASE \A i \in DOMAIN first : first[i].type # Event501
    <3>1. {j \in 1 .. Len(first) : first[j].type = Event501} = {}
      BY <2>3
    <3>2. n = 0
      BY <3>1, <2>2, FS_EmptySet DEF Count501
    <3> QED BY <3>2, <2>1, <2>2 DEF TxtEntries, TxtEntriesRestarted
  <2>4. CASE \A i \in DOMAIN next : next[i].type # Event501
    <3>1. ASSUME NEW i \in DOMAIN next PROVE NameOf(next, i, n) = NameOf(next, i, 0)
      BY <2>4 DEF NameOf, TypeName
    <3>2. /\ Entries(next, TRUE, n)
             = FlattenSeq([i \in DOMAIN next |-> Row(next, i, TRUE, NameOf(next, i, n))])
          /\ Entries(next, TRUE, 0)
             = FlattenSeq([i \in DOMAIN next |-> Row(next, i, TRUE, NameOf(next, i, 0))])
      BY DEF Entries, Row
    <3>3. [i \in DOMAIN next |-> Row(next, i, TRUE, NameOf(next, i, n))]
          = [i \in DOMAIN next |-> Row(next, i, TRUE, NameOf(next, i, 0))]
      BY <3>1
    <3>4. Entries(next, TRUE, n) = Entries(next, TRUE, 0)
      BY <3>2, <3>3
    <3> QED BY <3>4, <1>2, <2>1, <2>2 DEF TxtEntries, TxtEntriesRestarted, TxtEntriesFrom
  <2> QED BY <1>2, <2>1, <2>3, <2>4 DEF CountRestarts
<1> QED BY <1>1, <1>2, HostTyped

-----------------------------------------------------------------------------
(* The theorems.                                                            *)

\* When init comes to its end, an intact event log is in measure-log.json as a run
\* of groups of its own, one for each PCR and bank, with every digest in the order
\* of its extension, its name and its tag, also when other parsers failed
\* (createMeasureLog, getEventTag, aggregateEventLogParser.GetEventLogs): for every
\* number of events, every layout of the memory and every content of it.  A TXT log
\* in memory is one that getTxtEventLog's sizes cover; where both of its sets have
\* 501 events, the names are those of a count that begins twice.
THEOREM IntactLogsArePublished == Spec => []IntactLogsPublished
<1>1. EventLogInv => IntactLogsPublished
  <2> SUFFICES ASSUME EventLogInv, pc = "done"
               PROVE  /\ UefiIntact => Published(UefiEntries)
                      /\ TxtReadable => \/ Published(TxtEntries)
                                        \/ CountRestarts /\ Published(TxtEntriesRestarted)
                      /\ AppIntact => Published(AppEntries)
    BY DEF IntactLogsPublished
  <2>1. PICK A, B, C, S :
          /\ A \in Seq(S) /\ B \in Seq(S) /\ C \in Seq(S) /\ eventLogs = A \o (B \o C)
          /\ UefiDone(A) /\ TxtDone(B) /\ AppDone(C)
          /\ eventLogs # << >> => measureLog = eventLogs
    BY WrittenParts
  <2>2. PICK E, F, G : E = UefiEntries /\ F = TxtEntriesRestarted /\ G = AppEntries
    OBVIOUS
  <2>3. ASSUME UefiIntact PROVE Published(UefiEntries)
    <3>1. Tracks(A, E)
      BY <2>1, <2>2, <2>3 DEF UefiDone
    <3>2. Published(E)
      BY <3>1, <2>1, PartPublished
    <3> QED BY <3>2, <2>2
  <2>4. ASSUME TxtReadable
        PROVE  Published(TxtEntries) \/ (CountRestarts /\ Published(TxtEntriesRestarted))
    <3>1. host \in Hosts
      BY DEF EventLogInv, Control
    <3>2. TxtRead /\ host.txt.source # "missing"
      BY <3>1, <2>4, ReadableRead
    <3>3. Tracks(B, F)
      BY <3>2, <2>1, <2>2 DEF TxtDone
    <3>4. Published(F)
      BY <3>3, <2>1, PartPublished
    <3>5. ~CountRestarts => F = TxtEntries
      BY <3>1, <3>2, <2>2, CountUnseen
    <3> QED BY <3>4, <3>5, <2>2
  <2>5. ASSUME AppIntact PROVE Published(AppEntries)
    <3>1. Tracks(C, G)
      BY <2>1, <2>2, <2>5 DEF AppDone
    <3>2. Published(G)
      BY <3>1, <2>1, PartPublished
    <3> QED BY <3>2, <2>2
  <2> QED BY <2>3, <2>4, <2>5
<1> QED BY <1>1, EventLogInvariant, PTL

\* The groups that track all entries of a log hold a prefix of them.
LEMMA TracksPrefix ==
  ASSUME NEW groups, NEW entries, Tracks(groups, entries), NEW g \in ToSet(groups)
  PROVE  SelectsPrefix(g, entries)
<1>1. PICK Ev : entries \in Seq(Entry(Ev))
  BY DEF Tracks
<1>2. Follows(entries, entries, TRUE)
  <2>1. Len(entries) <= Len(entries)
    BY <1>1
  <2> QED BY <2>1 DEF Follows
<1> QED BY <1>1, <1>2, FollowsPrefix

LEMMA ToSetConcat ==
  ASSUME NEW S, NEW a \in Seq(S), NEW b \in Seq(S), NEW x \in ToSet(a \o b)
  PROVE  x \in ToSet(a) \/ x \in ToSet(b)
<1>1. PICK m, n \in Nat : m = Len(a) /\ n = Len(b)
  OBVIOUS
<1>2. a \o b \in Seq(S) /\ Len(a \o b) = m + n
      /\ (\A j \in 1 .. n : (a \o b)[m + j] = b[j]) /\ (\A q \in 1 .. m : (a \o b)[q] = a[q])
  BY <1>1, ConcatIndex
<1>3. PICK i \in 1 .. m + n : x = (a \o b)[i]
  BY <1>1, <1>2 DEF ToSet
<1>4. CASE i \in 1 .. m
  <2>1. x = a[i] /\ i \in DOMAIN a
    BY <1>1, <1>2, <1>3, <1>4
  <2> QED BY <2>1 DEF ToSet
<1>5. CASE i \notin 1 .. m
  <2>1. i - m \in 1 .. n /\ m + (i - m) = i
    BY <1>5
  <2>2. x = b[i - m] /\ i - m \in DOMAIN b
    BY <2>1, <1>1, <1>2, <1>3
  <2> QED BY <2>2 DEF ToSet
<1> QED BY <1>4, <1>5

\* A UEFI log that was cut off at any cell, in a digest, in a size, in the data
\* or between two records, gives for each PCR and bank the events of a prefix of
\* the log, up to their tags, and never a digest of which cells are missing: the
\* short slices that buf.Next returns are found by the next read before anything
\* is published (createMeasureLog, getHashData in common.go).
THEOREM TruncationIsSafe == Spec => []TruncationSafe
<1>1. EventLogInv => TruncationSafe
  <2> SUFFICES ASSUME EventLogInv, pc = "done", measureLog # Old,
                      UefiIntact \/ UefiCutOff \/ host.uefi.source = "missing",
                      TxtReadable \/ host.txt.source = "missing",
                      NEW g \in ToSet(measureLog)
               PROVE  \E entries \in {UefiEntries, TxtEntries, TxtEntriesRestarted,
                                      AppEntries} : SelectsPrefix(g, entries)
    BY DEF TruncationSafe
  <2>0. TxtRead \/ host.txt.source = "missing"
    <3>1. host \in Hosts
      BY DEF EventLogInv, Control
    <3> QED BY <3>1, ReadableRead
  <2>1. PICK A, B, C, S :
          /\ A \in Seq(S) /\ B \in Seq(S) /\ C \in Seq(S) /\ eventLogs = A \o (B \o C)
          /\ UefiDone(A) /\ TxtDone(B) /\ AppDone(C)
          /\ eventLogs # << >> => measureLog = eventLogs
          /\ eventLogs = << >> => measureLog = Old
    BY WrittenParts
  <2>2. PICK E, F, G : E = UefiEntries /\ F = TxtEntriesRestarted /\ G = AppEntries
    OBVIOUS
  <2>3. B \o C \in Seq(S)
    BY <2>1, ConcatIndex
  <2>4. g \in ToSet(A) \/ g \in ToSet(B) \/ g \in ToSet(C)
    <3>1. g \in ToSet(A \o (B \o C))
      BY <2>1
    <3>2. g \in ToSet(A) \/ g \in ToSet(B \o C)
      BY <3>1, <2>1, <2>3, ToSetConcat
    <3> QED BY <3>2, <2>1, ToSetConcat
  <2>5. ToSet(<< >>) = {}
    BY DEF ToSet
  <2>6. CASE g \in ToSet(A)
    BY <2>1, <2>5, <2>6 DEF UefiDone
  <2>7. CASE g \in ToSet(B)
    <3>1. Tracks(B, F)
      BY <2>0, <2>1, <2>2, <2>5, <2>7 DEF TxtDone
    <3>2. SelectsPrefix(g, F)
      BY <3>1, <2>7, TracksPrefix
    <3> QED BY <3>2, <2>2
  <2>8. CASE g \in ToSet(C)
    <3>1. Tracks(C, G)
      BY <2>1, <2>2, <2>5, <2>8 DEF AppDone
    <3>2. SelectsPrefix(g, G)
      BY <3>1, <2>8, TracksPrefix
    <3> QED BY <3>2, <2>2
  <2> QED BY <2>4, <2>6, <2>7, <2>8
<1> QED BY <1>1, EventLogInvariant, PTL

\* A log with an event has an entry.
LEMMA SomeEntry ==
  ASSUME NEW events \in Seq(LoggedEvents), events # << >>,
         \A i \in DOMAIN events : WellFormed(events[i]), NEW txt \in BOOLEAN
  PROVE  Entries(events, txt, 0) # << >>
<1>S. PICK c, W, S : /\ c = EntAt(events, txt) /\ W = Entries(events, txt, 0) /\ W \in Seq(S)
  <2>1. \E Ev : Entries(events, txt, 0) \in Seq(Entry(Ev))
    BY EntriesLayout
  <2> QED BY <2>1
<1>1. PICK n \in Nat :
         /\ n = Len(events) /\ n # 0 /\ c = EntAt(events, txt) /\ W = Entries(events, txt, 0)
         /\ W \in Seq(S)
  <2>1. Len(events) \in Nat /\ Len(events) # 0
    BY NoElements
  <2> QED BY <2>1, <1>S
<1>2. /\ c \in [0 .. n -> Nat] /\ c[0] = 0 /\ Len(W) = c[n]
      /\ \A i \in 1 .. n : c[i] = c[i - 1] + Len(events[i].digests)
      /\ \A i, k \in 0 .. n : i <= k => c[i] <= c[k]
  BY <1>1, EntriesLayout
<1>3. PICK m \in 1 .. 5 : m = Len(events[1].digests)
  <2>1. 1 \in DOMAIN events
    BY <1>1
  <2> QED BY <2>1 DEF WellFormed
<1>4. c[1] = m
  <2>1. 1 \in 1 .. n /\ 1 - 1 = 0
    BY <1>1
  <2> QED BY <2>1, <1>2, <1>3
<1>5. PICK x \in Nat : x = c[n] /\ m <= x
  <2>1. 1 \in 0 .. n /\ n \in 0 .. n /\ 1 <= n
    BY <1>1
  <2> QED BY <2>1, <1>2, <1>4
<1>6. x # 0
  <2>1. \A y \in 1 .. 5 : y >= 1
    OBVIOUS
  <2>2. PICK k \in Nat : k = m /\ k >= 1
    BY <2>1
  <2>3. k <= x
    BY <2>2, <1>5
  <2> QED BY <2>2, <2>3
<1>7. Len(W) # 0
  BY <1>2, <1>5, <1>6
<1>8. W # << >>
  BY <1>7
<1> QED BY <1>1, <1>8

\* measure-log.json of an earlier boot stays only if a log is torn, the TXT log is
\* not covered by getTxtEventLog's sizes, an event has one of the three kinds of
\* data that getEventTag panics on, or there is no event: no other index expression
\* of the parsers panics on an intact log, and no other error loses all of them
\* (getEventTag, GetEventLogs, updateMeasureLog; main recovers from a panic and
\* ends with status 0).
THEOREM StaleLogMeansTorn == Spec => []StaleOnlyIfTorn
<1>1. EventLogInv => StaleOnlyIfTorn
  <2> SUFFICES ASSUME EventLogInv, pc \in {"done", "panicked"}, NothingTorn,
                      \/ UefiIntact /\ host.uefi.events # << >>
                      \/ TxtRead /\ host.txt.events # << >>
                      \/ AppIntact /\ host.app.lines # << >>
               PROVE  measureLog # Old
    <3>1. EventLogInv /\ TxtReadable => TxtRead
      BY ReadableRead DEF EventLogInv, Control
    <3> QED BY <3>1 DEF StaleOnlyIfTorn, NothingTorn
  <2>1. pc = "done" /\ host \in Hosts
    BY DEF EventLogInv, Control
  <2>2. PICK A, B, C, S :
          /\ A \in Seq(S) /\ B \in Seq(S) /\ C \in Seq(S) /\ eventLogs = A \o (B \o C)
          /\ UefiDone(A) /\ TxtDone(B) /\ AppDone(C)
          /\ eventLogs # << >> => measureLog = eventLogs
          /\ eventLogs = << >> => measureLog = Old
    BY <2>1, WrittenParts
  <2>3. PICK E, F, G : E = UefiEntries /\ F = TxtEntriesRestarted /\ G = AppEntries
    OBVIOUS
  <2>4. /\ A = << >> \/ Tracks(A, E)
        /\ B = << >> \/ Tracks(B, F)
        /\ C = << >> \/ Tracks(C, G)
    BY <2>2, <2>3 DEF NothingTorn, UefiDone, TxtDone, AppDone
  <2>5. /\ \A i \in 1 .. Len(A) : A[i].events # << >>
        /\ \A i \in 1 .. Len(B) : B[i].events # << >>
        /\ \A i \in 1 .. Len(C) : C[i].events # << >>
    <3>1. ASSUME NEW P, NEW Q, P = << >> \/ Tracks(P, Q)
          PROVE  \A i \in 1 .. Len(P) : P[i].events # << >>
      <4>1. CASE P = << >>
        BY <4>1
      <4>2. CASE Tracks(P, Q)
        BY <4>2, TracksEvents
      <4> QED BY <3>1, <4>1, <4>2
    <3> QED BY <3>1, <2>4
  <2>6. PICK P : P # << >> /\ (P = A \/ P = B \/ P = C)
    <3>1. CASE UefiIntact /\ host.uefi.events # << >>
      <4>1. E # << >>
        BY <3>1, <2>1, <2>3, HostTyped, SomeEntry DEF UefiEntries
      <4>2. Tracks(A, E)
        BY <3>1, <2>2, <2>3 DEF UefiDone
      <4> QED BY <4>1, <4>2, TracksEvents
    <3>2. CASE TxtRead /\ host.txt.events # << >>
      <4>1. F # << >>
        <5>1. PICK W, V, txt : /\ txt = TxtMem /\ W = Entries(host.txt.events, txt, 0)
                               /\ V = Entries(host.txt.nextEvents, TRUE, 0)
          OBVIOUS
        <5>2. txt \in BOOLEAN /\ TRUE \in BOOLEAN
          BY <5>1 DEF TxtMem
        <5>3. W # << >>
          BY <5>1, <5>2, <3>2, <2>1, HostTyped, SomeEntry
        <5>4. host.txt.events \in Seq(LoggedEvents) /\ host.txt.nextEvents \in Seq(LoggedEvents)
          BY <2>1, HostTyped
        <5>5. PICK T, U : W \in Seq(T) /\ V \in Seq(U)
          BY <5>1, <5>2, <5>4, EntriesLayout
        <5>6. W \in Seq(T \cup U)
          BY <5>5, SeqMonotonic
        <5>7. V \in Seq(T \cup U)
          BY <5>5, SeqMonotonic
        <5>8. W \o V # << >>
          BY <5>3, <5>6, <5>7, ConcatEqualIffEmpty
        <5>9. F = W \/ F = W \o V
          BY <5>1, <3>2, <2>3 DEF TxtEntriesRestarted, TxtEntriesFrom, TxtMem, TxtRead
        <5> QED BY <5>3, <5>8, <5>9
      <4>2. Tracks(B, F)
        BY <3>2, <2>2, <2>3 DEF TxtDone
      <4> QED BY <4>1, <4>2, TracksEvents
    <3>3. CASE AppIntact /\ host.app.lines # << >>
      <4>1. PICK lines \in Seq(AppLines) : lines = host.app.lines
        BY <2>1, HostTyped
      <4>2. Len(lines) \in 1 .. Len(lines)
        BY <4>1, <3>3
      <4>3. Len(G) = Len(lines)
        BY <4>1, <4>2, <2>3, AppEntry
      <4>4. G # << >>
        BY <4>2, <4>3
      <4>5. Tracks(C, G)
        BY <3>3, <2>2, <2>3 DEF AppDone
      <4> QED BY <4>4, <4>5, TracksEvents
    <3> QED BY <3>1, <3>2, <3>3
  <2>7. eventLogs # << >>
    BY <2>2, <2>6, PartOf
  <2>8. ASSUME eventLogs = Old PROVE FALSE
    <3>1. B \o C \in Seq(S)
      BY <2>2, ConcatIndex
    <3>2. PICK g : g = [pcr |-> 0, bank |-> 0, events |-> << >>] /\ g \in ToSet(eventLogs)
      BY <2>8 DEF Old, ToSet
    <3>3. g \in ToSet(A) \/ g \in ToSet(B) \/ g \in ToSet(C)
      <4>1. g \in ToSet(A \o (B \o C))
        BY <3>2, <2>2
      <4>2. g \in ToSet(A) \/ g \in ToSet(B \o C)
        BY <3>1, <4>1, <2>2, ToSetConcat
      <4> QED BY <4>2, <2>2, ToSetConcat
    <3>4. g.events # << >>
      BY <3>3, <2>2, <2>5 DEF ToSet
    <3>5. g.events = << >>
      BY <3>2
    <3> QED BY <3>4, <3>5
  <2> QED BY <2>2, <2>7, <2>8
<1> QED BY <1>1, EventLogInvariant, PTL
=============================================================================
