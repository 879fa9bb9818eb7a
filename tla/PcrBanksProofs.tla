--------------------------- MODULE PcrBanksProofs ---------------------------
(***************************************************************************)
(* The loop that strips inactive PCR banks while it ranges over the slice, *)
(* for requests of any length, repeated banks included.                    *)
(***************************************************************************)
EXTENDS PcrBanks, TLAPS

\* The array keeps its length, and the slice is a prefix of it.
SliceOK ==
  /\ request \in Seq(Banks)
  /\ array \in Seq(Banks) /\ Len(array) = Len(request)
  /\ len \in 0 .. Len(request)
  /\ i \in Nat \ {0}
  /\ pc = "start" => i = 1
  /\ pc = "quote" => i > Len(request)

\* f says where in the request each element of the slice comes from.
Origin(f) ==
  /\ f \in [1 .. len -> 1 .. Len(request)]
  /\ \A j, k \in 1 .. len : j < k => f[j] < f[k]
  /\ \A k \in 1 .. len : array[k] = request[f[k]]
  /\ \A j \in 1 .. Len(request) : request[j] \in active => \E k \in 1 .. len : f[k] = j

OriginInv == pc \in {"loop", "quote"} => \E f : Origin(f)

\* Nothing was removed before i ...
Untouched ==
  /\ array = request /\ len = Len(request)
  /\ \A k \in 1 .. Len(request) : k < i => request[k] \in active

\* ... or the only inactive bank, at j, was.
Removed(j) ==
  /\ j < i /\ request[j] \notin active
  /\ len = Len(request) - 1
  /\ \A k \in 1 .. Len(request) :
       array[k] = IF k \in j .. len THEN request[k + 1] ELSE request[k]

OneInv ==
  OneInactive =>
    /\ pc # "panic"
    /\ pc \in {"loop", "quote"} =>
         Untouched \/ \E j \in 1 .. Len(request) : Removed(j)

BanksInv == SliceOK /\ OriginInv /\ OneInv

-----------------------------------------------------------------------------

LEMMA SliceStep == SliceOK /\ [Next]_vars => SliceOK'
<1> SUFFICES ASSUME SliceOK, [Next]_vars PROVE SliceOK'
  OBVIOUS
<1>1. CASE RefuseRequest
  BY <1>1 DEF RefuseRequest, SliceOK
<1>2. CASE AcceptRequest
  <2>1. request' \in Seq(Banks) /\ array' = request' /\ len' = Len(request')
        /\ i' = i /\ pc' = "loop"
    BY <1>2, BanksAssumption DEF AcceptRequest, SliceOK
  <2> QED
    BY <2>1 DEF SliceOK
<1>3. CASE KeepBank
  BY <1>3 DEF KeepBank, SliceOK
<1>4. CASE DropBank
  <2>1. array' \in Seq(Banks) /\ Len(array') = Len(request)
    BY <1>4 DEF DropBank, SliceOK
  <2> QED
    BY <1>4, <2>1 DEF DropBank, SliceOK
<1>5. CASE SliceOutOfRange
  BY <1>5 DEF SliceOutOfRange, SliceOK
<1>6. CASE LoopEnds
  BY <1>6 DEF LoopEnds, SliceOK
<1>7. CASE UNCHANGED vars
  BY <1>7 DEF vars, SliceOK
<1> QED
  BY <1>1, <1>2, <1>3, <1>4, <1>5, <1>6, <1>7 DEF Next

LEMMA OriginStep == SliceOK /\ OriginInv /\ [Next]_vars => OriginInv'
<1> SUFFICES ASSUME SliceOK, OriginInv, [Next]_vars, pc' \in {"loop", "quote"}
             PROVE  \E f : Origin(f)'
  BY DEF OriginInv
<1>1. CASE RefuseRequest \/ SliceOutOfRange
  BY <1>1 DEF RefuseRequest, SliceOutOfRange
<1>2. CASE AcceptRequest
  <2>0. PICK f : f = [k \in 1 .. len' |-> k]
    OBVIOUS
  <2>1. array' = request' /\ len' = Len(request') /\ request' \in Seq(Banks)
    BY <1>2, BanksAssumption DEF AcceptRequest, SliceOK
  <2>2. Origin(f)'
    BY <2>0, <2>1 DEF Origin
  <2> QED
    BY <2>2
<1>3. CASE KeepBank \/ LoopEnds \/ UNCHANGED vars
  <2>1. pc \in {"loop", "quote"} /\ UNCHANGED <<active, request, array, len>>
    BY <1>3 DEF KeepBank, LoopEnds, vars
  <2> QED
    BY <2>1 DEF OriginInv, Origin
<1>4. CASE DropBank
  <2>1. PICK f : Origin(f)
    BY <1>4 DEF DropBank, OriginInv
  <2>2. /\ i \in 1 .. len /\ array[i] \notin active /\ len' = len - 1
        /\ request' = request /\ active' = active
        /\ \A k \in 1 .. len - 1 : array'[k] = IF k < i THEN array[k] ELSE array[k + 1]
    BY <1>4 DEF DropBank, SliceOK
  <2>3. len \in Nat /\ Len(request) \in Nat /\ i \in Nat /\ len' \in Nat
    BY <2>2 DEF SliceOK
  <2>4. PICK g : g = [k \in 1 .. len - 1 |-> IF k < i THEN f[k] ELSE f[k + 1]]
    OBVIOUS
  <2>5. g \in [1 .. len' -> 1 .. Len(request')]
    BY <2>4, <2>1, <2>2, <2>3 DEF Origin
  <2>6. ASSUME NEW j \in 1 .. len', NEW k \in 1 .. len', j < k PROVE g[j] < g[k]
    <3>1. /\ j \in 1 .. len - 1 /\ j \in 1 .. len /\ j + 1 \in 1 .. len
          /\ k \in 1 .. len - 1 /\ k \in 1 .. len /\ k + 1 \in 1 .. len
          /\ j < k + 1 /\ j + 1 < k + 1
      BY <2>2, <2>3, <2>6
    <3>2. f[j] < f[k] /\ f[j] < f[k + 1] /\ f[j + 1] < f[k + 1]
      BY <2>1, <2>6, <3>1 DEF Origin
    <3>3. g[j] = (IF j < i THEN f[j] ELSE f[j + 1]) /\ g[k] = (IF k < i THEN f[k] ELSE f[k + 1])
      BY <2>4, <3>1
    <3>4. k < i => j < i
      BY <2>3, <2>6, <3>1
    <3> QED
      BY <3>2, <3>3, <3>4
  <2>7. ASSUME NEW k \in 1 .. len' PROVE array'[k] = request'[g[k]]
    <3>1. k \in 1 .. len - 1 /\ k \in 1 .. len /\ k + 1 \in 1 .. len
      BY <2>2, <2>3
    <3>2. array[k] = request[f[k]] /\ array[k + 1] = request[f[k + 1]]
      BY <2>1, <3>1 DEF Origin
    <3>3. CASE k < i
      BY <2>2, <2>4, <3>1, <3>2, <3>3
    <3>4. CASE ~(k < i)
      BY <2>2, <2>4, <3>1, <3>2, <3>4
    <3> QED
      BY <3>3, <3>4
  <2>8. ASSUME NEW j \in 1 .. Len(request'), request'[j] \in active'
        PROVE  \E k \in 1 .. len' : g[k] = j
    <3>1. PICK k \in 1 .. len : f[k] = j
      BY <2>1, <2>2, <2>8 DEF Origin
    <3>2. k # i
      BY <2>1, <2>2, <2>8, <3>1 DEF Origin
    <3>3. CASE k < i
      BY <2>4, <2>2, <2>3, <3>1, <3>3
    <3>4. CASE k > i
      <4>1. k - 1 \in 1 .. len' /\ g[k - 1] = j
        BY <2>4, <2>2, <2>3, <3>1, <3>4
      <4> QED
        BY <4>1
    <3> QED
      BY <2>3, <3>2, <3>3, <3>4
  <2>9. Origin(g)'
    BY <2>5, <2>6, <2>7, <2>8 DEF Origin
  <2> QED
    BY <2>9
<1> QED
  BY <1>1, <1>2, <1>3, <1>4 DEF Next

\* The slice as the properties see it.
LEMMA Window ==
  ASSUME SliceOK
  PROVE  /\ DOMAIN PcrBanks = 1 .. len
         /\ \A k \in 1 .. len : PcrBanks[k] = array[k]
         /\ DOMAIN request = 1 .. Len(request)
BY DEF SliceOK, PcrBanks

LEMMA OriginRemains ==
  ASSUME SliceOK, NEW f, Origin(f)
  PROVE  Remains(PcrBanks)
<1>1. /\ f \in [DOMAIN PcrBanks -> DOMAIN request]
      /\ \A j, k \in DOMAIN PcrBanks : j < k => f[j] < f[k]
      /\ \A k \in DOMAIN PcrBanks : PcrBanks[k] = request[f[k]]
      /\ \A j \in DOMAIN request :
           request[j] \in active => \E k \in DOMAIN PcrBanks : f[k] = j
  BY Window DEF Origin
<1> QED
  BY <1>1 DEF Remains

LEMMA OneStep == SliceOK /\ OneInv /\ [Next]_vars => OneInv'
<1> SUFFICES ASSUME SliceOK, OneInv, [Next]_vars, OneInactive'
             PROVE  /\ pc' # "panic"
                    /\ pc' \in {"loop", "quote"} =>
                         Untouched' \/ \E j \in 1 .. Len(request') : Removed(j)'
  BY DEF OneInv
<1> DEFINE Goal == /\ pc' # "panic"
                   /\ pc' \in {"loop", "quote"} =>
                         Untouched' \/ \E j \in 1 .. Len(request') : Removed(j)'
<1>1. CASE RefuseRequest
  BY <1>1 DEF RefuseRequest
<1>2. CASE AcceptRequest
  <2>1. array' = request' /\ len' = Len(request') /\ i' = 1 /\ request' \in Seq(Banks)
        /\ pc' = "loop"
    BY <1>2, BanksAssumption DEF AcceptRequest, SliceOK
  <2>2. Untouched'
    BY <2>1 DEF Untouched
  <2> QED
    BY <2>1, <2>2
<1>3. ASSUME pc = "loop", UNCHANGED <<active, request>> PROVE OneInactive
  BY <1>3 DEF OneInactive
<1>4. ASSUME pc = "loop", UNCHANGED <<active, request>>, i <= Len(array), array[i] \notin active
      PROVE  Untouched /\ request[i] \notin active
  <2>1. Untouched \/ \E j \in 1 .. Len(request) : Removed(j)
    BY <1>3, <1>4 DEF OneInv
  <2>2. ASSUME NEW j \in 1 .. Len(request), Removed(j) PROVE FALSE
    <3>1. \A k \in 1 .. Len(request) : request[k] \notin active => k = j
      BY <1>3, <1>4, <2>2 DEF OneInactive, Removed, SliceOK
    <3>2. i \in 1 .. Len(request) /\ j < i /\ len = Len(request) - 1 /\ Len(request) \in Nat
      BY <1>4, <2>2 DEF Removed, SliceOK
    <3>3. CASE i <= len
      <4>1. array[i] = request[i + 1] /\ i + 1 \in 1 .. Len(request)
        BY <2>2, <3>2, <3>3 DEF Removed
      <4>2. i + 1 # j
        BY <3>2
      <4> QED
        BY <1>4, <3>1, <4>1, <4>2
    <3>4. CASE i > len
      <4>1. array[i] = request[i]
        BY <2>2, <3>2, <3>4 DEF Removed
      <4>2. i # j
        BY <3>2
      <4> QED
        BY <1>4, <3>1, <3>2, <4>1, <4>2
    <3> QED
      BY <3>2, <3>3, <3>4
  <2> QED
    BY <1>4, <2>1, <2>2 DEF Untouched
<1>5. CASE KeepBank
  <2>1. /\ pc = "loop" /\ pc' = "loop" /\ i <= Len(array) /\ array[i] \in active /\ i' = i + 1
        /\ UNCHANGED <<active, request, array, len>>
    BY <1>5 DEF KeepBank
  <2>2. Untouched \/ \E j \in 1 .. Len(request) : Removed(j)
    BY <1>3, <2>1 DEF OneInv
  <2>3. i \in Nat /\ i' \in Nat
    BY <2>1 DEF SliceOK
  <2>4. CASE Untouched
    <3>1. \A k \in 1 .. Len(request) : k < i + 1 => request[k] \in active
      BY <2>1, <2>3, <2>4 DEF Untouched
    <3>2. Untouched'
      BY <2>1, <2>4, <3>1 DEF Untouched
    <3> QED
      BY <2>1, <3>2
  <2>5. ASSUME NEW j \in 1 .. Len(request), Removed(j) PROVE Goal
    <3>1. j < i'
      BY <2>1, <2>3, <2>5 DEF Removed
    <3>2. Removed(j)'
      BY <2>1, <2>5, <3>1 DEF Removed
    <3> QED
      BY <2>1, <3>2
  <2> QED
    BY <2>2, <2>4, <2>5
<1>6. CASE DropBank
  <2>1. /\ pc = "loop" /\ pc' = "loop" /\ i <= Len(array) /\ array[i] \notin active
        /\ i' = i + 1 /\ len' = len - 1 /\ UNCHANGED <<active, request>>
        /\ array' = [k \in 1 .. Len(array) |->
                       IF k \in i .. len - 1 THEN array[k + 1] ELSE array[k]]
    BY <1>6 DEF DropBank
  <2>2. Untouched /\ request[i] \notin active
    BY <1>4, <2>1
  <2>3. i \in 1 .. Len(request) /\ Len(array) = Len(request) /\ Len(request) \in Nat
    BY <2>1 DEF SliceOK
  <2>4. PICK j \in 1 .. Len(request) : j = i
    BY <2>3
  <2>5. Removed(j)'
    <3>1. /\ j < i' /\ request'[j] \notin active'
          /\ len' = Len(request') - 1
      BY <2>1, <2>2, <2>3, <2>4 DEF Untouched
    <3>2. \A k \in 1 .. Len(request) :
            array'[k] = IF k \in j .. Len(request) - 1 THEN request[k + 1] ELSE request[k]
      BY <2>1, <2>2, <2>3, <2>4 DEF Untouched
    <3> QED
      BY <2>1, <3>1, <3>2 DEF Removed
  <2> QED
    BY <2>1, <2>5
<1>7. CASE SliceOutOfRange
  <2>1. /\ pc = "loop" /\ i <= Len(array) /\ array[i] \notin active
        /\ i > len /\ UNCHANGED <<active, request>>
    BY <1>7 DEF SliceOutOfRange
  <2>2. len = Len(request)
    BY <1>4, <2>1 DEF Untouched
  <2> QED
    BY <2>1, <2>2 DEF SliceOK
<1>8. CASE LoopEnds \/ UNCHANGED vars
  <2>1. /\ UNCHANGED <<active, request, array, len, i>>
        /\ pc' = pc \/ (pc = "loop" /\ pc' = "quote")
    BY <1>8 DEF LoopEnds, vars
  <2>2. OneInactive
    BY <2>1 DEF OneInactive
  <2> QED
    BY <2>1, <2>2 DEF OneInv, Untouched, Removed
<1> QED
  BY <1>1, <1>2, <1>5, <1>6, <1>7, <1>8 DEF Next

\* The loop's invariant, for every request and every set of active banks.
THEOREM BanksInvariance == Spec => []BanksInv
<1>1. Init => BanksInv
  BY BanksAssumption DEF Init, BanksInv, SliceOK, OriginInv, OneInv
<1>2. BanksInv /\ [Next]_vars => BanksInv'
  BY SliceStep, OriginStep, OneStep DEF BanksInv
<1> QED
  BY <1>1, <1>2, PTL DEF Spec

\* CreateTpmQuoteResponse loses no active bank of the request and keeps the
\* order, whatever is removed and how often.
THEOREM ActiveBanksAreKept == Spec => []ActiveBanksKept
<1>1. BanksInv => ActiveBanksKept
  BY OriginRemains DEF BanksInv, OriginInv, ActiveBanksKept
<1> QED
  BY <1>1, BanksInvariance, PTL

\* With at most one inactive bank the loop does not panic and leaves exactly the
\* active banks.
THEOREM OneInactiveIsStripped == Spec => []OneInactiveBankStripped
<1>1. BanksInv => OneInactiveBankStripped
  <2> SUFFICES ASSUME BanksInv, OneInactive
               PROVE  pc # "panic" /\ (pc = "quote" => Stripped(PcrBanks))
    BY DEF OneInactiveBankStripped
  <2>1. pc # "panic"
    BY DEF BanksInv, OneInv
  <2>2. ASSUME pc = "quote" PROVE Stripped(PcrBanks)
    <3>1. Remains(PcrBanks)
      BY <2>2, OriginRemains DEF BanksInv, OriginInv
    <3>2. i > Len(request) /\ len \in 0 .. Len(request) /\ Len(request) \in Nat /\ i \in Nat
      BY <2>2 DEF BanksInv, SliceOK
    <3>3. Untouched \/ \E j \in 1 .. Len(request) : Removed(j)
      BY <2>2 DEF BanksInv, OneInv
    <3>4. \A k \in 1 .. len : array[k] \in active
      <4>1. CASE Untouched
        BY <3>2, <4>1 DEF Untouched
      <4>2. ASSUME NEW j \in 1 .. Len(request), Removed(j), NEW k \in 1 .. len
            PROVE  array[k] \in active
        <5>1. \A h \in 1 .. Len(request) : request[h] \notin active => h = j
          BY <4>2 DEF OneInactive, Removed, BanksInv, SliceOK
        <5>2. len = Len(request) - 1
          BY <4>2 DEF Removed
        <5>3. CASE k < j
          <6>1. array[k] = request[k] /\ k \in 1 .. Len(request) /\ k # j
            BY <3>2, <4>2, <5>2, <5>3 DEF Removed
          <6> QED
            BY <5>1, <6>1
        <5>4. CASE k >= j
          <6>1. array[k] = request[k + 1] /\ k + 1 \in 1 .. Len(request) /\ k + 1 # j
            BY <3>2, <4>2, <5>2, <5>4 DEF Removed
          <6> QED
            BY <5>1, <6>1
        <5> QED
          BY <3>2, <5>3, <5>4
      <4> QED
        BY <3>3, <4>1, <4>2
    <3> QED
      BY <3>1, <3>4, Window DEF Stripped, BanksInv
  <2> QED
    BY <2>1, <2>2
<1> QED
  BY <1>1, BanksInvariance, PTL
=============================================================================
