------------------------------ MODULE PcrBanks ------------------------------
(***************************************************************************)
(* CreateTpmQuoteResponse, up to the call of createTpmQuote: it checks the *)
(* nonce, puts the default PCR banks into a request that names none, and   *)
(* removes banks from the request's slice while ranging over it.           *)
(*                                                                         *)
(* A Go slice is a window on an array.  `range` evaluates the slice once,  *)
(* so the loop visits the indices of the original window and reads the     *)
(* array, in which each removal has moved the following elements one place *)
(* to the left.                                                            *)
(***************************************************************************)
EXTENDS Integers, Sequences

CONSTANTS
  Banks,         \* names of PCR banks
  DefaultBanks,  \* the banks of a request that names none
  Requests       \* PcrBanks of the requests HVS may send

ASSUME BanksAssumption ==
  /\ DefaultBanks \in Seq(Banks) /\ DefaultBanks # <<>>
  /\ Requests \subseteq Seq(Banks)

VARIABLES
  active,    \* the banks for which tpm.IsPcrBankActive answers true
  request,   \* the banks asked for, defaults included
  array,     \* the array under tpmQuoteRequest.PcrBanks
  len,       \* len(tpmQuoteRequest.PcrBanks)
  i,         \* the loop's index, counted from 1
  pc

vars == <<active, request, array, len, i, pc>>

\* tpmQuoteRequest.PcrBanks
PcrBanks == SubSeq(array, 1, len)

Init ==
  /\ active \in SUBSET Banks
  /\ request \in Requests
  /\ array = request /\ len = Len(request) /\ i = 1
  /\ pc = "start"

\* A request without a nonce is refused before anything else.
RefuseRequest ==
  /\ pc = "start"
  /\ pc' = "refused"
  /\ UNCHANGED <<active, request, array, len, i>>

\* With a nonce, an empty list becomes the default one.
AcceptRequest ==
  /\ pc = "start"
  /\ request' = IF request = <<>> THEN DefaultBanks ELSE request
  /\ array' = request' /\ len' = Len(request')
  /\ pc' = "loop"
  /\ UNCHANGED <<active, i>>

\* Mutant of KeepBank: the answer of IsPcrBankActive is negated.
KeepInactiveBank ==
  /\ pc = "loop" /\ i <= Len(array)
  /\ array[i] \notin active
  /\ i' = i + 1
  /\ UNCHANGED <<active, request, array, len, pc>>

\* The bank at the index is active.
KeepBank ==
  /\ pc = "loop" /\ i <= Len(array)
  /\ array[i] \in active
  /\ i' = i + 1
  /\ UNCHANGED <<active, request, array, len, pc>>

\* Mutant of DropBank: the element after the inactive one is removed too.
DropTwoBanks ==
  /\ pc = "loop" /\ i <= Len(array)
  /\ array[i] \notin active
  /\ i + 1 <= len
  /\ array' = [k \in 1 .. Len(array) |-> IF k \in i .. len - 2 THEN array[k + 2] ELSE array[k]]
  /\ len' = len - 2 /\ i' = i + 1
  /\ UNCHANGED <<active, request, pc>>

\* The bank is inactive, or its state is unknown:
\* append(PcrBanks[:i], PcrBanks[i+1:]...) moves what follows it to the left.
DropBank ==
  /\ pc = "loop" /\ i <= Len(array)
  /\ array[i] \notin active
  /\ i <= len
  /\ array' = [k \in 1 .. Len(array) |-> IF k \in i .. len - 1 THEN array[k + 1] ELSE array[k]]
  /\ len' = len - 1 /\ i' = i + 1
  /\ UNCHANGED <<active, request, pc>>

\* The slice has become shorter than the index: PcrBanks[i+1:] is out of
\* range.  The panic is recovered by the web server (status 500) or by
\* recoverFunc (no answer).
SliceOutOfRange ==
  /\ pc = "loop" /\ i <= Len(array)
  /\ array[i] \notin active
  /\ i > len
  /\ pc' = "panic"
  /\ UNCHANGED <<active, request, array, len, i>>

\* The loop ends and createTpmQuote is called.
LoopEnds ==
  /\ pc = "loop" /\ i > Len(array)
  /\ pc' = "quote"
  /\ UNCHANGED <<active, request, array, len, i>>

Next == RefuseRequest \/ AcceptRequest \/ KeepBank \/ DropBank \/ SliceOutOfRange \/ LoopEnds

Spec == Init /\ [][Next]_vars

-----------------------------------------------------------------------------
(* Properties.                                                              *)

\* s is the request without some of its inactive banks: the elements of s are
\* those of the request at increasing indices, and no active one is left out.
Remains(s) ==
  \E f \in [DOMAIN s -> DOMAIN request] :
    /\ \A j, k \in DOMAIN s : j < k => f[j] < f[k]
    /\ \A k \in DOMAIN s : s[k] = request[f[k]]
    /\ \A j \in DOMAIN request : request[j] \in active => \E k \in DOMAIN s : f[k] = j

\* What the loop is meant to compute: the request without its inactive banks.
Stripped(s) == Remains(s) /\ \A k \in DOMAIN s : s[k] \in active

\* No active bank is lost, repeated or moved by the removals, even though the
\* array is edited under the loop: what is left of the slice is the request
\* without inactive banks (common/quote.go, the append of the loop).
ActiveBanksKept == pc \in {"loop", "quote"} => Remains(PcrBanks)

\* At most one bank of the request is inactive.
OneInactive ==
  \A j, k \in DOMAIN request : request[j] \notin active /\ request[k] \notin active => j = k

\* With at most one inactive bank in the request the loop does what it is
\* meant to: it ends without a panic and exactly that bank is gone.  With more
\* it need not, see InactiveBanksStripped.
OneInactiveBankStripped ==
  OneInactive => pc # "panic" /\ (pc = "quote" => Stripped(PcrBanks))

\* common/quote.go: "ISECL-12121: strip inactive PCR Banks from the request".
\* The quote is asked for active banks only.
InactiveBanksStripped == pc = "quote" => Stripped(PcrBanks)
=============================================================================
