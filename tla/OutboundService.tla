--------------------------- MODULE OutboundService --------------------------
(***************************************************************************)
(* The outbound (NATS) service: Start connects and subscribes to one topic *)
(* after the other, and the callback of a topic runs in its subscription's *)
(* goroutine as soon as the topic is subscribed, while Start goes on.      *)
(*                                                                         *)
(* The callback of deploy-manifest assigns to the variable err of Start    *)
(* (`err = ...` where its siblings have `err := ...`).  That is a data     *)
(* race: a read that follows the goroutine's own assignment may see its    *)
(* own value or the one the other goroutine has put there.                 *)
(*                                                                         *)
(* ServiceLifecycle runs these steps in the service process.               *)
(***************************************************************************)
EXTENDS Naturals, Sequences

CONSTANT Requested   \* topics on which HVS sends requests

Topics == <<"quote", "host-info", "aik", "deploy-asset-tag", "binding-key",
            "deploy-manifest", "application-measurement", "version">>

TopicNames == {Topics[n] : n \in DOMAIN Topics}

ASSUME RequestedAssumption == Requested \subseteq TopicNames

VARIABLES
  pc,       \* where Start is
  next,     \* the topic it subscribes to
  result,   \* what Subscribe returned to it
  err,      \* its variable err, shared with the deploy-manifest callback
  served,   \* topics that are subscribed
  cb,       \* callback of each topic: idle, or what its handler returned
  \* history
  raced,    \* one of the two wrote err between the other's write and its read
  lied      \* topics on which a request that failed was answered

startVars == <<pc, next, result>>
natsVars  == <<startVars, err, served, cb, raced, lied>>

Shared(t) == t = "deploy-manifest"

\* The values the callback of t can find in its err.
Seen(t) == IF Shared(t) THEN {cb[t], err} ELSE {cb[t]}

-----------------------------------------------------------------------------
(* Start and Stop.                                                          *)

\* nats.Connect retries in the background; bad parameters are an error.
Connect ==
  /\ pc = "connect"
  /\ pc' \in {"subscribe", "failed"}
  /\ UNCHANGED <<next, result, err, served, cb, raced, lied>>

\* The call of Subscribe: messages can arrive before it returns.
Subscribe ==
  /\ pc = "subscribe"
  /\ result' \in {"nil", "error"}
  /\ served' = IF result' = "nil" THEN served \cup {Topics[next]} ELSE served
  /\ pc' = "assign"
  /\ UNCHANGED <<next, err, cb, raced, lied>>

\* _, err = ...
AssignErr ==
  /\ pc = "assign"
  /\ err' = result
  /\ pc' = "check"
  /\ raced' = (raced \/ \E t \in Requested : Shared(t) /\ cb[t] # "idle")
  /\ UNCHANGED <<next, result, served, cb, lied>>

\* Mutant of CheckSubscription: a subscription that failed is only logged.
CheckLogged ==
  /\ pc = "check"
  /\ next' = next + 1
  /\ pc' = IF next = Len(Topics) THEN "started" ELSE "subscribe"
  /\ UNCHANGED <<result, err, served, cb, raced, lied>>

\* if err != nil { return ... }: what was subscribed stays subscribed.
CheckSubscription ==
  /\ pc = "check"
  /\ \/ /\ "nil" \in {result, err}
        /\ next' = next + 1
        /\ pc' = IF next = Len(Topics) THEN "started" ELSE "subscribe"
     \/ /\ "error" \in {result, err}
        /\ pc' = "failed"
        /\ UNCHANGED next
  /\ UNCHANGED <<result, err, served, cb, raced, lied>>

\* Stop closes the connection.
Stop ==
  /\ pc = "started"
  /\ pc' = "closed"
  /\ served' = {}
  /\ cb' = [t \in Requested |-> "idle"]
  /\ UNCHANGED <<next, result, err, raced, lied>>

-----------------------------------------------------------------------------
(* The callbacks.                                                           *)

\* A request arrives and its handler returns; the messages of one subscription
\* are handled one at a time.
Handle(t) ==
  /\ t \in served
  /\ cb[t] = "idle"
  /\ \E outcome \in {"nil", "error"} :
       /\ cb' = [cb EXCEPT ![t] = outcome]
       /\ err' = IF Shared(t) THEN outcome ELSE err
  /\ raced' = (raced \/ (Shared(t) /\ pc = "check"))
  /\ UNCHANGED <<startVars, served, lied>>

\* Mutant of Reply: the error is logged and the reply is published.
ReplyAlways(t) ==
  /\ cb[t] # "idle"
  /\ cb' = [cb EXCEPT ![t] = "idle"]
  /\ lied' = lied \cup (IF cb[t] = "error" THEN {t} ELSE {})
  /\ UNCHANGED <<startVars, err, served, raced>>

\* if err != nil { return err }, and otherwise the reply is published.  The
\* version callback logs the error and replies all the same.
Reply(t) ==
  /\ cb[t] # "idle"
  /\ cb' = [cb EXCEPT ![t] = "idle"]
  /\ \/ /\ "nil" \in Seen(t) \/ t = "version"
        /\ lied' = lied \cup (IF cb[t] = "error" THEN {t} ELSE {})
     \/ /\ "error" \in Seen(t) /\ t # "version"
        /\ UNCHANGED lied
  /\ UNCHANGED <<startVars, err, served, raced>>

-----------------------------------------------------------------------------
NatsInit ==
  /\ pc = "connect" /\ next = 1 /\ result = "nil" /\ err = "nil"
  /\ served = {}
  /\ cb = [t \in Requested |-> "idle"]
  /\ raced = FALSE /\ lied = {}

\* The steps of Start before it returns.
StartStep == Connect \/ Subscribe \/ AssignErr \/ CheckSubscription

Callback == \E t \in Requested : Handle(t) \/ Reply(t)

-----------------------------------------------------------------------------
(* Properties.                                                              *)

\* Part of the type invariant of ServiceLifecycle.
NatsTypeOK ==
  /\ pc \in {"connect", "subscribe", "assign", "check", "started", "failed", "closed"}
  /\ next \in 1 .. Len(Topics) + 1
  /\ result \in {"nil", "error"}
  /\ err \in {"nil", "error"}
  /\ served \subseteq TopicNames
  /\ cb \in [Requested -> {"idle", "nil", "error"}]
  /\ raced \in BOOLEAN
  /\ lied \subseteq Requested

\* HVS is told that a request succeeded only if its handler returned nil, on
\* every topic whose reply carries no result of its own, unless Start and the
\* deploy-manifest callback met at err (outbound_service.go, deploy-manifest).
RepliesTruthful ==
  /\ lied \subseteq {"version", "deploy-manifest"}
  /\ "deploy-manifest" \in lied => raced

\* Start returns nil only when every topic is subscribed, and it gives up only
\* after a subscription failed, under the same exception.
StartHonest ==
  ~raced =>
    /\ pc = "started" => served = TopicNames
    /\ pc = "failed" => result = "error" \/ served = {}
=============================================================================
