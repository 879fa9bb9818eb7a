----------------------- MODULE ServiceLifecycleProofs -----------------------
(***************************************************************************)
(* Proofs about the service process: what Start and the callbacks of the   *)
(* outbound service do to each other, and when the report retry loop may   *)
(* take it down.  They hold for every set of topics HVS uses and every     *)
(* number of concurrent HTTP requests.                                     *)
(***************************************************************************)
EXTENDS ServiceLifecycle, TLAPS

-----------------------------------------------------------------------------
(* The outbound service.                                                    *)

\* The steps of the outbound service, whoever schedules them.
NatsStep == StartStep \/ Stop \/ Callback

\* Until Start and the deploy-manifest callback have met at err, each of them
\* finds in it what it has put there.
ErrInv ==
  ~raced =>
    /\ pc = "check" => err = result
    /\ \A t \in Requested : Shared(t) /\ cb[t] # "idle" => err = cb[t]

\* The first n topics.
FirstTopics(n) == {Topics[k] : k \in 1 .. n}

\* Start subscribes in order and stops at the first error.
StartInv ==
  /\ pc \in {"subscribe", "assign", "check"} => next <= Len(Topics)
  /\ pc = "connect" => next = 1 /\ served = {}
  /\ ~raced =>
       /\ pc = "subscribe" => served = FirstTopics(next - 1)
       /\ pc \in {"assign", "check"} =>
            served = FirstTopics(IF result = "nil" THEN next ELSE next - 1)

NatsInv == NatsTypeOK /\ ErrInv /\ StartInv /\ StartHonest /\ RepliesTruthful

\* The list of topics in Start.
LEMMA EightTopics == Len(Topics) = 8 /\ DOMAIN Topics = 1 .. 8
BY DEF Topics

\* Subscribing to the next topic extends the prefix by one; nothing is
\* subscribed before the first and nothing is missing after the last.
LEMMA TopicPrefixes ==
  /\ FirstTopics(0) = {}
  /\ FirstTopics(Len(Topics)) = TopicNames
  /\ \A n \in 1 .. Len(Topics) : FirstTopics(n - 1) \cup {Topics[n]} = FirstTopics(n)
<1>1. FirstTopics(0) = {}
  BY DEF FirstTopics
<1>2. FirstTopics(Len(Topics)) = TopicNames
  BY EightTopics DEF FirstTopics, TopicNames
<1>3. ASSUME NEW n \in 1 .. Len(Topics)
      PROVE  FirstTopics(n - 1) \cup {Topics[n]} = FirstTopics(n)
  <2>1. n \in Int /\ 1 <= n /\ 1 .. n = (1 .. (n - 1)) \cup {n}
    BY EightTopics
  <2> QED
    BY <2>1 DEF FirstTopics
<1> QED
  BY <1>1, <1>2, <1>3

\* The type invariant of the outbound service is inductive.
LEMMA NatsTypeStep == NatsTypeOK /\ StartInv /\ [NatsStep]_natsVars => NatsTypeOK'
<1> SUFFICES ASSUME NatsTypeOK, StartInv, [NatsStep]_natsVars PROVE NatsTypeOK'
  OBVIOUS
<1> USE EightTopics, RequestedAssumption DEF NatsTypeOK, StartInv, natsVars, startVars
<1>1. CASE Connect
  BY <1>1 DEF Connect
<1>2. CASE Subscribe
  BY <1>2 DEF Subscribe, TopicNames
<1>3. CASE AssignErr
  <2>1. raced' \in BOOLEAN
    BY <1>3 DEF AssignErr
  <2> QED
    BY <1>3, <2>1 DEF AssignErr
<1>4. CASE CheckSubscription
  BY <1>4 DEF CheckSubscription
<1>5. CASE Stop
  BY <1>5 DEF Stop
<1>6. ASSUME NEW t \in Requested, Handle(t) PROVE NatsTypeOK'
  <2>1. raced' \in BOOLEAN
    BY <1>6 DEF Handle
  <2> QED
    BY <1>6, <2>1 DEF Handle
<1>7. ASSUME NEW t \in Requested, Reply(t) PROVE NatsTypeOK'
  BY <1>7 DEF Reply
<1>8. CASE UNCHANGED natsVars
  BY <1>8
<1> QED
  BY <1>1, <1>2, <1>3, <1>4, <1>5, <1>6, <1>7, <1>8 DEF NatsStep, StartStep, Callback

\* ErrInv is preserved: whoever overwrites the other's value sets raced.
LEMMA ErrStep == NatsTypeOK /\ ErrInv /\ [NatsStep]_natsVars => ErrInv'
<1> SUFFICES ASSUME NatsTypeOK, ErrInv, [NatsStep]_natsVars, ~raced'
             PROVE /\ pc' = "check" => err' = result'
                   /\ \A t \in Requested : Shared(t) /\ cb'[t] # "idle" => err' = cb'[t]
  BY DEF ErrInv
<1> USE DEF NatsTypeOK, ErrInv, natsVars, startVars
<1>1. CASE Connect
  BY <1>1 DEF Connect
<1>2. CASE Subscribe
  BY <1>2 DEF Subscribe
<1>3. CASE AssignErr
  BY <1>3 DEF AssignErr
<1>4. CASE CheckSubscription
  BY <1>4 DEF CheckSubscription
<1>5. CASE Stop
  BY <1>5 DEF Stop
<1>6. ASSUME NEW u \in Requested, Handle(u)
      PROVE /\ pc' = "check" => err' = result'
            /\ \A t \in Requested : Shared(t) /\ cb'[t] # "idle" => err' = cb'[t]
  BY <1>6 DEF Handle, Shared
<1>7. ASSUME NEW u \in Requested, Reply(u)
      PROVE /\ pc' = "check" => err' = result'
            /\ \A t \in Requested : Shared(t) /\ cb'[t] # "idle" => err' = cb'[t]
  BY <1>7 DEF Reply
<1>8. CASE UNCHANGED natsVars
  BY <1>8
<1> QED
  BY <1>1, <1>2, <1>3, <1>4, <1>5, <1>6, <1>7, <1>8 DEF NatsStep, StartStep, Callback

\* The subscriptions follow Start through the list of topics.
LEMMA StartInvStep ==
  NatsTypeOK /\ ErrInv /\ StartInv /\ StartHonest /\ [NatsStep]_natsVars
    => StartInv' /\ StartHonest'
<1> SUFFICES ASSUME NatsTypeOK, ErrInv, StartInv, StartHonest, [NatsStep]_natsVars
             PROVE StartInv' /\ StartHonest'
  OBVIOUS
<1> USE EightTopics, TopicPrefixes DEF NatsTypeOK, StartInv, StartHonest, natsVars, startVars
<1>1. CASE Connect
  BY <1>1 DEF Connect
<1>2. CASE Subscribe
  BY <1>2 DEF Subscribe
<1>3. CASE AssignErr
  BY <1>3 DEF AssignErr
<1>4. CASE CheckSubscription
  BY <1>4 DEF CheckSubscription, ErrInv
<1>5. CASE Stop
  BY <1>5 DEF Stop
<1>6. ASSUME NEW t \in Requested, Handle(t) PROVE StartInv' /\ StartHonest'
  BY <1>6 DEF Handle
<1>7. ASSUME NEW t \in Requested, Reply(t) PROVE StartInv' /\ StartHonest'
  BY <1>7 DEF Reply
<1>8. CASE UNCHANGED natsVars
  BY <1>8
<1> QED
  BY <1>1, <1>2, <1>3, <1>4, <1>5, <1>6, <1>7, <1>8 DEF NatsStep, StartStep, Callback

\* A reply lies only on version, or on deploy-manifest after a race.
LEMMA ReplyStep ==
  NatsTypeOK /\ ErrInv /\ RepliesTruthful /\ [NatsStep]_natsVars => RepliesTruthful'
<1> SUFFICES ASSUME NatsTypeOK, ErrInv, RepliesTruthful, [NatsStep]_natsVars
             PROVE RepliesTruthful'
  OBVIOUS
<1> USE DEF NatsTypeOK, RepliesTruthful, natsVars, startVars
<1>1. CASE StartStep
  BY <1>1 DEF StartStep, Connect, Subscribe, AssignErr, CheckSubscription
<1>2. CASE Stop
  BY <1>2 DEF Stop
<1>3. ASSUME NEW t \in Requested, Handle(t) PROVE RepliesTruthful'
  BY <1>3 DEF Handle
<1>4. ASSUME NEW t \in Requested, Reply(t) PROVE RepliesTruthful'
  <2>1. CASE lied' = lied
    BY <1>4, <2>1 DEF Reply
  <2>2. CASE lied' # lied
    <3>1. cb[t] = "error" /\ lied' = lied \cup {t} /\ raced' = raced
      BY <1>4, <2>2 DEF Reply
    <3>2. t = "version" \/ "nil" \in Seen(t)
      BY <1>4, <2>2 DEF Reply
    <3>3. t # "version" => t = "deploy-manifest" /\ err = "nil"
      BY <3>1, <3>2 DEF Seen, Shared
    <3>4. t # "version" => raced
      BY <3>1, <3>3 DEF ErrInv, Shared
    <3> QED
      BY <3>1, <3>3, <3>4
  <2> QED
    BY <2>1, <2>2
<1>5. CASE UNCHANGED natsVars
  BY <1>5
<1> QED
  BY <1>1, <1>2, <1>3, <1>4, <1>5 DEF NatsStep, Callback

-----------------------------------------------------------------------------
(* The process.                                                             *)

\* TypeOK with the flags taken apart.
FlagsOK ==
  /\ tick \in BOOLEAN /\ quit \in BOOLEAN /\ lateTick \in BOOLEAN
  /\ signalled \in BOOLEAN /\ reported \in BOOLEAN /\ gaveUp \in BOOLEAN

\* The retry loop begins an attempt by taking the tick, so a tick that is
\* there during an attempt, or an attempt after quit was closed, is late.
RetryInv ==
  /\ retry = "sending" /\ tick => lateTick
  /\ quit /\ tick => lateTick
  /\ quit /\ retry = "sending" => lateTick
  /\ PanicNeedsLateTick

LifecycleInv == TypeOK /\ NatsInv /\ RetryInv

\* Every step of the process is a step of the outbound service or leaves its
\* variables alone.
LEMMA ProcessRunsNats == [Next]_vars => [NatsStep]_natsVars
<1> SUFFICES ASSUME [Next]_vars PROVE NatsStep \/ UNCHANGED natsVars
  OBVIOUS
<1>1. CASE StartOutboundService \/ ServeTopic \/ StopOutboundService
  BY <1>1 DEF StartOutboundService, ServeTopic, StopOutboundService, NatsStep
<1>2. CASE NewTrustAgentService \/ StartWebService \/ SendAsyncReport
  BY <1>2 DEF NewTrustAgentService, StartWebService, SendAsyncReport
<1>3. CASE Shutdown \/ Drained \/ DrainTimeout \/ Signal \/ Kill
  BY <1>3 DEF Shutdown, Drained, DrainTimeout, Signal, Kill
<1>4. CASE ServerReturns \/ RequestBegins \/ RequestEnds \/ Tick
  BY <1>4 DEF ServerReturns, RequestBegins, RequestEnds, Tick
<1>5. CASE RetryStep
  BY <1>5 DEF RetryStep, RetryBegins, RetryFails, RetrySucceeds, RetryQuits
<1>6. CASE UNCHANGED vars
  BY <1>6 DEF vars
<1> QED
  BY <1>1, <1>2, <1>3, <1>4, <1>5, <1>6 DEF Next, MainStep

LEMMA FlagTypes ==
  {tick, quit, signalled, reported, gaveUp, lateTick} \subseteq BOOLEAN <=> FlagsOK
BY DEF FlagsOK

\* The flags stay Boolean.
LEMMA FlagsStep == FlagsOK /\ [Next]_vars => FlagsOK'
<1> SUFFICES ASSUME FlagsOK, [Next]_vars PROVE FlagsOK'
  OBVIOUS
<1> USE DEF FlagsOK, vars, mainVars, retryVars, answers
<1>1. CASE MainStep
  <2>1. CASE SendAsyncReport
    BY <2>1 DEF SendAsyncReport, ReturnsNil
  <2>2. CASE ~SendAsyncReport
    BY <1>1, <2>2
    DEF MainStep, NewTrustAgentService, StartWebService, StartOutboundService,
        StopOutboundService, Shutdown, Drained, DrainTimeout
  <2> QED
    BY <2>1, <2>2
<1>2. CASE Signal
  BY <1>2 DEF Signal
<1>3. CASE Kill \/ ServerReturns \/ RequestBegins \/ RequestEnds \/ ServeTopic
  BY <1>3 DEF Kill, ServerReturns, RequestBegins, RequestEnds, ServeTopic
<1>4. CASE Tick
  <2>1. lateTick' \in BOOLEAN
    BY <1>4 DEF Tick
  <2> QED
    BY <1>4, <2>1 DEF Tick
<1>5. CASE RetryBegins
  BY <1>5 DEF RetryBegins
<1>6. CASE RetryFails
  BY <1>6 DEF RetryFails
<1>7. CASE RetrySucceeds
  BY <1>7 DEF RetrySucceeds, ReturnsNil
<1>8. CASE RetryQuits
  BY <1>8 DEF RetryQuits
<1>9. CASE UNCHANGED vars
  BY <1>9
<1> QED
  BY <1>1, <1>2, <1>3, <1>4, <1>5, <1>6, <1>7, <1>8, <1>9 DEF Next, RetryStep

\* The type invariant is inductive.
LEMMA TypeStep == TypeOK /\ StartInv /\ [Next]_vars => TypeOK'
<1> SUFFICES ASSUME TypeOK, StartInv, [Next]_vars PROVE TypeOK'
  OBVIOUS
<1>0. NatsTypeOK'
  BY ProcessRunsNats, NatsTypeStep DEF TypeOK
<1>1. {tick, quit, signalled, reported, gaveUp, lateTick}' \subseteq BOOLEAN
  <2>1. FlagsOK
    BY FlagTypes DEF TypeOK
  <2>2. FlagsOK'
    BY <2>1, FlagsStep
  <2> QED
    BY <2>2 DEF FlagsOK
<1>2. /\ mode' \in {"http", "outbound"}
      /\ main' \in {"new", "start", "blocked", "report", "waiting", "stopping", "draining",
                    "exited"}
      /\ exit' \in {"none", "ok", "error", "killed", "recovered", "crash", "panic"}
      /\ server' \in {"none", "serving", "closed"}
      /\ active' \in 0 .. MaxActive
      /\ retry' \in {"none", "select", "sending", "done"}
  <2> USE MaxActiveAssumption DEF TypeOK, vars, mainVars, retryVars, Exits
  <2>1. CASE NewTrustAgentService \/ StartWebService \/ StartOutboundService
    BY <2>1 DEF NewTrustAgentService, StartWebService, StartOutboundService
  <2>2. CASE SendAsyncReport
    BY <2>2 DEF SendAsyncReport
  <2>3. CASE StopOutboundService \/ Shutdown \/ Drained \/ DrainTimeout
    BY <2>3 DEF StopOutboundService, Shutdown, Drained, DrainTimeout
  <2>4. CASE Signal \/ Kill \/ ServerReturns
    BY <2>4 DEF Signal, Kill, ServerReturns
  <2>5. CASE RequestBegins \/ RequestEnds \/ ServeTopic
    BY <2>5 DEF RequestBegins, RequestEnds, ServeTopic
  <2>6. CASE Tick \/ RetryBegins \/ RetryQuits
    BY <2>6 DEF Tick, RetryBegins, RetryQuits
  <2>7. CASE RetryFails \/ RetrySucceeds
    BY <2>7 DEF RetryFails, RetrySucceeds
  <2>8. CASE UNCHANGED vars
    BY <2>8
  <2> QED
    BY <2>1, <2>2, <2>3, <2>4, <2>5, <2>6, <2>7, <2>8 DEF Next, MainStep, RetryStep
<1> QED
  BY <1>0, <1>1, <1>2 DEF TypeOK

\* RetryInv is preserved by every step.
LEMMA RetryInvStep == FlagsOK /\ RetryInv /\ [Next]_vars => RetryInv'
<1> SUFFICES ASSUME FlagsOK, RetryInv, [Next]_vars PROVE RetryInv'
  OBVIOUS
<1> USE DEF FlagsOK, RetryInv, PanicNeedsLateTick, Exits, vars, mainVars, retryVars
<1>1. CASE NewTrustAgentService \/ StartWebService \/ StartOutboundService
  BY <1>1 DEF NewTrustAgentService, StartWebService, StartOutboundService
<1>2. CASE SendAsyncReport
  BY <1>2 DEF SendAsyncReport
<1>3. CASE StopOutboundService \/ Shutdown \/ Drained \/ DrainTimeout
  BY <1>3 DEF StopOutboundService, Shutdown, Drained, DrainTimeout
<1>4. CASE Signal \/ Kill \/ ServerReturns
  BY <1>4 DEF Signal, Kill, ServerReturns
<1>5. CASE RequestBegins \/ RequestEnds \/ ServeTopic
  BY <1>5 DEF RequestBegins, RequestEnds, ServeTopic
<1>6. CASE Tick
  BY <1>6 DEF Tick
<1>7. CASE RetryBegins
  BY <1>7 DEF RetryBegins
<1>8. CASE RetryFails
  BY <1>8 DEF RetryFails
<1>9. CASE RetrySucceeds
  BY <1>9 DEF RetrySucceeds
<1>10. CASE RetryQuits
  BY <1>10 DEF RetryQuits
<1>11. CASE UNCHANGED vars
  BY <1>11
<1> QED
  BY <1>1, <1>2, <1>3, <1>4, <1>5, <1>6, <1>7, <1>8, <1>9, <1>10, <1>11
  DEF Next, MainStep, RetryStep

\* The inductive invariant of the service process.
THEOREM LifecycleInvariance == Spec => []LifecycleInv
<1>1. Init => LifecycleInv
  <2> SUFFICES ASSUME Init PROVE LifecycleInv
    OBVIOUS
  <2>1. NatsInv
    <3> USE EightTopics DEF Init, NatsInit
    <3>1. raced \in BOOLEAN
      OBVIOUS
    <3>2. NatsTypeOK
      BY <3>1 DEF NatsTypeOK
    <3>3. ErrInv /\ StartInv /\ StartHonest /\ RepliesTruthful
      BY DEF ErrInv, StartInv, StartHonest, RepliesTruthful
    <3> QED
      BY <3>2, <3>3 DEF NatsInv
  <2>2. TypeOK
    <3>1. {tick, quit, signalled, reported, gaveUp, lateTick} \subseteq BOOLEAN
      BY DEF Init
    <3>2. active \in 0 .. MaxActive
      BY MaxActiveAssumption DEF Init
    <3>3. NatsTypeOK
      BY <2>1 DEF NatsInv
    <3> QED
      BY <3>1, <3>2, <3>3 DEF Init, TypeOK
  <2>3. RetryInv
    BY DEF Init, RetryInv, PanicNeedsLateTick
  <2> QED
    BY <2>1, <2>2, <2>3 DEF LifecycleInv
<1>2. LifecycleInv /\ [Next]_vars => LifecycleInv'
  <2> SUFFICES ASSUME LifecycleInv, [Next]_vars PROVE LifecycleInv'
    OBVIOUS
  <2>1. TypeOK'
    BY TypeStep DEF LifecycleInv, NatsInv
  <2>2. RetryInv'
    BY FlagTypes, RetryInvStep DEF LifecycleInv, TypeOK
  <2>3. NatsInv'
    BY ProcessRunsNats, NatsTypeStep, ErrStep, StartInvStep, ReplyStep
    DEF LifecycleInv, NatsInv
  <2> QED
    BY <2>1, <2>2, <2>3 DEF LifecycleInv
<1> QED
  BY <1>1, <1>2, PTL DEF Spec

\* Every variable of the service process, those of Start and of the NATS callbacks
\* included, keeps its type: next never runs past the list of topics.
THEOREM ProcessTypeCorrect == Spec => []TypeOK
<1>1. LifecycleInv => TypeOK
  BY DEF LifecycleInv
<1> QED
  BY LifecycleInvariance, <1>1, PTL

\* asyncReportCreateRetry closes quit twice only if its ticker fired during an
\* attempt or after quit was closed: no other schedule panics.
THEOREM OnlyLateTicksPanic == Spec => []PanicNeedsLateTick
<1>1. LifecycleInv => PanicNeedsLateTick
  BY DEF LifecycleInv, RetryInv
<1> QED
  BY LifecycleInvariance, <1>1, PTL

\* HVS is told that a failed request succeeded only on the version topic, or on
\* deploy-manifest once its callback and Start have met at the shared err.
THEOREM RepliesLieOnlyAfterRace == Spec => []RepliesTruthful
<1>1. LifecycleInv => RepliesTruthful
  BY DEF LifecycleInv, NatsInv
<1> QED
  BY LifecycleInvariance, <1>1, PTL

\* Without that race Start returns nil only when all topics are subscribed,
\* and an error only after Connect or a subscription failed.
THEOREM StartTellsTheTruth == Spec => []StartHonest
<1>1. LifecycleInv => StartHonest
  BY DEF LifecycleInv, NatsInv
<1> QED
  BY LifecycleInvariance, <1>1, PTL
=============================================================================
