-------------------------- MODULE ServiceLifecycle --------------------------
(***************************************************************************)
(* `tagent startService`: the goroutines of one service process and the    *)
(* signals it gets.  The main goroutine creates and starts the service,    *)
(* asks HVS for a report and waits for a signal; the web server and the    *)
(* report retry loop run beside it, and in outbound mode the callbacks of  *)
(* the NATS subscriptions (OutboundService).  Any of them can end the      *)
(* process.                                                                *)
(***************************************************************************)
EXTENDS OutboundService, Integers

CONSTANT MaxActive   \* bound on the HTTP requests served at the same time

ASSUME MaxActiveAssumption == MaxActive \in Nat \ {0}

VARIABLES
  mode,      \* cfg.Mode: "http" or "outbound"
  main,      \* where the main goroutine is
  exit,      \* how the process ended
  server,    \* the web server's goroutine
  active,    \* HTTP requests in progress
  retry,     \* the goroutine of asyncReportCreateRetry
  tick,      \* its ticker's channel holds a tick
  quit,      \* its quit channel is closed
  \* history
  signalled, \* a signal was sent to the process
  reported,  \* HVS accepted the request for a report
  gaveUp,    \* an attempt ended without a request and without an error
  lateTick   \* a tick came while an attempt was running or after quit was closed

mainVars  == <<mode, main, exit>>
retryVars == <<retry, tick, quit, lateTick>>
answers   == <<reported, gaveUp>>
vars      == <<mainVars, server, active, retryVars, signalled, answers, natsVars>>

Alive == main # "exited"

\* os.Exit, log.Fatalf, the return of main or a panic ends every goroutine.
Exits(status) == main' = "exited" /\ exit' = status /\ UNCHANGED mode

-----------------------------------------------------------------------------
(* The main goroutine.                                                      *)

\* NewTrustAgentService refuses an unknown mode, port 0, or no NATS host id.
NewTrustAgentService ==
  /\ main = "new"
  /\ \/ main' = "start" /\ UNCHANGED <<mode, exit>>
     \/ Exits("error")
  /\ UNCHANGED <<server, active, retryVars, signalled, answers, natsVars>>

\* signal.Notify(stop, ...), then Start of the web service, which never fails:
\* the goroutine that listens finds out.
StartWebService ==
  /\ main = "start" /\ mode = "http"
  /\ server' = "serving"
  /\ main' = "report"
  /\ UNCHANGED <<mode, exit, active, retryVars, signalled, answers, natsVars>>

\* Start of the outbound service, one step at a time.  An error leaves what was
\* subscribed before it being served, and main sends to the channel only itself
\* receives from.
StartOutboundService ==
  /\ main = "start" /\ mode = "outbound"
  /\ StartStep
  /\ main' = IF pc' = "started" THEN "report" ELSE IF pc' = "failed" THEN "blocked" ELSE "start"
  /\ UNCHANGED <<mode, exit, server, active, retryVars, signalled, answers>>

\* The callbacks run in goroutines of their own.
ServeTopic ==
  /\ Alive /\ mode = "outbound"
  /\ Callback
  /\ UNCHANGED <<mainVars, server, active, retryVars, signalled, answers>>

\* sendAsyncReportRequest returns nil: HVS was asked for a report, or the error
\* is one that a user has to deal with (no client, no platform-info, an expired
\* token) or HVS does not know the host, and nothing was asked.
ReturnsNil ==
  \/ reported' = TRUE /\ UNCHANGED gaveUp
  \/ gaveUp' = TRUE /\ UNCHANGED reported

\* Mutant of SendAsyncReport: a failed attempt is only logged.
SendAsyncReportOnce ==
  /\ main = "report"
  /\ main' = "waiting"
  /\ ReturnsNil \/ UNCHANGED answers
  /\ UNCHANGED <<mode, exit, server, active, retryVars, signalled, natsVars>>

\* The first attempt; one that returns an error starts the retry loop.  A hardware
\* UUID that cannot be parsed panics: main recovers and returns, status 0.
SendAsyncReport ==
  /\ main = "report"
  /\ \/ main' = "waiting" /\ ReturnsNil /\ UNCHANGED <<mode, exit, retry>>
     \/ main' = "waiting" /\ retry' = "select" /\ UNCHANGED <<mode, exit, answers>>
     \/ Exits("recovered") /\ UNCHANGED <<answers, retry>>
  /\ UNCHANGED <<server, active, tick, quit, lateTick, signalled, natsVars>>

\* SIGINT, SIGHUP or SIGTERM.  Before Notify it kills the process; afterwards
\* it is offered to the channel, which has no buffer, and is dropped unless
\* main is waiting to receive it.
Signal ==
  /\ Alive
  /\ signalled' = TRUE
  /\ \/ main = "new" /\ Exits("killed")
     \/ main = "waiting" /\ main' = "stopping" /\ UNCHANGED <<mode, exit>>
     \/ main \notin {"new", "waiting"} /\ UNCHANGED mainVars
  /\ UNCHANGED <<server, active, retryVars, answers, natsVars>>

\* SIGKILL, or the host goes down.
Kill ==
  /\ Alive
  /\ Exits("killed")
  /\ UNCHANGED <<server, active, retryVars, signalled, answers, natsVars>>

\* Stop of the outbound service closes the connection; main returns.
StopOutboundService ==
  /\ main = "stopping" /\ mode = "outbound"
  /\ Stop
  /\ Exits("ok")
  /\ UNCHANGED <<server, active, retryVars, signalled, answers>>

\* Stop of the web service: Shutdown closes the listener ...
Shutdown ==
  /\ main = "stopping" /\ mode = "http"
  /\ server' = "closed"
  /\ main' = "draining"
  /\ UNCHANGED <<mode, exit, active, retryVars, signalled, answers, natsVars>>

\* ... and waits until no request is in progress ...
Drained ==
  /\ main = "draining"
  /\ active = 0
  /\ Exits("ok")
  /\ UNCHANGED <<server, active, retryVars, signalled, answers, natsVars>>

\* Mutant of DrainTimeout: Shutdown gets a context without a deadline.
DrainForever == main = "draining" /\ active > 0 /\ UNCHANGED vars

\* ... or for five seconds.
DrainTimeout ==
  /\ main = "draining"
  /\ active > 0
  /\ Exits("error")
  /\ UNCHANGED <<server, active, retryVars, signalled, answers, natsVars>>

-----------------------------------------------------------------------------
(* The web server's goroutine and its requests.                             *)

\* ListenAndServeTLS returns, because it cannot listen or because Shutdown was
\* called, and log.Fatalf ends the process in both cases.
ServerReturns ==
  /\ Alive /\ mode = "http"
  /\ server \in {"serving", "closed"}
  /\ Exits("error")
  /\ UNCHANGED <<server, active, retryVars, signalled, answers, natsVars>>

RequestBegins ==
  /\ Alive /\ mode = "http" /\ server = "serving"
  /\ active < MaxActive
  /\ active' = active + 1
  /\ UNCHANGED <<mainVars, server, retryVars, signalled, answers, natsVars>>

\* Mutant of RequestEnds: a request that was ended by WriteTimeout ends again.
RequestEndsTwice ==
  /\ Alive
  /\ active' \in {active - 1, active - 2}
  /\ UNCHANGED <<mainVars, server, retryVars, signalled, answers, natsVars>>

RequestEnds ==
  /\ Alive
  /\ active > 0
  /\ active' = active - 1
  /\ UNCHANGED <<mainVars, server, retryVars, signalled, answers, natsVars>>

-----------------------------------------------------------------------------
(* The goroutine of asyncReportCreateRetry.                                 *)

\* The ticker fires; its channel holds one tick and further ones are dropped.
Tick ==
  /\ Alive
  /\ retry \in {"select", "sending"}
  /\ ~tick
  /\ tick' = TRUE
  /\ lateTick' = (lateTick \/ retry = "sending" \/ quit)
  /\ UNCHANGED <<mainVars, server, active, retry, quit, signalled, answers, natsVars>>

\* Mutant of RetryBegins: the select has a default case instead of the ticker.
RetryBeginsAtOnce ==
  /\ Alive
  /\ retry = "select"
  /\ retry' = "sending"
  /\ UNCHANGED <<mainVars, server, active, tick, quit, lateTick, signalled, answers, natsVars>>

\* case <-ticker.C
RetryBegins ==
  /\ Alive
  /\ retry = "select"
  /\ tick
  /\ tick' = FALSE
  /\ retry' = "sending"
  /\ UNCHANGED <<mainVars, server, active, quit, lateTick, signalled, answers, natsVars>>

\* An error, or the panic of SendAsyncReport, which nobody recovers here.
RetryFails ==
  /\ Alive
  /\ retry = "sending"
  /\ \/ retry' = "select" /\ UNCHANGED mainVars
     \/ Exits("crash") /\ UNCHANGED retry
  /\ UNCHANGED <<server, active, tick, quit, lateTick, signalled, answers, natsVars>>

\* Mutant of RetrySucceeds: nobody is told to quit.
RetrySucceedsSilently ==
  /\ Alive
  /\ retry = "sending"
  /\ ReturnsNil
  /\ retry' = "select"
  /\ UNCHANGED <<mainVars, server, active, tick, quit, lateTick, signalled, natsVars>>

\* The attempt returns nil, for whichever reason: close(quit), which panics if it
\* is closed already.
RetrySucceeds ==
  /\ Alive
  /\ retry = "sending"
  /\ ReturnsNil
  /\ \/ ~quit /\ quit' = TRUE /\ retry' = "select" /\ UNCHANGED mainVars
     \/ quit /\ Exits("panic") /\ UNCHANGED <<quit, retry>>
  /\ UNCHANGED <<server, active, tick, lateTick, signalled, natsVars>>

\* case <-quit; select takes any case that is ready.
RetryQuits ==
  /\ Alive
  /\ retry = "select"
  /\ quit
  /\ retry' = "done"
  /\ tick' = FALSE
  /\ UNCHANGED <<mainVars, server, active, quit, lateTick, signalled, answers, natsVars>>

-----------------------------------------------------------------------------
Init ==
  /\ mode \in {"http", "outbound"}
  /\ main = "new" /\ exit = "none"
  /\ server = "none" /\ active = 0
  /\ retry = "none" /\ tick = FALSE /\ quit = FALSE
  /\ signalled = FALSE /\ reported = FALSE /\ gaveUp = FALSE /\ lateTick = FALSE
  /\ NatsInit

MainStep ==
  \/ NewTrustAgentService \/ StartWebService \/ StartOutboundService
  \/ SendAsyncReport
  \/ StopOutboundService \/ Shutdown \/ Drained \/ DrainTimeout

RetryStep == RetryBegins \/ RetryFails \/ RetrySucceeds \/ RetryQuits

Next ==
  \/ MainStep
  \/ Signal \/ Kill
  \/ ServerReturns \/ RequestBegins \/ RequestEnds \/ ServeTopic
  \/ Tick \/ RetryStep

Spec == Init /\ [][Next]_vars

\* Goroutines that can run do, the ticker fires, not every attempt returns an
\* error (nothing is assumed of why it returns nil), and select does not pass
\* over the same ready case for ever.  Nothing is assumed of requests, callbacks,
\* signals or the listener.
FairSpec ==
  /\ Spec
  /\ WF_vars(MainStep) /\ WF_vars(Tick) /\ WF_vars(RetryStep)
  /\ SF_vars(RetrySucceeds) /\ SF_vars(RetryQuits)

-----------------------------------------------------------------------------
(* Properties.                                                              *)

\* The variables of the process, and of the outbound service in it, have the
\* types their declarations say.
TypeOK ==
  /\ mode \in {"http", "outbound"}
  /\ main \in {"new", "start", "blocked", "report", "waiting", "stopping", "draining", "exited"}
  /\ exit \in {"none", "ok", "error", "killed", "recovered", "crash", "panic"}
  /\ server \in {"none", "serving", "closed"}
  /\ active \in 0 .. MaxActive
  /\ retry \in {"none", "select", "sending", "done"}
  /\ {tick, quit, signalled, reported, gaveUp, lateTick} \subseteq BOOLEAN
  /\ NatsTypeOK

\* The retry loop can take the service down with it (close of a closed
\* channel), but only when a tick came during the attempt that succeeded or
\* before the loop noticed quit (main.go, asyncReportCreateRetry).
PanicNeedsLateTick == exit = "panic" => lateTick

\* A service that has taken a signal stops, even if a request never ends.
StopEnds == main = "stopping" ~> ~Alive

\* An attempt that fails with an error is repeated until HVS has accepted a
\* request for a report, or until an attempt met one of the conditions on which
\* sendAsyncReportRequest returns nil without a request (main.go:746-790) and
\* nobody asks again, unless the process ends or its start failed.
ReportRequested == <>(reported \/ gaveUp \/ ~Alive \/ main = "blocked")

\* The retry loop, once started, ends: after an attempt that returned nil.
RetryEnds == retry = "select" ~> (retry = "done" \/ ~Alive)

\* main.go: "Setup signal handlers to terminate service".  A process that is
\* sent a signal terminates.
SignalTerminates == signalled ~> ~Alive
=============================================================================
