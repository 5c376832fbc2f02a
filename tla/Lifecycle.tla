------------------------------- MODULE Lifecycle -------------------------------
(***************************************************************************)
(* Start and Stop of a source (source.go) and of a processor               *)
(* (processor.go), which are the same code, with the controller and the    *)
(* health server they own (controller.go, health.go of pkg/flowctl).       *)
(*                                                                         *)
(* Callers are goroutines of the program that call Start and Stop, each    *)
(* one call at a time; the mutex of the component only covers the first    *)
(* statements of each.  Around them run the goroutine that serves gRPC,    *)
(* the heartbeats, the streams, and the context given to Start, which may  *)
(* end.  A port can be taken by another process, the control plane can be  *)
(* out of reach, refuse or leave a call without an answer, and a server    *)
(* can cease to accept connections, at any time.                           *)
(***************************************************************************)
EXTENDS Naturals

CONSTANT Callers

VARIABLES
  flowctl,     \* whether there is a controller (FlowctlConfig.Enabled): fixed
  pc,          \* per caller: "rest", or the next step of its Start or Stop
  started,     \* the flag of the source or processor
  stopCh,      \* whether stopCh is closed
  panicked,    \* a goroutine panicked: the process is gone
  overlapped,  \* history: a call began while another one was running
  health,      \* the status of the health server
  healthServer, \* the HTTP server of /health and /ready: "nil", "serving", or
               \* "failed" when its Serve has ended with an error
  conn,        \* the controller's conn: "nil", "open", "closed"
  leaked,      \* an open connection was overwritten
  hbRunning,   \* heartbeatRunning
  stopHb,      \* whether stopHeartbeat is closed
  beats,       \* heartbeat goroutines
  listening,   \* Endpoint is bound
  server,      \* the gRPC server: "nil", "new", "serving", "stopped", or
               \* "failed" when its Serve has ended with an error
  serveDue,    \* the goroutine that calls Serve has not run yet
  busy,        \* a stream is being served
  draining,    \* streams of servers that were stopped are still served
  ctxDone      \* the context given to Start has ended

flagVars   == <<flowctl, started, stopCh, panicked, overlapped>>
healthVars == <<health, healthServer>>
beatVars   == <<hbRunning, stopHb, beats>>
ctrlVars   == <<conn, leaked, beatVars>>
serverVars == <<listening, server, serveDue, busy, draining>>
vars == <<pc, flagVars, healthVars, ctrlVars, serverVars, ctxDone>>

StartSteps == {"starting", "listenHealth", "dial", "register", "heartbeat",
               "listen", "serve", "ready"}
FailSteps  == {"fail", "failConn", "failClose", "failForget", "failHealth",
               "failReset"}
StopSteps  == {"stopping", "stop", "stopConn", "stopClose", "stopForget",
               "drain", "drained", "stopHealth"}

TypeOK ==
  /\ flowctl \in BOOLEAN
  /\ pc \in [Callers -> {"rest"} \cup StartSteps \cup FailSteps \cup StopSteps]
  /\ started \in BOOLEAN
  /\ stopCh \in BOOLEAN
  /\ panicked \in BOOLEAN
  /\ overlapped \in BOOLEAN
  /\ health \in {"STARTING", "HEALTHY", "UNHEALTHY", "STOPPING"}
  /\ healthServer \in {"nil", "serving", "failed"}
  /\ conn \in {"nil", "open", "closed"}
  /\ leaked \in BOOLEAN
  /\ hbRunning \in BOOLEAN
  /\ stopHb \in BOOLEAN
  /\ beats \in Nat
  /\ listening \in BOOLEAN
  /\ server \in {"nil", "new", "serving", "failed", "stopped"}
  /\ serveDue \in BOOLEAN
  /\ busy \in BOOLEAN
  /\ draining \in BOOLEAN
  /\ ctxDone \in BOOLEAN

Init ==
  /\ flowctl \in BOOLEAN
  /\ pc = [t \in Callers |-> "rest"]
  /\ started = FALSE
  /\ stopCh = FALSE
  /\ panicked = FALSE
  /\ overlapped = FALSE
  /\ health = "STARTING"
  /\ healthServer = "nil"
  /\ conn = "nil"
  /\ leaked = FALSE
  /\ hbRunning = FALSE
  /\ stopHb = FALSE
  /\ beats = 0
  /\ listening = FALSE
  /\ server = "nil"
  /\ serveDue = FALSE
  /\ busy = FALSE
  /\ draining = FALSE
  /\ ctxDone = FALSE

\* Caller t, whose next step is one of here, goes on to there.
Step(t, here, there) ==
  /\ ~panicked
  /\ pc[t] \in here
  /\ pc' = [pc EXCEPT ![t] = there]

\* A call that does something begins.
Begin(t, there) ==
  /\ Step(t, {"rest"}, there)
  /\ overlapped' = (overlapped \/ \E u \in Callers \ {t} : pc[u] # "rest")

-------------------------------------------------------------------------------
(* Start.  An error sends it to "fail", where its deferred function begins. *)

\* The component is marked as started before anything is.  A Start that finds
\* the mark returns nil at once, which changes nothing.
CallStart(t) ==
  /\ Begin(t, "starting")
  /\ ~started
  /\ started' = TRUE
  /\ UNCHANGED <<flowctl, stopCh, panicked, healthVars, ctrlVars, serverVars,
                 ctxDone>>

SetStarting(t) ==
  /\ Step(t, {"starting"}, "listenHealth")
  /\ health' = "STARTING"
  /\ UNCHANGED <<flagVars, healthServer, ctrlVars, serverVars, ctxDone>>

\* HealthServer.Start: it returns nil at once when there is a server, even one
\* that has failed.
HealthStart(t) ==
  /\ Step(t, {"listenHealth"}, IF flowctl THEN "dial" ELSE "listen")
  /\ healthServer' = IF healthServer = "nil" THEN "serving" ELSE healthServer
  /\ UNCHANGED <<flagVars, health, ctrlVars, serverVars, ctxDone>>

HealthStartFails(t) ==
  /\ Step(t, {"listenHealth"}, "fail")
  /\ healthServer = "nil"
  /\ UNCHANGED <<flagVars, healthVars, ctrlVars, serverVars, ctxDone>>

\* Register waits for the connection as long as the context lasts.
Dial(t) ==
  /\ Step(t, {"dial"}, "register")
  /\ ~ctxDone
  /\ conn' = "open"
  /\ leaked' = (leaked \/ conn = "open")
  /\ UNCHANGED <<flagVars, healthVars, beatVars, serverVars, ctxDone>>

\* Variant for a mutation run: the dial is not given the context.
DialWithoutContext(t) == FALSE

DialFails(t) ==
  /\ Step(t, {"dial"}, "fail")
  /\ ctxDone
  /\ UNCHANGED <<flagVars, healthVars, ctrlVars, serverVars, ctxDone>>

\* A call to the control plane may wait for its answer until its context ends or
\* its connection is closed; an open one that was overwritten never is.
Unanswered == ~ctxDone /\ (conn = "open" \/ leaked)

\* RegisterComponent, on a connection that another caller may have closed.
Register(t) ==
  /\ Step(t, {"register"}, "heartbeat")
  /\ conn = "open"
  /\ ~ctxDone
  /\ UNCHANGED <<flagVars, healthVars, ctrlVars, serverVars, ctxDone>>

RegisterFails(t) ==
  /\ Step(t, {"register"}, "fail")
  /\ UNCHANGED <<flagVars, healthVars, ctrlVars, serverVars, ctxDone>>

\* Variant for a mutation run: heartbeatRunning is not looked at.
StartHeartbeatAgain(t) ==
  /\ Step(t, {"heartbeat"}, "listen")
  /\ conn # "nil"
  /\ hbRunning' = TRUE
  /\ beats' = beats + 1
  /\ UNCHANGED <<flagVars, healthVars, conn, leaked, stopHb, serverVars, ctxDone>>

\* Controller.Start
StartHeartbeat(t) ==
  /\ Step(t, {"heartbeat"}, IF conn = "nil" THEN "fail" ELSE "listen")
  /\ IF conn = "nil" \/ hbRunning
     THEN UNCHANGED <<hbRunning, beats>>
     ELSE hbRunning' = TRUE /\ beats' = beats + 1
  /\ UNCHANGED <<flagVars, healthVars, conn, leaked, stopHb, serverVars, ctxDone>>

Listen(t) ==
  /\ Step(t, {"listen"}, "serve")
  /\ ~listening
  /\ listening' = TRUE
  /\ UNCHANGED <<flagVars, healthVars, ctrlVars, server, serveDue, busy, draining,
                 ctxDone>>

ListenFails(t) ==
  /\ Step(t, {"listen"}, "fail")
  /\ UNCHANGED <<flagVars, healthVars, ctrlVars, serverVars, ctxDone>>

NewServer(t) ==
  /\ Step(t, {"serve"}, "ready")
  /\ server' = "new"
  /\ serveDue' = TRUE
  /\ UNCHANGED <<flagVars, healthVars, ctrlVars, listening, busy, draining, ctxDone>>

SetHealthy(t) ==
  /\ Step(t, {"ready"}, "rest")
  /\ health' = "HEALTHY"
  /\ UNCHANGED <<flagVars, healthServer, ctrlVars, serverVars, ctxDone>>

-------------------------------------------------------------------------------
(* Stop, and the deferred function of a Start that failed.  The two share   *)
(* Controller.Stop and HealthServer.Stop.                                   *)

Panic(t) ==
  /\ panicked' = TRUE
  /\ UNCHANGED <<flowctl, started, stopCh, overlapped, healthVars, ctrlVars,
                 serverVars, ctxDone>>

\* close(stopCh) panics when it is closed: nothing makes it anew.
CallStop(t) ==
  /\ Begin(t, "stopping")
  /\ started
  /\ ~stopCh
  /\ started' = FALSE
  /\ stopCh' = TRUE
  /\ UNCHANGED <<flowctl, panicked, healthVars, ctrlVars, serverVars, ctxDone>>

CallStopAgain(t) ==
  /\ Step(t, {"rest"}, "rest")
  /\ started
  /\ stopCh
  /\ Panic(t)

\* Variant for a mutation run: the status is left as it is until the end.
SetStoppingLate(t) ==
  /\ Step(t, {"stopping"}, IF flowctl THEN "stop" ELSE "drain")
  /\ UNCHANGED <<flagVars, healthVars, ctrlVars, serverVars, ctxDone>>

SetStopping(t) ==
  /\ Step(t, {"stopping"}, IF flowctl THEN "stop" ELSE "drain")
  /\ health' = "STOPPING"
  /\ UNCHANGED <<flagVars, healthServer, ctrlVars, serverVars, ctxDone>>

\* What follows Controller.Stop.
AfterController(t) == IF pc[t] \in FailSteps THEN "failHealth" ELSE "drain"

\* Controller.Stop, under its mutex; like stopCh, stopHeartbeat is not made anew.
StopHeartbeat(t) ==
  /\ Step(t, {"fail", "stop"},
          IF ~flowctl THEN AfterController(t)
          ELSE IF pc[t] = "fail" THEN "failConn" ELSE "stopConn")
  /\ IF flowctl /\ hbRunning
     THEN ~stopHb /\ stopHb' = TRUE /\ hbRunning' = FALSE
     ELSE UNCHANGED <<stopHb, hbRunning>>
  /\ UNCHANGED <<flagVars, healthVars, conn, leaked, beats, serverVars, ctxDone>>

StopHeartbeatAgain(t) ==
  /\ Step(t, {"fail", "stop"}, "rest")
  /\ flowctl /\ hbRunning /\ stopHb
  /\ Panic(t)

\* The connection is looked at and closed without the mutex.
CheckConn(t) ==
  /\ Step(t, {"failConn", "stopConn"},
          IF conn = "nil" THEN AfterController(t)
          ELSE IF pc[t] = "failConn" THEN "failClose" ELSE "stopClose")
  /\ UNCHANGED <<flagVars, healthVars, ctrlVars, serverVars, ctxDone>>

\* Closing a connection that is closed is an error, which leaves it in place.
CloseConn(t) ==
  /\ Step(t, {"failClose", "stopClose"},
          CASE conn = "closed" -> AfterController(t)
            [] conn # "closed" /\ pc[t] = "failClose" -> "failForget"
            [] OTHER -> "stopForget")
  /\ conn # "nil"
  /\ conn' = "closed"
  /\ UNCHANGED <<flagVars, healthVars, leaked, beatVars, serverVars, ctxDone>>

\* Variant for a mutation run: a Start that failed does not reset the field.
ForgetConnOnStop(t) ==
  /\ Step(t, {"failForget", "stopForget"}, AfterController(t))
  /\ conn' = IF pc[t] = "stopForget" THEN "nil" ELSE conn
  /\ UNCHANGED <<flagVars, healthVars, leaked, beatVars, serverVars, ctxDone>>

\* The field is set to nil, whatever another caller has put there since.
ForgetConn(t) ==
  /\ Step(t, {"failForget", "stopForget"}, AfterController(t))
  /\ conn' = "nil"
  /\ leaked' = (leaked \/ conn = "open")
  /\ UNCHANGED <<flagVars, healthVars, beatVars, serverVars, ctxDone>>

\* Another caller has set it to nil since it was looked at.
CloseNilConn(t) ==
  /\ Step(t, {"failClose", "stopClose"}, "rest")
  /\ conn = "nil"
  /\ Panic(t)

\* GracefulStop closes the listener of the server, or leaves that to Serve when
\* Serve has not run yet, and waits for the streams.
CloseListeners(t) ==
  /\ Step(t, {"drain"}, "drained")
  /\ server' = IF server = "nil" THEN "nil" ELSE "stopped"
  /\ listening' = (listening /\ server # "serving")
  /\ draining' = (draining \/ busy)
  /\ busy' = FALSE
  /\ UNCHANGED <<flagVars, healthVars, ctrlVars, serveDue, ctxDone>>

Drained(t) ==
  /\ Step(t, {"drained"}, "stopHealth")
  /\ ~draining
  /\ UNCHANGED <<flagVars, healthVars, ctrlVars, serverVars, ctxDone>>

\* Variant for a mutation run: the status is reset to HealthStatusUnknown.
HealthStopUnknown(t) ==
  /\ Step(t, {"failHealth", "stopHealth"},
          IF pc[t] = "failHealth" THEN "failReset" ELSE "rest")
  /\ health' = "UNKNOWN"
  /\ healthServer' = "nil"
  /\ UNCHANGED <<flagVars, ctrlVars, serverVars, ctxDone>>

\* HealthServer.Stop
HealthStop(t) ==
  /\ Step(t, {"failHealth", "stopHealth"},
          IF pc[t] = "failHealth" THEN "failReset" ELSE "rest")
  /\ health' = "STOPPING"
  /\ healthServer' = "nil"
  /\ UNCHANGED <<flagVars, ctrlVars, serverVars, ctxDone>>

Reset(t) ==
  /\ Step(t, {"failReset"}, "rest")
  /\ started' = FALSE
  /\ UNCHANGED <<flowctl, stopCh, panicked, overlapped, healthVars, ctrlVars,
                 serverVars, ctxDone>>

-------------------------------------------------------------------------------
(* The goroutines a component starts, and its streams *)

\* Serve on a server that was stopped before closes the listener.
Serve ==
  /\ ~panicked
  /\ serveDue
  /\ serveDue' = FALSE
  /\ server' = IF server = "new" THEN "serving" ELSE server
  /\ listening' = (listening /\ server # "stopped")
  /\ UNCHANGED <<pc, flagVars, healthVars, ctrlVars, busy, draining, ctxDone>>

\* The accept loop of the gRPC server ends with an error, which is only logged:
\* its listener is closed and the status stays as it is.
ServeFails ==
  /\ ~panicked
  /\ server = "serving"
  /\ server' = "failed"
  /\ listening' = FALSE
  /\ UNCHANGED <<pc, flagVars, healthVars, ctrlVars, serveDue, busy, draining, ctxDone>>

\* The same for the health server; the field is not set back to nil.
HealthServeFails ==
  /\ ~panicked
  /\ healthServer = "serving"
  /\ healthServer' = "failed"
  /\ UNCHANGED <<pc, flagVars, health, ctrlVars, serverVars, ctxDone>>

\* Variant for a mutation run: the heartbeats only end with the context.
HeartbeatEndsWithContext ==
  /\ ~panicked
  /\ beats > 0
  /\ ctxDone
  /\ beats' = beats - 1
  /\ UNCHANGED <<pc, flagVars, healthVars, conn, leaked, hbRunning, stopHb,
                 serverVars, ctxDone>>

\* The loop of startHeartbeat ends; sending a heartbeat changes nothing here, but
\* the loop does not look at stopHeartbeat while one is unanswered.
HeartbeatEnds ==
  /\ ~panicked
  /\ beats > 0
  /\ stopHb \/ ctxDone
  /\ beats' = beats - 1
  /\ UNCHANGED <<pc, flagVars, healthVars, conn, leaked, hbRunning, stopHb,
                 serverVars, ctxDone>>

\* A connection that was accepted outlives the accept loop.
StreamBegins ==
  /\ ~panicked
  /\ server \in {"serving", "failed"}
  /\ ~busy
  /\ busy' = TRUE
  /\ UNCHANGED <<pc, flagVars, healthVars, ctrlVars, listening, server, serveDue,
                 draining, ctxDone>>

\* A stream ends; one of a source that fails makes the source unhealthy.
StreamEnds ==
  /\ ~panicked
  /\ \/ busy /\ busy' = FALSE /\ UNCHANGED draining
     \/ draining /\ draining' = FALSE /\ UNCHANGED busy
  /\ health' \in {health, "UNHEALTHY"}
  /\ UNCHANGED <<pc, flagVars, healthServer, ctrlVars, listening, server, serveDue,
                 ctxDone>>

ContextEnds ==
  /\ ~ctxDone
  /\ ctxDone' = TRUE
  /\ UNCHANGED <<pc, flagVars, healthVars, ctrlVars, serverVars>>

-------------------------------------------------------------------------------
Starting(t) ==
  \/ SetStarting(t)
  \/ HealthStart(t)
  \/ HealthStartFails(t)
  \/ Dial(t)
  \/ DialFails(t)
  \/ Register(t)
  \/ RegisterFails(t)
  \/ StartHeartbeat(t)
  \/ Listen(t)
  \/ ListenFails(t)
  \/ NewServer(t)
  \/ SetHealthy(t)

Stopping(t) ==
  \/ SetStopping(t)
  \/ StopHeartbeat(t)
  \/ StopHeartbeatAgain(t)
  \/ CheckConn(t)
  \/ CloseConn(t)
  \/ CloseNilConn(t)
  \/ ForgetConn(t)
  \/ CloseListeners(t)
  \/ Drained(t)
  \/ HealthStop(t)
  \/ Reset(t)

Call(t) == CallStart(t) \/ CallStop(t) \/ CallStopAgain(t)

Next ==
  \/ \E t \in Callers : Call(t) \/ Starting(t) \/ Stopping(t)
  \/ Serve
  \/ ServeFails
  \/ HealthServeFails
  \/ HeartbeatEnds
  \/ StreamBegins
  \/ StreamEnds
  \/ ContextEnds

Spec == Init /\ [][Next]_vars

\* Caller t is in a call to the control plane that nothing need end: the dial
\* blocks until there is a connection, RegisterComponent until there is an answer.
Waits(t) ==
  \/ pc[t] = "dial" /\ ~ctxDone
  \/ pc[t] = "register" /\ Unanswered

\* Goroutines that can take a step do, except one that waits for the control
\* plane.  Whether Start and Stop are called, whether a stream begins or ends, and
\* whether a server fails, is left open.
FairSpec ==
  /\ Spec
  /\ \A t \in Callers : WF_vars((Starting(t) \/ Stopping(t)) /\ ~Waits(t))
  /\ WF_vars(Serve)
  /\ WF_vars(HeartbeatEnds /\ ~Unanswered)

-------------------------------------------------------------------------------
(* Properties *)

AtRest == ~started /\ ~panicked /\ \A t \in Callers : pc[t] = "rest"

\* As long as its calls are made one after the other, a component at rest, after
\* a Stop or after a Start that failed at any step, holds nothing: no port (but
\* for the moment until Serve finds its server stopped), no connection to the
\* control plane, no heartbeat that will not end, no stream, and no status that
\* reads as ready (source.go:152-162, 208-243).
ReleasedAtRest ==
  AtRest /\ ~overlapped =>
    /\ healthServer = "nil"
    /\ listening => serveDue
    /\ conn = "nil" /\ ~leaked
    /\ ~hbRunning
    /\ beats > 0 => stopHb \/ ctxDone
    /\ ~busy /\ ~draining
    /\ health # "HEALTHY"

\* As long as its calls are made one after the other, while the status is
\* HEALTHY, which /ready turns into 200, both servers of the component were started
\* and neither was stopped: the status is the last thing Start sets and the first
\* that Stop takes back (source.go:203, 219).  It does not say that they accept
\* connections: the error that ends an accept loop is only logged and the status
\* stays (source.go:197-199, health.go:185-187), and this is the one way in which
\* the endpoint of a component that reads as ready is not bound.
ReadyServes ==
  health = "HEALTHY" /\ ~overlapped =>
    /\ healthServer # "nil"
    /\ server \in {"new", "serving", "failed"}
    /\ listening <=> server # "failed"

\* However Start and Stop are interleaved, and however often they are called,
\* at most one goroutine sends heartbeats that has not been told to end
\* (controller.go:209-231).
OneHeartbeat == beats > 1 => stopHb

\* A heartbeat goroutine ends once it is told to, unless the control plane leaves
\* a heartbeat unanswered on a connection that stays open
\* (controller.go:261-266, 357).
HeartbeatsEnd == stopHb ~> (beats = 0 \/ Unanswered \/ panicked)

\* Every Start and Stop returns if streams end, except a Start that waits for
\* the control plane within its context, for a connection or for the answer to
\* RegisterComponent: no new stream is admitted while Stop waits for those there
\* are (source.go:228-231, controller.go:66-71, 112).
CallsReturn ==
  []<>(~busy /\ ~draining) =>
    \A t \in Callers :
      pc[t] # "rest" ~> (pc[t] = "rest" \/ Waits(t) \/ panicked)

\* docs/bounded-drain-remediation.md:97: start/stop cannot leave a stale
\* readiness signal.
NoStaleReadiness == AtRest => health # "HEALTHY"

\* pkg/source/health_test.go:30-36: after a Start that failed, Start is called
\* again.  Whatever made the starts fail, a component that was never stopped does
\* not panic.
FailedStartRetries == ~stopCh => ~panicked
===============================================================================
