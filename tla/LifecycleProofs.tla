---------------------------- MODULE LifecycleProofs ----------------------------
(***************************************************************************)
(* Proofs about Lifecycle, for every set of callers, with a controller and *)
(* without: type correctness, one heartbeat however calls interleave, and, *)
(* for calls that are made one after the other, that the status reads as   *)
(* ready only between the start and the stop of both servers, and that a   *)
(* component at rest holds nothing.                                        *)
(***************************************************************************)
EXTENDS Lifecycle, TLAPS

\* The abbreviations of tuples, expanded everywhere.
USE DEF flagVars, healthVars, beatVars, ctrlVars, serverVars

-------------------------------------------------------------------------------
(* The invariant: what a component holds when the only call is at p *)

Places == {"rest"} \cup StartSteps \cup FailSteps \cup StopSteps

\* From the moment Start has its server until Stop closes the listeners.
Serving(p) ==
  \/ p \in {"ready", "stopping", "stop", "stopConn", "stopClose", "stopForget", "drain"}
  \/ p = "rest" /\ started

\* The listener goes when the accept loop fails; one that outlives its server
\* waits for Serve to close it.
ServersAt(p) ==
  /\ IF Serving(p)
     THEN server \in {"new", "serving", "failed"} /\ (listening <=> server # "failed")
     ELSE server \in {"nil", "stopped"} /\ ~busy /\ (listening => serveDue \/ p = "serve")
  /\ serveDue => listening /\ server \in {"new", "stopped"}
  /\ server = "new" => serveDue
  /\ p = "serve" => listening /\ ~serveDue
  /\ draining => p = "drained"

HealthAt(p) ==
  /\ health = "HEALTHY" => p = "stopping" \/ (p = "rest" /\ started)
  /\ \/ p \in {"dial", "register", "heartbeat", "listen", "serve", "ready", "stopping"}
     \/ p = "rest" /\ started
     => healthServer # "nil"
  /\ p = "failReset" \/ (p = "rest" /\ ~started) => healthServer = "nil"

\* No connection but one the only call made, or left for Stop to close.
ConnAt(p) ==
  /\ ~leaked
  /\ ~flowctl => conn = "nil"
  /\ \/ p \in {"starting", "listenHealth", "dial", "failHealth", "failReset", "drain",
               "drained", "stopHealth"}
     \/ p = "rest" /\ ~started
     => conn = "nil"
  /\ p \in {"register", "heartbeat", "failClose", "stopClose"} => conn = "open"
  /\ conn = "closed" <=> p \in {"failForget", "stopForget"}

BeatsAt(p) ==
  /\ p \in {"dial", "register", "heartbeat"} => flowctl
  /\ hbRunning =>
       /\ flowctl
       /\ \/ p \in {"listen", "serve", "ready", "fail", "stopping", "stop"}
          \/ p = "rest" /\ started

At(p) ==
  /\ p \in StartSteps \cup FailSteps => started
  /\ p \in StopSteps => ~started
  /\ ServersAt(p) /\ HealthAt(p) /\ ConnAt(p) /\ BeatsAt(p)

\* Calls made one after the other: at most one is running.
OneCall ==
  ~overlapped /\ ~panicked =>
    /\ \A t, u \in Callers : pc[t] # "rest" /\ pc[u] # "rest" => t = u
    /\ \A t \in Callers, p \in Places \ {"rest"} : pc[t] = p => At(p)
    /\ (\A t \in Callers : pc[t] = "rest") => At("rest")

\* A heartbeat that has not been told to end is the one of hbRunning.
BeatsInv == ~stopHb => beats <= 1 /\ (beats = 1 => hbRunning)

-------------------------------------------------------------------------------
(* Type correctness *)

\* Where the caller of a step goes on.
GoesTo(t, p) == pc' = [pc EXCEPT ![t] = p]

LEMMA GoesToType ==
  ASSUME TypeOK, NEW t \in Callers, NEW p \in Places, GoesTo(t, p)
  PROVE  pc' \in [Callers -> Places]
BY DEF GoesTo, TypeOK, Places

LEMMA CloseConnTo ==
  ASSUME NEW t, CloseConn(t)
  PROVE  /\ ~panicked /\ pc[t] \in {"failClose", "stopClose"}
         /\ conn = "closed" => GoesTo(t, AfterController(t))
         /\ conn # "closed" /\ pc[t] = "failClose" => GoesTo(t, "failForget")
         /\ conn # "closed" /\ pc[t] # "failClose" => GoesTo(t, "stopForget")
         /\ conn # "nil" /\ conn' = "closed"
         /\ UNCHANGED <<flagVars, healthVars, leaked, beatVars, serverVars, ctxDone>>
BY Zenon DEF CloseConn, Step, GoesTo

LEMMA StartingGoes ==
  ASSUME NEW t \in Callers, Starting(t) PROVE \E l \in Places : GoesTo(t, l)
<1>1. \E l \in {"listenHealth", "dial", "register", "heartbeat", "listen", "serve", "ready",
                "rest", "fail"} : GoesTo(t, l)
  BY DEF Starting, SetStarting, HealthStart, HealthStartFails, Dial, DialFails, Register,
         RegisterFails, StartHeartbeat, Listen, ListenFails, NewServer, SetHealthy, Step, GoesTo
<1>. QED BY <1>1 DEF Places, StartSteps, FailSteps

LEMMA StoppingGoes ==
  ASSUME NEW t \in Callers, Stopping(t) PROVE \E l \in Places : GoesTo(t, l)
<1>1. AfterController(t) \in {"failHealth", "drain"}
  BY DEF AfterController
<1>2. CASE CloseConn(t)
  <2>1. \E l \in {"failForget", "stopForget", AfterController(t)} : GoesTo(t, l)
    BY <1>2, CloseConnTo
  <2>. QED BY <1>1, <2>1 DEF Places, FailSteps, StopSteps
<1>3. CASE ~CloseConn(t)
  <2>1. \E l \in {"stop", "drain", "failConn", "stopConn", "rest", "failClose", "stopClose",
                  "drained", "stopHealth", "failReset", AfterController(t)} : GoesTo(t, l)
    BY <1>3 DEF Stopping, SetStopping, StopHeartbeat, StopHeartbeatAgain, CheckConn,
           CloseNilConn, ForgetConn, CloseListeners, Drained, HealthStop, Reset, Step, GoesTo
  <2>. QED BY <1>1, <2>1 DEF Places, FailSteps, StopSteps
<1>. QED BY <1>2, <1>3

LEMMA StartingType ==
  ASSUME TypeOK, NEW t \in Callers, Starting(t) PROVE TypeOK'
<1>1. pc' \in [Callers -> Places]
  BY StartingGoes, GoesToType
<1>2. CASE SetStarting(t) \/ HealthStartFails(t) \/ SetHealthy(t) \/ DialFails(t)
            \/ Register(t) \/ RegisterFails(t) \/ ListenFails(t)
  BY <1>1, <1>2 DEF SetStarting, HealthStartFails, SetHealthy, DialFails, Register,
                    RegisterFails, ListenFails, TypeOK, Places
<1>3. CASE HealthStart(t)
  <2>1. healthServer' \in {"nil", "serving", "failed"}
    BY <1>3 DEF HealthStart, TypeOK
  <2>. QED BY <1>1, <1>3, <2>1 DEF HealthStart, TypeOK, Places
<1>4. CASE Dial(t)
  <2>1. leaked' \in BOOLEAN
    BY Zenon, <1>4 DEF Dial
  <2>. QED BY <1>1, <1>4, <2>1 DEF Dial, TypeOK, Places
<1>5. CASE StartHeartbeat(t)
  <2>1. hbRunning' \in BOOLEAN
    BY Zenon, <1>5 DEF StartHeartbeat, TypeOK
  <2>2. beats' \in Nat
    BY <1>5 DEF StartHeartbeat, TypeOK
  <2>. QED BY <1>1, <1>5, <2>1, <2>2 DEF StartHeartbeat, TypeOK, Places
<1>6. CASE Listen(t)
  <2>1. listening' \in BOOLEAN
    BY Zenon, <1>6 DEF Listen
  <2>. QED BY <1>1, <1>6, <2>1 DEF Listen, TypeOK, Places
<1>7. CASE NewServer(t)
  <2>1. serveDue' \in BOOLEAN
    BY Zenon, <1>7 DEF NewServer
  <2>. QED BY <1>1, <1>7, <2>1 DEF NewServer, TypeOK, Places
<1>. QED BY <1>2, <1>3, <1>4, <1>5, <1>6, <1>7 DEF Starting

LEMMA StoppingType ==
  ASSUME TypeOK, NEW t \in Callers, Stopping(t) PROVE TypeOK'
<1>1. pc' \in [Callers -> Places]
  BY StoppingGoes, GoesToType
<1>2. CASE CloseConn(t)
  BY <1>1, <1>2, CloseConnTo DEF TypeOK, Places
<1>3. CASE SetStopping(t) \/ CheckConn(t) \/ Drained(t)
  BY <1>1, <1>3 DEF SetStopping, CheckConn, Drained, TypeOK, Places
<1>4. CASE StopHeartbeatAgain(t) \/ CloseNilConn(t)
  <2>1. panicked' \in BOOLEAN
    BY Zenon, <1>4 DEF StopHeartbeatAgain, CloseNilConn, Panic
  <2>. QED
    BY <1>1, <1>4, <2>1 DEF StopHeartbeatAgain, CloseNilConn, Panic, TypeOK, Places
<1>5. CASE StopHeartbeat(t)
  <2>1. stopHb' \in BOOLEAN /\ hbRunning' \in BOOLEAN
    BY Zenon, <1>5 DEF StopHeartbeat, TypeOK
  <2>. QED BY <1>1, <1>5, <2>1 DEF StopHeartbeat, TypeOK, Places
<1>6. CASE ForgetConn(t)
  <2>1. leaked' \in BOOLEAN
    BY Zenon, <1>6 DEF ForgetConn
  <2>. QED BY <1>1, <1>6, <2>1 DEF ForgetConn, TypeOK, Places
<1>7. CASE CloseListeners(t)
  <2>1. listening' \in BOOLEAN /\ draining' \in BOOLEAN /\ busy' \in BOOLEAN
    BY Zenon, <1>7 DEF CloseListeners
  <2>. QED BY <1>1, <1>7, <2>1 DEF CloseListeners, TypeOK, Places
<1>8. CASE HealthStop(t)
  BY <1>1, <1>8 DEF HealthStop, TypeOK, Places
<1>9. CASE Reset(t)
  <2>1. started' \in BOOLEAN
    BY Zenon, <1>9 DEF Reset
  <2>. QED BY <1>1, <1>9, <2>1 DEF Reset, TypeOK, Places
<1>. QED
  BY <1>2, <1>3, <1>4, <1>5, <1>6, <1>7, <1>8, <1>9 DEF Stopping

LEMMA TypeNext == TypeOK /\ [Next]_vars => TypeOK'
<1>. SUFFICES ASSUME TypeOK, [Next]_vars PROVE TypeOK'
  OBVIOUS
<1>1. ASSUME NEW t \in Callers, Call(t) PROVE TypeOK'
  <2>1. \A l \in {"rest", "starting", "stopping"} : l \in Places
    BY DEF Places, StartSteps, StopSteps
  <2>2. \E l \in {"rest", "starting", "stopping"} : GoesTo(t, l)
    BY <1>1 DEF Call, CallStart, CallStop, CallStopAgain, Begin, Step, GoesTo
  <2>3. pc' \in [Callers -> Places]
    BY <2>1, <2>2, GoesToType
  <2>4. CASE CallStart(t)
    <3>1. started' \in BOOLEAN /\ overlapped' \in BOOLEAN
      BY Zenon, <2>4 DEF CallStart, Begin
    <3>. QED BY <2>3, <2>4, <3>1 DEF CallStart, TypeOK, Places
  <2>5. CASE CallStop(t)
    <3>1. started' \in BOOLEAN /\ stopCh' \in BOOLEAN /\ overlapped' \in BOOLEAN
      BY Zenon, <2>5 DEF CallStop, Begin
    <3>. QED BY <2>3, <2>5, <3>1 DEF CallStop, TypeOK, Places
  <2>6. CASE CallStopAgain(t)
    <3>1. panicked' \in BOOLEAN
      BY Zenon, <2>6 DEF CallStopAgain, Panic
    <3>. QED BY <2>3, <2>6, <3>1 DEF CallStopAgain, Panic, TypeOK, Places
  <2>. QED BY <1>1, <2>4, <2>5, <2>6 DEF Call
<1>2. CASE Serve
  <2>1. serveDue' \in BOOLEAN /\ listening' \in BOOLEAN
    BY Zenon, <1>2 DEF Serve
  <2>. QED BY <1>2, <2>1 DEF Serve, TypeOK
<1>3. CASE HeartbeatEnds
  BY <1>3 DEF HeartbeatEnds, TypeOK
<1>4. CASE StreamBegins \/ StreamEnds \/ ContextEnds
  <2>1. busy' \in BOOLEAN /\ draining' \in BOOLEAN /\ ctxDone' \in BOOLEAN
    BY Zenon, <1>4 DEF StreamBegins, StreamEnds, ContextEnds, TypeOK
  <2>. QED BY <1>4, <2>1 DEF StreamBegins, StreamEnds, ContextEnds, TypeOK
<1>5. CASE ServeFails \/ HealthServeFails
  <2>1. listening' \in BOOLEAN
    BY Zenon, <1>5 DEF ServeFails, HealthServeFails, TypeOK
  <2>. QED BY <1>5, <2>1 DEF ServeFails, HealthServeFails, TypeOK
<1>6. CASE UNCHANGED vars
  BY <1>6 DEF vars, TypeOK
<1>. QED BY <1>1, <1>2, <1>3, <1>4, <1>5, <1>6, StartingType, StoppingType DEF Next

\* Every variable keeps its type.
THEOREM TypeCorrect == Spec => []TypeOK
<1>1. Init => TypeOK
  <2>. SUFFICES ASSUME Init PROVE TypeOK
    OBVIOUS
  <2>1. beats \in Nat
    BY DEF Init
  <2>2. pc \in [Callers -> {"rest"} \cup StartSteps \cup FailSteps \cup StopSteps]
    BY DEF Init
  <2>3. health \in {"STARTING", "HEALTHY", "UNHEALTHY", "STOPPING"} /\ conn \in {"nil", "open", "closed"}
    /\ server \in {"nil", "new", "serving", "failed", "stopped"}
    /\ healthServer \in {"nil", "serving", "failed"}
    BY DEF Init
  <2>. QED BY <2>1, <2>2, <2>3 DEF Init, TypeOK
<1>. QED BY <1>1, TypeNext, PTL DEF Spec

-------------------------------------------------------------------------------
(* The heartbeats *)

\* Three steps change them.
LEMMA BeatSteps ==
  ASSUME [Next]_vars
  PROVE  \/ UNCHANGED beatVars
         \/ \E t \in Callers : StartHeartbeat(t) \/ StopHeartbeat(t)
         \/ HeartbeatEnds
<1>1. ASSUME NEW t \in Callers, Call(t) PROVE UNCHANGED beatVars
  BY <1>1 DEF Call, CallStart, CallStop, CallStopAgain, Panic, ctrlVars
<1>2. ASSUME NEW t \in Callers, Starting(t), ~StartHeartbeat(t) PROVE UNCHANGED beatVars
  BY <1>2 DEF Starting, SetStarting, HealthStart, HealthStartFails, Dial, DialFails, Register,
              RegisterFails, Listen, ListenFails, NewServer, SetHealthy, ctrlVars
<1>3. ASSUME NEW t \in Callers, Stopping(t), ~StopHeartbeat(t) PROVE UNCHANGED beatVars
  <2>1. CASE CloseConn(t)
    BY <2>1, CloseConnTo
  <2>. QED
    BY <1>3, <2>1 DEF Stopping, SetStopping, StopHeartbeatAgain, CheckConn, CloseNilConn,
                      ForgetConn, CloseListeners, Drained, HealthStop, Reset, Panic, ctrlVars
<1>4. CASE Serve \/ ServeFails \/ HealthServeFails \/ StreamBegins \/ StreamEnds
            \/ ContextEnds \/ UNCHANGED vars
  BY <1>4 DEF Serve, ServeFails, HealthServeFails, StreamBegins, StreamEnds, ContextEnds,
              vars, ctrlVars
<1>. QED BY <1>1, <1>2, <1>3, <1>4 DEF Next

LEMMA BeatsNext == TypeOK /\ BeatsInv /\ [Next]_vars => BeatsInv'
<1>. SUFFICES ASSUME TypeOK, BeatsInv, [Next]_vars PROVE BeatsInv'
  OBVIOUS
<1>1. beats \in Nat /\ stopHb \in BOOLEAN /\ hbRunning \in BOOLEAN
  BY DEF TypeOK
<1>2. CASE UNCHANGED beatVars
  BY <1>2 DEF BeatsInv
<1>3. ASSUME NEW t \in Callers, StartHeartbeat(t) PROVE BeatsInv'
  <2>1. CASE conn = "nil" \/ hbRunning
    BY <1>3, <2>1 DEF StartHeartbeat, BeatsInv
  <2>2. CASE ~(conn = "nil" \/ hbRunning)
    BY <1>1, <1>3, <2>2 DEF StartHeartbeat, BeatsInv
  <2>. QED BY <2>1, <2>2
<1>4. ASSUME NEW t \in Callers, StopHeartbeat(t) PROVE BeatsInv'
  BY <1>4 DEF StopHeartbeat, BeatsInv
<1>5. CASE HeartbeatEnds
  BY <1>1, <1>5 DEF HeartbeatEnds, BeatsInv
<1>. QED BY <1>2, <1>3, <1>4, <1>5, BeatSteps

LEMMA BeatsAlways == Spec => [](TypeOK /\ BeatsInv)
<1>1. Init => BeatsInv
  BY DEF Init, BeatsInv
<1>. QED BY <1>1, BeatsNext, TypeNext, TypeCorrect, PTL DEF Spec

\* However calls are interleaved, one goroutine at most sends heartbeats that
\* has not been told to end: stopHeartbeat is closed together with the flag
\* that allows a second one.
THEOREM HeartbeatIsOne == Spec => []OneHeartbeat
<1>1. TypeOK /\ BeatsInv => OneHeartbeat
  BY DEF TypeOK, BeatsInv, OneHeartbeat
<1>. QED BY <1>1, BeatsAlways, PTL

-------------------------------------------------------------------------------
(* Calls made one after the other *)

\* Caller t takes a step: of a call that runs, or the first of a new one.
Turn(t) ==
  \/ pc[t] # "rest" /\ UNCHANGED overlapped
  \/ overlapped' = (overlapped \/ \E u \in Callers \ {t} : pc[u] # "rest")

\* While calls do not overlap, the caller that takes a step is the only one
\* that is not at rest.
LEMMA Alone ==
  ASSUME TypeOK, OneCall, NEW t \in Callers, Turn(t), ~overlapped', ~panicked
  PROVE  /\ ~overlapped
         /\ \A u \in Callers \ {t} : pc[u] = "rest"
         /\ \A p \in Places : pc[t] = p => At(p)
<1>1. ~overlapped /\ \A u \in Callers \ {t} : pc[u] = "rest"
  <2>1. CASE pc[t] # "rest" /\ UNCHANGED overlapped
    <3>1. ~overlapped
      BY <2>1
    <3>2. \A u, v \in Callers : pc[u] # "rest" /\ pc[v] # "rest" => u = v
      BY <3>1 DEF OneCall
    <3>. QED BY <2>1, <3>1, <3>2
  <2>2. CASE overlapped' = (overlapped \/ \E u \in Callers \ {t} : pc[u] # "rest")
    BY <2>2
  <2>. QED BY <2>1, <2>2 DEF Turn
<1>2. ASSUME NEW p \in Places, pc[t] = p PROVE At(p)
  BY <1>1, <1>2 DEF OneCall
<1>. QED BY <1>1, <1>2

\* So a step that takes it from where its own invariant holds to where it
\* holds keeps that of all callers.
LEMMA Moves ==
  ASSUME TypeOK, OneCall, NEW t \in Callers, NEW p \in Places, NEW q \in Places,
         pc[t] = p, GoesTo(t, q), Turn(t),
         At(p) /\ ~overlapped /\ ~panicked /\ ~panicked' => At(q)',
         panicked => panicked'
  PROVE  OneCall'
<1>. SUFFICES ASSUME ~overlapped', ~panicked'
              PROVE  /\ \A u, v \in Callers : pc'[u] # "rest" /\ pc'[v] # "rest" => u = v
                     /\ \A u \in Callers, l \in Places \ {"rest"} : pc'[u] = l => At(l)'
                     /\ (\A u \in Callers : pc'[u] = "rest") => At("rest")'
  BY DEF OneCall
<1>1. ~panicked
  OBVIOUS
<1>2. /\ ~overlapped
      /\ \A u \in Callers \ {t} : pc[u] = "rest"
      /\ At(p)
  BY <1>1, Alone
<1>3. At(q)'
  BY <1>1, <1>2
<1>4. /\ pc'[t] = q
      /\ \A u \in Callers \ {t} : pc'[u] = "rest"
  BY <1>2 DEF GoesTo, TypeOK
<1>. QED BY <1>3, <1>4

\* Each step of a Start leads from what holds before it to what holds after it.
LEMMA StartingAt ==
  ASSUME TypeOK, TypeOK', NEW t \in Callers, Starting(t), NEW p \in Places, NEW q \in Places,
         pc[t] = p, GoesTo(t, q), At(p)
  PROVE  At(q)'
<1>1. CASE SetStarting(t)
  <2>1. p = "starting" /\ q = "listenHealth"
    BY <1>1 DEF SetStarting, Step, GoesTo, TypeOK
  <2>. QED
    BY <1>1, <2>1 DEF SetStarting, At, Serving, ServersAt, HealthAt, ConnAt, BeatsAt, TypeOK,
                         StartSteps, FailSteps, StopSteps
<1>2. CASE HealthStart(t)
  <2>1. p = "listenHealth" /\ q = IF flowctl THEN "dial" ELSE "listen"
    BY <1>2 DEF HealthStart, Step, GoesTo, TypeOK
  <2>. QED
    BY <1>2, <2>1 DEF HealthStart, At, Serving, ServersAt, HealthAt, ConnAt, BeatsAt, TypeOK,
                         StartSteps, FailSteps, StopSteps
<1>3. CASE HealthStartFails(t)
  <2>1. p = "listenHealth" /\ q = "fail"
    BY <1>3 DEF HealthStartFails, Step, GoesTo, TypeOK
  <2>. QED
    BY <1>3, <2>1 DEF HealthStartFails, At, Serving, ServersAt, HealthAt, ConnAt, BeatsAt, TypeOK,
                         StartSteps, FailSteps, StopSteps
<1>4. CASE Dial(t)
  <2>1. p = "dial" /\ q = "register"
    BY <1>4 DEF Dial, Step, GoesTo, TypeOK
  <2>. QED
    BY <1>4, <2>1 DEF Dial, At, Serving, ServersAt, HealthAt, ConnAt, BeatsAt, TypeOK,
                         StartSteps, FailSteps, StopSteps
<1>5. CASE DialFails(t)
  <2>1. p = "dial" /\ q = "fail"
    BY <1>5 DEF DialFails, Step, GoesTo, TypeOK
  <2>. QED
    BY <1>5, <2>1 DEF DialFails, At, Serving, ServersAt, HealthAt, ConnAt, BeatsAt, TypeOK,
                         StartSteps, FailSteps, StopSteps
<1>6. CASE Register(t)
  <2>1. p = "register" /\ q = "heartbeat"
    BY <1>6 DEF Register, Step, GoesTo, TypeOK
  <2>. QED
    BY <1>6, <2>1 DEF Register, At, Serving, ServersAt, HealthAt, ConnAt, BeatsAt, TypeOK,
                         StartSteps, FailSteps, StopSteps
<1>7. CASE RegisterFails(t)
  <2>1. p = "register" /\ q = "fail"
    BY <1>7 DEF RegisterFails, Step, GoesTo, TypeOK
  <2>. QED
    BY <1>7, <2>1 DEF RegisterFails, At, Serving, ServersAt, HealthAt, ConnAt, BeatsAt, TypeOK,
                         StartSteps, FailSteps, StopSteps
<1>8. CASE StartHeartbeat(t)
  <2>1. p = "heartbeat" /\ q = IF conn = "nil" THEN "fail" ELSE "listen"
    BY <1>8 DEF StartHeartbeat, Step, GoesTo, TypeOK
  <2>. QED
    BY <1>8, <2>1 DEF StartHeartbeat, At, Serving, ServersAt, HealthAt, ConnAt, BeatsAt, TypeOK,
                         StartSteps, FailSteps, StopSteps
<1>9. CASE Listen(t)
  <2>1. p = "listen" /\ q = "serve"
    BY <1>9 DEF Listen, Step, GoesTo, TypeOK
  <2>. QED
    BY <1>9, <2>1 DEF Listen, At, Serving, ServersAt, HealthAt, ConnAt, BeatsAt, TypeOK,
                         StartSteps, FailSteps, StopSteps
<1>10. CASE ListenFails(t)
  <2>1. p = "listen" /\ q = "fail"
    BY <1>10 DEF ListenFails, Step, GoesTo, TypeOK
  <2>. QED
    BY <1>10, <2>1 DEF ListenFails, At, Serving, ServersAt, HealthAt, ConnAt, BeatsAt, TypeOK,
                         StartSteps, FailSteps, StopSteps
<1>11. CASE NewServer(t)
  <2>1. p = "serve" /\ q = "ready"
    BY <1>11 DEF NewServer, Step, GoesTo, TypeOK
  <2>. QED
    BY <1>11, <2>1 DEF NewServer, At, Serving, ServersAt, HealthAt, ConnAt, BeatsAt, TypeOK,
                         StartSteps, FailSteps, StopSteps
<1>12. CASE SetHealthy(t)
  <2>1. p = "ready" /\ q = "rest"
    BY <1>12 DEF SetHealthy, Step, GoesTo, TypeOK
  <2>. QED
    BY <1>12, <2>1 DEF SetHealthy, At, Serving, ServersAt, HealthAt, ConnAt, BeatsAt, TypeOK,
                         StartSteps, FailSteps, StopSteps
<1>. QED
  BY <1>1, <1>2, <1>3, <1>4, <1>5, <1>6, <1>7, <1>8, <1>9, <1>10, <1>11, <1>12 DEF Starting

\* The same for a Stop, and for a Start that cleans up.
LEMMA StoppingAt ==
  ASSUME TypeOK, TypeOK', NEW t \in Callers, Stopping(t), ~panicked',
         NEW p \in Places, NEW q \in Places, pc[t] = p, GoesTo(t, q), At(p)
  PROVE  At(q)'
<1>1. CASE SetStopping(t)
  <2>1. p = "stopping" /\ q = IF flowctl THEN "stop" ELSE "drain"
    BY <1>1 DEF SetStopping, AfterController, FailSteps, Begin, Step, GoesTo, TypeOK
  <2>. QED
    BY <1>1, <2>1 DEF SetStopping, At, Serving, ServersAt, HealthAt, ConnAt, BeatsAt, TypeOK,
                         StartSteps, FailSteps, StopSteps
<1>2. CASE StopHeartbeat(t)
  <2>1. \/ p = "fail" /\ q = IF flowctl THEN "failConn" ELSE "failHealth"
        \/ p = "stop" /\ q = IF flowctl THEN "stopConn" ELSE "drain"
    BY <1>2 DEF StopHeartbeat, AfterController, FailSteps, Begin, Step, GoesTo, TypeOK
  <2>. QED
    BY <1>2, <2>1 DEF StopHeartbeat, At, Serving, ServersAt, HealthAt, ConnAt, BeatsAt, TypeOK,
                         StartSteps, FailSteps, StopSteps
<1>3. CASE CheckConn(t)
  <2>1. \/ p = "failConn" /\ q = IF conn = "nil" THEN "failHealth" ELSE "failClose"
        \/ p = "stopConn" /\ q = IF conn = "nil" THEN "drain" ELSE "stopClose"
    BY <1>3 DEF CheckConn, AfterController, FailSteps, Begin, Step, GoesTo, TypeOK
  <2>. QED
    BY <1>3, <2>1 DEF CheckConn, At, Serving, ServersAt, HealthAt, ConnAt, BeatsAt, TypeOK,
                         StartSteps, FailSteps, StopSteps
<1>4. CASE ForgetConn(t)
  <2>1. \/ p = "failForget" /\ q = "failHealth"
        \/ p = "stopForget" /\ q = "drain"
    BY <1>4 DEF ForgetConn, AfterController, FailSteps, Begin, Step, GoesTo, TypeOK
  <2>. QED
    BY <1>4, <2>1 DEF ForgetConn, At, Serving, ServersAt, HealthAt, ConnAt, BeatsAt, TypeOK,
                         StartSteps, FailSteps, StopSteps
<1>5. CASE CloseListeners(t)
  <2>1. p = "drain" /\ q = "drained"
    BY <1>5 DEF CloseListeners, AfterController, FailSteps, Begin, Step, GoesTo, TypeOK
  <2>. QED
    BY <1>5, <2>1 DEF CloseListeners, At, Serving, ServersAt, HealthAt, ConnAt, BeatsAt, TypeOK,
                         StartSteps, FailSteps, StopSteps
<1>6. CASE Drained(t)
  <2>1. p = "drained" /\ q = "stopHealth"
    BY <1>6 DEF Drained, AfterController, FailSteps, Begin, Step, GoesTo, TypeOK
  <2>. QED
    BY <1>6, <2>1 DEF Drained, At, Serving, ServersAt, HealthAt, ConnAt, BeatsAt, TypeOK,
                         StartSteps, FailSteps, StopSteps
<1>7. CASE HealthStop(t)
  <2>1. \/ p = "failHealth" /\ q = "failReset"
        \/ p = "stopHealth" /\ q = "rest"
    BY <1>7 DEF HealthStop, AfterController, FailSteps, Begin, Step, GoesTo, TypeOK
  <2>. QED
    BY <1>7, <2>1 DEF HealthStop, At, Serving, ServersAt, HealthAt, ConnAt, BeatsAt, TypeOK,
                         StartSteps, FailSteps, StopSteps
<1>8. CASE Reset(t)
  <2>1. p = "failReset" /\ q = "rest"
    BY <1>8 DEF Reset, AfterController, FailSteps, Begin, Step, GoesTo, TypeOK
  <2>. QED
    BY <1>8, <2>1 DEF Reset, At, Serving, ServersAt, HealthAt, ConnAt, BeatsAt, TypeOK,
                         StartSteps, FailSteps, StopSteps
<1>9. CASE CloseConn(t)
  <2>1. /\ p \in {"failClose", "stopClose"}
        /\ UNCHANGED <<flagVars, healthVars, leaked, beatVars, serverVars, ctxDone>>
        /\ conn' = "closed"
    BY <1>9, CloseConnTo
  <2>2. conn = "open"
    BY <2>1 DEF At, ConnAt
  <2>3. \/ p = "failClose" /\ q = "failForget"
        \/ p = "stopClose" /\ q = "stopForget"
    <3>1. p = "failClose" => GoesTo(t, "failForget")
      BY <1>9, <2>2, CloseConnTo
    <3>2. p = "stopClose" => GoesTo(t, "stopForget")
      BY <1>9, <2>2, CloseConnTo
    <3>. QED BY <2>1, <3>1, <3>2 DEF GoesTo, TypeOK
  <2>. QED
    BY <2>1, <2>2, <2>3 DEF At, Serving, ServersAt, HealthAt, ConnAt, BeatsAt, TypeOK,
                            StartSteps, FailSteps, StopSteps
<1>10. ~StopHeartbeatAgain(t) /\ ~CloseNilConn(t)
  BY DEF StopHeartbeatAgain, CloseNilConn, Panic
<1>. QED
  BY <1>1, <1>2, <1>3, <1>4, <1>5, <1>6, <1>7, <1>8, <1>9, <1>10 DEF Stopping

\* The same for the first step of a call.
LEMMA CallAt ==
  ASSUME TypeOK, TypeOK', NEW t \in Callers, Call(t), ~panicked',
         NEW p \in Places, NEW q \in Places, pc[t] = p, GoesTo(t, q), At(p)
  PROVE  At(q)'
<1>1. CASE CallStart(t)
  <2>1. p = "rest" /\ q = "starting"
    BY <1>1 DEF CallStart, AfterController, FailSteps, Begin, Step, GoesTo, TypeOK
  <2>. QED
    BY <1>1, <2>1 DEF CallStart, At, Serving, ServersAt, HealthAt, ConnAt, BeatsAt, TypeOK,
                         StartSteps, FailSteps, StopSteps
<1>2. CASE CallStop(t)
  <2>1. p = "rest" /\ q = "stopping"
    BY <1>2 DEF CallStop, AfterController, FailSteps, Begin, Step, GoesTo, TypeOK
  <2>. QED
    BY <1>2, <2>1 DEF CallStop, At, Serving, ServersAt, HealthAt, ConnAt, BeatsAt, TypeOK,
                         StartSteps, FailSteps, StopSteps
<1>3. ~CallStopAgain(t)
  BY DEF CallStopAgain, Panic
<1>. QED BY <1>1, <1>2, <1>3 DEF Call

\* The steps of the goroutines and streams of a component.
Around == Serve \/ ServeFails \/ HealthServeFails \/ HeartbeatEnds \/ StreamBegins \/ StreamEnds

\* They leave it as it is, wherever the caller is.
LEMMA OthersAt ==
  ASSUME TypeOK, TypeOK', NEW p \in Places, At(p),
         Around \/ ContextEnds \/ UNCHANGED vars
  PROVE  At(p)'
<1>1. CASE Serve
  BY <1>1 DEF Serve, At, Serving, ServersAt, HealthAt, ConnAt, BeatsAt, TypeOK
<1>2. CASE HeartbeatEnds
  BY <1>2 DEF HeartbeatEnds, At, Serving, ServersAt, HealthAt, ConnAt, BeatsAt, TypeOK
<1>3. CASE StreamBegins
  BY <1>3 DEF StreamBegins, At, Serving, ServersAt, HealthAt, ConnAt, BeatsAt, TypeOK
<1>4. CASE StreamEnds
  BY <1>4 DEF StreamEnds, At, Serving, ServersAt, HealthAt, ConnAt, BeatsAt, TypeOK
<1>5. CASE ContextEnds
  BY <1>5 DEF ContextEnds, At, Serving, ServersAt, HealthAt, ConnAt, BeatsAt, TypeOK
<1>6. CASE UNCHANGED vars
  BY <1>6 DEF vars, At, Serving, ServersAt, HealthAt, ConnAt, BeatsAt
<1>7. CASE ServeFails
  BY <1>7 DEF ServeFails, At, Serving, ServersAt, HealthAt, ConnAt, BeatsAt, TypeOK
<1>8. CASE HealthServeFails
  BY <1>8 DEF HealthServeFails, At, Serving, ServersAt, HealthAt, ConnAt, BeatsAt, TypeOK
<1>. QED BY <1>1, <1>2, <1>3, <1>4, <1>5, <1>6, <1>7, <1>8 DEF Around

\* A step of a caller is its turn, or the last one of the process.
LEMMA TakesTurn ==
  ASSUME TypeOK, TypeOK', NEW t \in Callers, Call(t) \/ Starting(t) \/ Stopping(t)
  PROVE  /\ ~panicked
         /\ \E q \in Places : GoesTo(t, q)
         /\ panicked' \/ Turn(t)
<1>1. CASE Call(t)
  <2>1. ~panicked /\ (panicked' \/ Turn(t))
    BY <1>1 DEF Call, CallStart, CallStop, CallStopAgain, Begin, Step, Panic, Turn
  <2>2. \E l \in {"rest", "starting", "stopping"} : GoesTo(t, l)
    BY <1>1 DEF Call, CallStart, CallStop, CallStopAgain, Begin, Step, GoesTo
  <2>. QED BY <2>1, <2>2 DEF Places, StartSteps, StopSteps
<1>2. CASE Starting(t)
  <2>1. ~panicked /\ pc[t] # "rest" /\ UNCHANGED overlapped
    BY <1>2 DEF Starting, SetStarting, HealthStart, HealthStartFails, Dial, DialFails, Register,
           RegisterFails, StartHeartbeat, Listen, ListenFails, NewServer, SetHealthy, Step
  <2>2. \E l \in Places : GoesTo(t, l)
    BY <1>2, StartingGoes
  <2>. QED BY <2>1, <2>2 DEF Turn
<1>3. CASE Stopping(t)
  <2>1. ~panicked /\ pc[t] # "rest" /\ UNCHANGED overlapped
    <3>1. CASE CloseConn(t)
      BY <3>1, CloseConnTo
    <3>. QED
      BY <1>3, <3>1 DEF Stopping, SetStopping, StopHeartbeat, StopHeartbeatAgain, CheckConn,
             CloseNilConn, ForgetConn, CloseListeners, Drained, HealthStop, Reset, Panic, Step
  <2>2. \E l \in Places : GoesTo(t, l)
    BY <1>3, StoppingGoes
  <2>. QED BY <2>1, <2>2 DEF Turn
<1>. QED BY <1>1, <1>2, <1>3

LEMMA OneCallNext == TypeOK /\ OneCall /\ [Next]_vars => OneCall'
<1>. SUFFICES ASSUME TypeOK, OneCall, [Next]_vars PROVE OneCall'
  OBVIOUS
<1>1. TypeOK'
  BY TypeNext
<1>2. ASSUME NEW t \in Callers, Call(t) \/ Starting(t) \/ Stopping(t) PROVE OneCall'
  <2>1. CASE panicked'
    BY <2>1 DEF OneCall
  <2>2. CASE ~panicked'
    <3>1. PICK q \in Places : GoesTo(t, q)
      BY <1>1, <1>2, TakesTurn
    <3>2. PICK p \in Places : pc[t] = p
      BY DEF TypeOK, Places
    <3>3. At(p) => At(q)'
      BY <1>1, <1>2, <2>2, <3>1, <3>2, CallAt, StartingAt, StoppingAt
    <3>4. ~panicked /\ Turn(t)
      BY <1>1, <1>2, <2>2, TakesTurn
    <3>. QED BY <3>1, <3>2, <3>3, <3>4, Moves
  <2>. QED BY <2>1, <2>2
<1>3. ASSUME Around \/ ContextEnds \/ UNCHANGED vars
      PROVE  OneCall'
  <2>1. UNCHANGED <<pc, panicked, overlapped>>
    BY <1>3 DEF Around, Serve, ServeFails, HealthServeFails, HeartbeatEnds, StreamBegins,
                StreamEnds, ContextEnds, vars
  <2>2. \A p \in Places : At(p) => At(p)'
    BY <1>1, <1>3, OthersAt
  <2>3. "rest" \in Places
    BY DEF Places
  <2>. QED BY <2>1, <2>2, <2>3 DEF OneCall
<1>. QED BY <1>2, <1>3 DEF Next, Around

LEMMA OneCallFirst == Init => OneCall
<1>. SUFFICES ASSUME Init PROVE OneCall
  OBVIOUS
<1>1. At("rest")
  BY DEF Init, At, Serving, ServersAt, HealthAt, ConnAt, BeatsAt, StartSteps, FailSteps, StopSteps
<1>. QED BY <1>1 DEF Init, OneCall

\* A component that nobody works on holds no port, connection, heartbeat or
\* stream, whatever step its last Start failed at: At("rest") says it of one
\* call after the other, and a heartbeat left running has been told to end.
THEOREM RestIsReleased == Spec => []ReleasedAtRest
<1>1. TypeOK /\ BeatsInv /\ OneCall => ReleasedAtRest
  <2>. SUFFICES ASSUME TypeOK, BeatsInv, OneCall, AtRest, ~overlapped
                PROVE  /\ healthServer = "nil"
                       /\ listening => serveDue
                       /\ conn = "nil" /\ ~leaked
                       /\ ~hbRunning
                       /\ beats > 0 => stopHb \/ ctxDone
                       /\ ~busy /\ ~draining
                       /\ health # "HEALTHY"
    BY DEF ReleasedAtRest
  <2>1. At("rest") /\ ~started
    BY DEF AtRest, OneCall
  <2>2. ~hbRunning
    BY <2>1 DEF At, BeatsAt
  <2>3. beats > 0 => stopHb
    BY <2>2 DEF BeatsInv, TypeOK
  <2>4. /\ healthServer = "nil"
        /\ listening => serveDue
        /\ conn = "nil" /\ ~leaked
        /\ ~busy /\ ~draining
        /\ health # "HEALTHY"
    BY <2>1 DEF At, Serving, ServersAt, HealthAt, ConnAt
  <2>. QED BY <2>2, <2>3, <2>4
<1>2. Spec => []OneCall
  BY TypeCorrect, OneCallFirst, OneCallNext, PTL DEF Spec
<1>. QED BY <1>1, <1>2, BeatsAlways, PTL

\* The status reads as ready only between the start and the stop of both servers.
\* When the process panics nothing runs any more that could end one.
LEMMA ReadyUnlessPanicked == TypeOK /\ OneCall /\ ~panicked => ReadyServes
<1>. SUFFICES ASSUME TypeOK, OneCall, ~panicked, health = "HEALTHY", ~overlapped
              PROVE  /\ healthServer # "nil"
                     /\ server \in {"new", "serving", "failed"}
                     /\ listening <=> server # "failed"
  BY DEF ReadyServes
<1>1. PICK p \in Places : At(p) /\ (p = "rest" \/ \E t \in Callers : pc[t] = p)
  <2>1. CASE \A t \in Callers : pc[t] = "rest"
    BY <2>1 DEF OneCall, Places
  <2>2. ASSUME NEW t \in Callers, pc[t] # "rest"
        PROVE  \E p \in Places : At(p) /\ pc[t] = p
    BY <2>2 DEF OneCall, TypeOK, Places
  <2>. QED BY <2>1, <2>2
<1>. QED BY <1>1 DEF At, Serving, ServersAt, HealthAt

\* While calls do not overlap, HEALTHY is only read between the start and the stop
\* of the two servers, and the endpoint is bound unless the accept loop gave up.
THEOREM ReadinessServes == Spec => []ReadyServes
<1>1. Init => ReadyServes
  BY DEF Init, ReadyServes
<1>2. TypeOK /\ OneCall /\ ReadyServes /\ [Next]_vars => ReadyServes'
  <2>. SUFFICES ASSUME TypeOK, OneCall, ReadyServes, [Next]_vars PROVE ReadyServes'
    OBVIOUS
  <2>1. CASE ~panicked'
    <3>1. TypeOK' /\ OneCall'
      BY TypeNext, OneCallNext
    <3>2. (TypeOK /\ OneCall /\ ~panicked => ReadyServes)'
      BY ReadyUnlessPanicked, PTL
    <3>. QED BY <2>1, <3>1, <3>2
  <2>2. ASSUME panicked'
        PROVE  UNCHANGED <<health, healthServer, listening, server, overlapped>>
    <3>1. ASSUME NEW t \in Callers, Call(t)
          PROVE  UNCHANGED <<health, healthServer, listening, server, overlapped>>
      <4>1. CASE CallStart(t) \/ CallStop(t)
        <5>1. ~panicked /\ UNCHANGED panicked
          BY <4>1 DEF CallStart, CallStop, Begin, Step
        <5>. QED BY <2>2, <5>1
      <4>2. CASE CallStopAgain(t)
        BY <4>2 DEF CallStopAgain, Panic
      <4>. QED BY <3>1, <4>1, <4>2 DEF Call
    <3>2. ASSUME NEW t \in Callers, Starting(t) PROVE FALSE
      <4>1. ~panicked /\ UNCHANGED panicked
        BY <3>2 DEF Starting, SetStarting, HealthStart, HealthStartFails, Dial, DialFails,
               Register, RegisterFails, StartHeartbeat, Listen, ListenFails, NewServer,
               SetHealthy, Step
      <4>. QED BY <2>2, <4>1
    <3>3. ASSUME NEW t \in Callers, Stopping(t)
          PROVE  UNCHANGED <<health, healthServer, listening, server, overlapped>>
      <4>1. ~CloseConn(t)
        BY <2>2, CloseConnTo
      <4>. QED
        BY <2>2, <3>3, <4>1 DEF Stopping, SetStopping, StopHeartbeat, StopHeartbeatAgain, CheckConn,
               CloseNilConn, ForgetConn, CloseListeners, Drained, HealthStop, Reset, Panic, Step
    <3>4. CASE ContextEnds \/ UNCHANGED vars
      BY <3>4 DEF ContextEnds, vars
    <3>5. CASE Around
      BY <2>2, <3>5 DEF Around, Serve, ServeFails, HealthServeFails, HeartbeatEnds,
                        StreamBegins, StreamEnds
    <3>. QED BY <3>1, <3>2, <3>3, <3>4, <3>5 DEF Next, Around
  <2>. QED BY <2>1, <2>2 DEF ReadyServes
<1>. QED BY <1>1, <1>2, TypeCorrect, OneCallFirst, OneCallNext, PTL DEF Spec
===============================================================================
