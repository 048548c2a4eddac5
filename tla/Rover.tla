------------------------------- MODULE Rover -------------------------------
(***************************************************************************)
(* src/rover.cpp: who drives the rover.  The Arduino loop runs the route,  *)
(* the heading alignment and the steering test; the callbacks of the       *)
(* WebSocket run in a task of their own, at any point of the loop, and     *)
(* share with it the navigation request, one queued command, the stop      *)
(* latch and the motor driver (module MotorInterlock).                     *)
(*                                                                         *)
(* The loop is cut into the stages between which the callbacks matter.     *)
(* The route executor is reduced to what it tells the loop: whether the    *)
(* wheels should move, whether its state changed, how it ended.  The two   *)
(* relays, which Safety and STOP switch off, are left out.                 *)
(***************************************************************************)
EXTENDS Integers

CONSTANT MaxCommands  \* commands, connects and disconnects in a behaviour

ASSUME MaxCommandsAssumption == MaxCommands \in Nat

VARIABLES
  latch, holder, source, driven,  \* the motor driver: see MotorInterlock
  nav,       \* WsServer::_navRequested
  pending,   \* g_pendingRouteCommand
  stopLatch, \* g_routeStopLatch
  mirror,    \* g_routeExecutorActiveMirror
  exec,      \* g_routeExecutor: its state, as far as the loop tells
  paused,    \* and whether it is paused
  stopLate,  \* its final stop has outlived physicalStopTimeoutMs
  serial,    \* g_serialMotion: source of the session
  late,      \* the session has outlived its timeout
  flag,      \* WsServer::_serialMotionActive
  align,     \* phase of the heading alignment
  alignWs,   \* it was asked for by the app
  sign,      \* phase of the steering test
  level,     \* what Safety says: "ok", "link" lost, or "bad"
  field,     \* SAFETY_MODE_FIELD
  connected, \* a client is connected
  commands,  \* commands left
  at,        \* stage of the loop
  ret,       \* where handleStopLine returns to
  calc,      \* what stepRouteExecutor computed
  ws         \* where the WebSocket task is in a callback

mvars == <<latch, holder, source, driven>>

rvars == <<mirror, exec, paused, stopLate>>

svars == <<serial, late, flag>>

tvars == <<align, alignWs, sign>>

evars == <<level, field, connected, commands>>

vars == <<mvars, nav, pending, stopLatch, rvars, svars, tvars, evars,
          at, ret, calc, ws>>

Motor == INSTANCE MotorInterlock
  WITH Tokens <- {"shared", "manual"}, NoToken <- "no token",
       Sources <- {"ROUTE", "AUTO_ALIGN", "STEERING_SIGN_TEST",
                   "WEBSOCKET_MANUAL"},
       NoSource <- "none", Top <- 1, wire <- 0

Stay == [move |-> FALSE, changed |-> FALSE]
Halt == [move |-> FALSE, changed |-> TRUE]

Init ==
  /\ latch = TRUE /\ holder = "no token" /\ source = "none"
  /\ driven = FALSE
  /\ nav = FALSE /\ pending = "NONE" /\ stopLatch = FALSE
  /\ mirror = FALSE /\ exec = "idle" /\ paused = FALSE /\ stopLate = FALSE
  /\ serial = "none" /\ late = FALSE /\ flag = FALSE
  /\ align = "none" /\ alignWs = FALSE /\ sign = "off"
  /\ level = "ok" /\ field \in BOOLEAN /\ connected = FALSE
  /\ commands = MaxCommands
  /\ at = "serial" /\ ret = "pending" /\ calc = Stay
  /\ ws = "idle"

-----------------------------------------------------------------------------
(* What the handlers are built from                                        *)

\* finalArrivalPending: FINAL_STOP, then WAIT_PHYSICAL_STOP.
FinalPending == exec \in {"final", "settle"}

Active == exec \in {"validate", "run"} \/ FinalPending

\* cancelRouteExecutor.
CancelRoute ==
  exec' = "idle" /\ paused' = FALSE /\ mirror' = FALSE /\ stopLate' = FALSE

\* activateRoutePlan: the first update only validates, with the wheels at rest.
ActivateRoute ==
  exec' = "validate" /\ paused' = FALSE /\ mirror' = TRUE /\ stopLate' = FALSE

\* serialMotionBegin and serialMotionEnd.
BeginSession(kind) == serial' = kind /\ late' = FALSE /\ flag' = TRUE

EndSession ==
  /\ Motor!Closed
  /\ nav' = FALSE
  /\ serial' = "none" /\ late' = FALSE /\ flag' = FALSE
  /\ IF serial = "go" THEN CancelRoute ELSE UNCHANGED rvars

\* handleGo* over startGoRoute and startPrecision*: a route of its own, under a
\* session.  The debug variant of the L shape asks about the session only.
GoStarts(debug) ==
  /\ serial = "none"
  /\ debug \/ ~Active
  /\ ActivateRoute
  /\ nav' = TRUE
  /\ BeginSession("go")

\* handleNavStartLine; the gate looks at the latch, the route and the fix.
NavStarts ==
  /\ ~stopLatch
  /\ ~Active
  /\ ActivateRoute
  /\ nav' = TRUE

\* The end of servicePendingRouteCommand after a refusal.
Refused ==
  /\ nav' = (nav /\ (serial # "none" \/ Active))
  /\ UNCHANGED rvars

\* autoAlignHeadingBegin: the motor is stopped, then claimed.
AlignIsBusy == serial # "none" \/ mirror \/ nav

ClaimForAlign ==
  /\ latch' = FALSE /\ holder' = "shared" /\ source' = "AUTO_ALIGN"
  /\ driven' = FALSE

-----------------------------------------------------------------------------
(* The loop: a command on the serial line                                  *)

Stage(here, next) == at = here /\ at' = next

Command == commands > 0 /\ commands' = commands - 1

NoLink == UNCHANGED <<level, field, connected>>

SerialNone ==
  /\ Stage("serial", "pending")
  /\ UNCHANGED <<mvars, nav, pending, stopLatch, rvars, svars, tvars, evars,
                 ret, calc, ws>>

SerialStop ==
  /\ Stage("serial", "stop") /\ Command
  /\ ret' = "pending"
  /\ UNCHANGED <<mvars, nav, pending, stopLatch, rvars, svars, tvars, level,
                 field, connected, calc, ws>>

SerialGo ==
  /\ Stage("serial", "pending") /\ Command
  /\ \E debug \in BOOLEAN : GoStarts(debug)
  /\ NoLink
  /\ UNCHANGED <<mvars, pending, stopLatch, tvars, ret, calc, ws>>

SerialStart ==
  /\ Stage("serial", "pending") /\ Command
  /\ NavStarts
  /\ NoLink
  /\ UNCHANGED <<mvars, pending, stopLatch, svars, tvars, ret, calc, ws>>

SerialAlign ==
  /\ Stage("serial", "pending") /\ Command
  /\ align = "none" /\ ~AlignIsBusy
  /\ ClaimForAlign
  /\ align' = "settle" /\ alignWs' = FALSE
  /\ BeginSession("align")
  /\ NoLink
  /\ UNCHANGED <<nav, pending, stopLatch, rvars, sign, ret, calc, ws>>

\* startSteeringSignTest.
SerialSign ==
  /\ Stage("serial", "pending") /\ Command
  /\ sign = "off" /\ ~Active /\ align = "none" /\ ~AlignIsBusy
  /\ sign' = "wait"
  /\ flag' = TRUE
  /\ Motor!Closed
  /\ NoLink
  /\ UNCHANGED <<nav, pending, stopLatch, rvars, serial, late, align, alignWs,
                 ret, calc, ws>>

SerialMode ==
  /\ Stage("serial", "pending") /\ Command
  /\ field' = ~field
  /\ UNCHANGED <<mvars, nav, pending, stopLatch, rvars, svars, tvars, level,
                 connected, ret, calc, ws>>

-----------------------------------------------------------------------------
(* The loop: handleStopLine, in the steps a callback may come between      *)

RaiseLatch ==
  /\ Stage("stop", "stopping")
  /\ stopLatch' = TRUE
  /\ pending' = "NONE"
  /\ UNCHANGED <<mvars, nav, rvars, svars, tvars, evars, ret, calc, ws>>

\* Mutant: STOP leaves a serial session to its timeout.
StopKeepsSession ==
  /\ Stage("stopping", "stopped")
  /\ Motor!Closed
  /\ nav' = FALSE
  /\ sign' = "off" /\ align' = "none" /\ UNCHANGED alignWs
  /\ flag' = (flag /\ sign = "off")
  /\ CancelRoute
  /\ UNCHANGED <<pending, stopLatch, serial, late, evars, ret, calc, ws>>

StopEverything ==
  /\ Stage("stopping", "stopped")
  /\ Motor!Closed
  /\ nav' = FALSE
  /\ sign' = "off" /\ align' = "none" /\ UNCHANGED alignWs
  /\ serial' = "none" /\ late' = FALSE
  /\ flag' = (flag /\ sign = "off" /\ serial = "none")
  /\ CancelRoute
  /\ UNCHANGED <<pending, stopLatch, evars, ret, calc, ws>>

LowerLatch ==
  /\ Stage("stopped", ret)
  /\ stopLatch' = FALSE
  /\ UNCHANGED <<mvars, nav, pending, rvars, svars, tvars, evars, ret, calc,
                 ws>>

-----------------------------------------------------------------------------
(* The loop: servicePendingRouteCommand                                    *)

TakeNone ==
  /\ Stage("pending", "safety")
  /\ pending = "NONE"
  /\ UNCHANGED <<mvars, nav, pending, stopLatch, rvars, svars, tvars, evars,
                 ret, calc, ws>>

Take(commandSet) == pending \in commandSet /\ pending' = "NONE"

TakeStop ==
  /\ Stage("pending", "stop")
  /\ Take({"STOP"})
  /\ ret' = "safety"
  /\ UNCHANGED <<mvars, nav, stopLatch, rvars, svars, tvars, evars, calc, ws>>

TakeLatched ==
  /\ Stage("pending", "safety")
  /\ Take({"START", "GO", "PAUSE", "RESUME"})
  /\ stopLatch
  /\ nav' = FALSE
  /\ UNCHANGED <<mvars, stopLatch, rvars, svars, tvars, evars, ret, calc, ws>>

\* A plan or a fix that is no good refuses a start at any time.
TakeStart ==
  /\ Stage("pending", "safety")
  /\ Take({"START"}) /\ ~stopLatch
  /\ NavStarts \/ Refused
  /\ UNCHANGED <<mvars, stopLatch, svars, tvars, evars, ret, calc, ws>>

TakeGo ==
  /\ Stage("pending", "safety")
  /\ Take({"GO"}) /\ ~stopLatch
  /\ \/ \E debug \in BOOLEAN : GoStarts(debug)
     \/ Refused /\ UNCHANGED svars
  /\ UNCHANGED <<mvars, stopLatch, tvars, evars, ret, calc, ws>>

TakePause ==
  /\ Stage("pending", "safety")
  /\ Take({"PAUSE"}) /\ ~stopLatch
  /\ IF Active
     THEN paused' = TRUE /\ Motor!Closed
          /\ UNCHANGED <<nav, mirror, exec, stopLate>>
     ELSE Refused /\ UNCHANGED mvars
  /\ UNCHANGED <<stopLatch, svars, tvars, evars, ret, calc, ws>>

TakeResume ==
  /\ Stage("pending", "safety")
  /\ Take({"RESUME"}) /\ ~stopLatch
  /\ IF Active
     THEN paused' = FALSE /\ UNCHANGED <<nav, mirror, exec, stopLate>>
     ELSE Refused
  /\ UNCHANGED <<mvars, stopLatch, svars, tvars, evars, ret, calc, ws>>

-----------------------------------------------------------------------------
(* The loop: Safety, and what it stops                                     *)

\* "navigation_not_requested".
Orphaned == ~nav /\ Active /\ serial = "none"
RetireOrphan == IF Orphaned THEN CancelRoute ELSE UNCHANGED rvars

SerialDebug ==
  serial # "none" \/ sign # "off" \/ (align # "none" /\ ~alignWs)

\* The link does not matter to what the serial line started in FIELD mode, and
\* otherwise when something moves or may.
\*
\* Mutant: it is not asked about in NORMAL mode either.
LinkIgnoredAlways == SerialDebug

LinkIgnored == field /\ SerialDebug

LinkFault ==
  /\ ~connected /\ ~LinkIgnored
  /\ nav \/ SerialDebug \/ align # "none" \/ driven

\* Safety::tick.  Worse is worse at once; better takes two seconds of health,
\* any number of loops here.  Any other fault may come and go, and so may the
\* command timeout of a navigation.
SafetyTick ==
  /\ Stage("safety", "align")
  /\ RetireOrphan
  /\ level' \in IF LinkFault THEN {"link", "bad"}
                ELSE {"ok", "bad", level}
                       \cup IF nav /\ ~LinkIgnored THEN {"link"} ELSE {}
  /\ UNCHANGED <<mvars, nav, pending, stopLatch, svars, tvars, field,
                 connected, commands, ret, calc, ws>>

AllowMotion == level = "ok"

\* alignAbort, and alignFinalize with the stop the loop adds to it.
AlignEnds == Motor!Closed /\ align' = "none"

\* The alignment block and stepAlign.  The fix, the samples and the clock
\* decide; a token that is void ends it.
AlignStep ==
  /\ Stage("align", "gate")
  /\ \/ align = "none" /\ UNCHANGED <<mvars, align>>
     \/ align # "none" /\ AlignEnds
     \/ /\ align # "none" /\ AllowMotion /\ (nav \/ ~alignWs)
        /\ \/ /\ align = "settle" /\ Motor!Accepts("shared")
              /\ align' \in {"settle", "drive"}
              /\ UNCHANGED mvars
           \/ /\ align = "drive" /\ Motor!Accepts("shared")
              /\ \/ driven' = TRUE /\ UNCHANGED <<latch, holder, source, align>>
                 \/ Motor!Closed /\ align' = "end"
           \/ align = "end" /\ UNCHANGED <<mvars, align>>
  /\ UNCHANGED <<nav, pending, stopLatch, rvars, svars, alignWs, sign, evars,
                 ret, calc, ws>>

SafetyGate ==
  /\ Stage("gate", "sign")
  /\ IF AllowMotion THEN UNCHANGED mvars ELSE Motor!Closed
  /\ UNCHANGED <<nav, pending, stopLatch, rvars, svars, tvars, evars, ret,
                 calc, ws>>

\* steeringSignTestFinish and steeringSignTestAbort.
SignEnds == Motor!Closed /\ sign' = "off" /\ flag' = FALSE

\* steeringSignBeginPulse: an open epoch of another source refuses the pulse.
PulseBegins ==
  IF Motor!CanAuthorize("STEERING_SIGN_TEST")
  THEN /\ Motor!Granted("shared", "STEERING_SIGN_TEST")
       /\ driven' = TRUE
       /\ sign' = "pulse" /\ UNCHANGED flag
  ELSE SignEnds

\* steeringSignTestTick.
SignStep ==
  /\ Stage("sign", "route")
  /\ \/ sign = "off" /\ UNCHANGED <<mvars, sign, flag>>
     \/ sign # "off" /\ SignEnds
     \/ /\ sign # "off" /\ AllowMotion /\ ~Active /\ ~nav
        /\ \/ UNCHANGED <<mvars, sign, flag>>
           \/ sign = "pulse" /\ Motor!Closed /\ sign' = "wait" /\ UNCHANGED flag
           \/ sign = "wait" /\ PulseBegins
  /\ UNCHANGED <<nav, pending, stopLatch, rvars, serial, late, align, alignWs,
                 evars, ret, calc, ws>>

-----------------------------------------------------------------------------
(* The loop: the route                                                     *)

\* update, when Safety allows to move: the route goes on, or it comes to its
\* final stop (the first half of which may be passed at once), which restarts the
\* clock of the stop.  After that the wheels are not to move any more.
RouteProceeds ==
  /\ UNCHANGED <<nav, mirror, paused>>
  /\ \/ /\ ~FinalPending /\ exec' = "run" /\ UNCHANGED stopLate
        /\ calc' \in IF exec = "run" THEN [move : BOOLEAN, changed : BOOLEAN]
                     ELSE {Halt}
     \/ /\ ~FinalPending /\ exec' \in {"final", "settle"} /\ stopLate' = FALSE
        /\ calc' = Halt
     \/ /\ exec = "final" /\ exec' = "settle" /\ UNCHANGED stopLate
        /\ calc' = Halt
     \/ /\ exec = "settle" /\ ~stopLate /\ UNCHANGED <<exec, stopLate>>
        /\ calc' = Stay

\* COMPLETE and FAULT take the navigation request back.
RouteFinishes(ends) ==
  /\ exec' \in ends
  /\ mirror' = FALSE /\ stopLate' = FALSE /\ UNCHANGED paused
  /\ nav' = FALSE
  /\ calc' = Halt

\* Without leave to move, or paused, the executor keeps its mode and its state.
RouteHolds == calc' = Stay /\ UNCHANGED <<nav, rvars>>

\* Mutant: the route is updated without asking Safety.
UpdateRouteUnsafe == IF paused THEN RouteHolds ELSE RouteProceeds

\* Mutant: a route that ends is still shown to the WebSocket task.
UpdateRouteKeepsMirror ==
  \/ AllowMotion /\ ~paused /\ RouteProceeds
  \/ /\ exec' \in {"arrived", "fault"}
     /\ UNCHANGED <<mirror, paused, stopLate>>
     /\ nav' = FALSE
     /\ calc' = Halt

\* stepRouteExecutor up to its output.  The route arrives by a final stop that is
\* in time, and may fail at any time.
UpdateRoute ==
  \/ AllowMotion /\ ~paused /\ RouteProceeds
  \/ AllowMotion /\ ~paused /\ exec = "settle" /\ ~stopLate
     /\ RouteFinishes({"arrived"})
  \/ RouteFinishes({"fault"})
  \/ (~AllowMotion \/ paused) /\ RouteHolds

RouteLatched ==
  /\ Stage("route", "tick")
  /\ stopLatch
  /\ RetireOrphan
  /\ Motor!Closed
  /\ UNCHANGED <<nav, pending, stopLatch, svars, tvars, evars, ret, calc, ws>>

RouteIdle ==
  /\ Stage("route", "tick")
  /\ ~stopLatch /\ ~(nav /\ Active)
  /\ RetireOrphan
  /\ UNCHANGED <<mvars, nav, pending, stopLatch, svars, tvars, evars, ret,
                 calc, ws>>

RouteUpdate ==
  /\ Stage("route", "apply")
  /\ ~stopLatch /\ nav /\ Active
  /\ UpdateRoute
  /\ UNCHANGED <<mvars, pending, stopLatch, svars, tvars, evars, ret, ws>>

\* The latch is read again; the motor is stopped unless it should move.
RouteHalts ==
  /\ Stage("apply", "tick")
  /\ stopLatch \/ ~calc.move
  /\ Motor!Closed
  /\ UNCHANGED <<nav, pending, stopLatch, rvars, svars, tvars, evars, ret,
                 calc, ws>>

RouteMoves ==
  /\ Stage("apply", "drive")
  /\ ~stopLatch /\ calc.move
  /\ UNCHANGED <<mvars, nav, pending, stopLatch, rvars, svars, tvars, evars,
                 ret, calc, ws>>

\* A change of state may reopen the motor.
RouteAuthorizes ==
  /\ Stage("drive", "send")
  /\ IF latch /\ calc.changed
     THEN Motor!Granted("shared", "ROUTE") /\ UNCHANGED driven
     ELSE UNCHANGED mvars
  /\ UNCHANGED <<nav, pending, stopLatch, rvars, svars, tvars, evars, ret,
                 calc, ws>>

RouteSends ==
  /\ Stage("send", "tick")
  /\ driven' = (driven \/ Motor!Accepts("shared"))
  /\ calc' = Stay
  /\ UNCHANGED <<latch, holder, source, nav, pending, stopLatch, rvars, svars,
                 tvars, evars, ret, ws>>

-----------------------------------------------------------------------------
(* The loop: serialMotionTick                                              *)

\* Mutant: the timeout of the session is not looked at.
SessionNeverLate ==
  \/ level = "bad"
  \/ /\ level = "ok"
     /\ \/ exec \in {"arrived", "fault"}
        \/ ~paused /\ serial = "align" /\ align = "none"

\* The faults of the link do not end a session, nor do they let it time out; and
\* a final stop is left to its own timeout, which expire would refuse to cut.
SessionEnds ==
  \/ level = "bad"
  \/ /\ level = "ok"
     /\ \/ exec \in {"arrived", "fault"}
        \/ ~paused /\ \/ serial = "align" /\ align = "none"
                      \/ late /\ ~FinalPending

SerialTick ==
  /\ Stage("tick", "serial")
  /\ IF serial # "none" /\ SessionEnds
     THEN EndSession
     ELSE UNCHANGED <<mvars, nav, rvars, svars>>
  /\ calc' = Stay
  /\ UNCHANGED <<pending, stopLatch, tvars, evars, ret, ws>>

\* The time of a session that is paused is not counted.  An alignment has a
\* timeout of its own, shorter than its session's.
Expire ==
  /\ serial = "go" /\ ~paused /\ ~late
  /\ late' = TRUE
  /\ UNCHANGED <<mvars, nav, pending, stopLatch, rvars, serial, flag, tvars,
                 evars, at, ret, calc, ws>>

\* The time of a final stop runs on while Safety holds it, not in a pause.
StopExpires ==
  /\ FinalPending /\ ~paused /\ ~stopLate
  /\ stopLate' = TRUE
  /\ UNCHANGED <<mvars, nav, pending, stopLatch, mirror, exec, paused, svars,
                 tvars, evars, at, ret, calc, ws>>

-----------------------------------------------------------------------------
(* The WebSocket task                                                      *)

\* A callback goes from here to next; the loop's own variables are not its.
Callback(here, next) ==
  /\ ws = here /\ ws' = next
  /\ UNCHANGED <<stopLatch, rvars, svars, sign, level, field, at, ret, calc>>

Line(next) == Callback("idle", next) /\ connected /\ Command /\ UNCHANGED connected

NoAlign == UNCHANGED <<align, alignWs>>

Connect ==
  /\ Callback("idle", "idle") /\ Command
  /\ ~connected /\ connected' = TRUE
  /\ UNCHANGED <<mvars, nav, pending>> /\ NoAlign

\* WS_EVT_DISCONNECT of the last client: a session of the serial line goes on.
Disconnect ==
  /\ Command
  /\ connected /\ connected' = FALSE
  /\ \/ flag /\ Callback("idle", "idle") /\ UNCHANGED <<mvars, nav>>
     \/ ~flag /\ Callback("idle", "halted") /\ Motor!Closed /\ nav' = FALSE
  /\ UNCHANGED pending /\ NoAlign

\* queueStopLineWs and queueNavStopLineWs: zero first, then the latch, then the
\* queue.
WsStop ==
  /\ Line("halted")
  /\ Motor!Closed /\ nav' = FALSE
  /\ UNCHANGED pending /\ NoAlign

WsLatch ==
  /\ ws = "halted" /\ ws' = "latched"
  /\ stopLatch' = TRUE
  /\ UNCHANGED <<mvars, nav, pending, rvars, svars, tvars, evars, at, ret,
                 calc>>

\* Mutant: STOP waits for its turn like the others.
EnqueuePolite(command) ==
  pending' = IF pending = "NONE" THEN command ELSE pending

\* enqueueRouteCommand: STOP replaces what is queued.
Enqueue(command) ==
  /\ pending' = command
  /\ command = "STOP" \/ pending = "NONE"

WsQueueStop ==
  /\ Callback("latched", IF connected THEN "stopped" ELSE "idle")
  /\ Enqueue("STOP")
  /\ UNCHANGED <<mvars, nav, connected, commands>> /\ NoAlign

\* The reply to STOP is followed by another _navRequested = false, the one to
\* NAV_START by another true.
WsNav(here, next, value) ==
  /\ Callback(here, next)
  /\ nav' = value
  /\ UNCHANGED <<mvars, pending, connected, commands>> /\ NoAlign

\* queueNavStartLineWs and queueMotionCommandWs.
WsStart ==
  /\ Line("reserve")
  /\ ~stopLatch /\ ~mirror
  /\ Enqueue("START")
  /\ UNCHANGED <<mvars, nav>> /\ NoAlign

WsGo ==
  /\ Line("confirm")
  /\ ~mirror /\ ~nav
  /\ Enqueue("GO")
  /\ UNCHANGED <<mvars, nav>> /\ NoAlign

\* queueNavPauseLineWs and queueNavResumeLineWs.
WsPauseResume ==
  /\ Line("idle")
  /\ mirror
  /\ \E command \in {"PAUSE", "RESUME"} : Enqueue(command)
  /\ UNCHANGED <<mvars, nav>> /\ NoAlign

\* "M,left,right": asked, authorized and sent in three steps.
ManualAllowed == ~nav /\ ~mirror /\ ~stopLatch /\ sign = "off" /\ align = "none"

WsManual ==
  /\ Line("authorize")
  /\ ManualAllowed
  /\ UNCHANGED <<mvars, nav, pending>> /\ NoAlign

WsAuthorize ==
  /\ Callback("authorize", "move")
  /\ \/ Motor!Granted("manual", "WEBSOCKET_MANUAL")
     \/ Motor!Denied("manual", "WEBSOCKET_MANUAL")
  /\ UNCHANGED <<driven, nav, pending, connected, commands>> /\ NoAlign

WsMove ==
  /\ Callback("move", "idle")
  /\ driven' = (driven \/ Motor!Accepts("manual"))
  /\ UNCHANGED <<latch, holder, source, nav, pending, connected, commands>>
  /\ NoAlign

\* AUTO_ALIGN_HEADING_BY_RTK from the app runs in the callback.
WsAlign ==
  /\ Line("claim")
  /\ align = "none" /\ ~AlignIsBusy
  /\ UNCHANGED <<mvars, nav, pending>> /\ NoAlign

WsClaim ==
  /\ Callback("claim", "begin")
  /\ ClaimForAlign
  /\ UNCHANGED <<nav, pending, connected, commands>> /\ NoAlign

WsBegin ==
  /\ Callback("begin", "idle")
  /\ align' = "settle" /\ alignWs' = TRUE
  /\ UNCHANGED <<mvars, nav, pending, connected, commands>>

-----------------------------------------------------------------------------
Serial ==
  \/ SerialNone \/ SerialStop \/ SerialGo \/ SerialStart \/ SerialAlign
  \/ SerialSign \/ SerialMode

Queued ==
  \/ TakeNone \/ TakeStop \/ TakeLatched \/ TakeStart \/ TakeGo \/ TakePause
  \/ TakeResume

Route ==
  \/ RouteLatched \/ RouteIdle \/ RouteUpdate \/ RouteHalts \/ RouteMoves
  \/ RouteAuthorizes \/ RouteSends

Loop ==
  \/ Serial \/ RaiseLatch \/ StopEverything \/ LowerLatch \/ Queued
  \/ SafetyTick \/ AlignStep \/ SafetyGate \/ SignStep \/ Route \/ SerialTick

WsEvent ==
  \/ Connect \/ Disconnect \/ WsStop \/ WsStart \/ WsGo \/ WsPauseResume
  \/ WsManual \/ WsAlign

WsContinue ==
  \/ WsLatch \/ WsQueueStop \/ WsNav("stopped", "idle", FALSE)
  \/ WsNav("reserve", "confirm", TRUE) \/ WsNav("confirm", "idle", TRUE)
  \/ WsAuthorize \/ WsMove \/ WsClaim \/ WsBegin

Next == Loop \/ Expire \/ StopExpires \/ WsEvent \/ WsContinue

Spec == Init /\ [][Next]_vars

\* The scheduler runs the loop and the WebSocket task, and the clock goes on.
\* Nobody has to send a command.
FairSpec ==
  /\ Spec /\ WF_vars(Loop) /\ WF_vars(WsContinue)
  /\ WF_vars(Expire) /\ WF_vars(StopExpires)

-----------------------------------------------------------------------------
(* Properties                                                              *)

\* Every variable has its type.
TypeOK ==
  /\ latch \in BOOLEAN /\ driven \in BOOLEAN
  /\ holder \in {"shared", "manual", "no token"}
  /\ pending \in {"NONE", "STOP", "START", "PAUSE", "RESUME", "GO"}
  /\ exec \in {"idle", "validate", "run", "final", "settle", "arrived", "fault"}
  /\ serial \in {"none", "go", "align"}
  /\ align \in {"none", "settle", "drive", "end"}
  /\ sign \in {"off", "wait", "pulse"}
  /\ level \in {"ok", "link", "bad"}
  /\ commands \in 0..MaxCommands

\* From the safety gate of a loop to the next Safety tick, nothing that drives
\* by itself moves the wheels against Safety: only a manual command may come in
\* between (rover.cpp:4291 to 4311).
SafetyStopsAutonomy ==
  (level # "ok" /\ at \notin {"align", "gate"} /\ driven)
    => source = "WEBSOCKET_MANUAL"

\* A raised stop latch is always somebody's: a STOP is queued or being handled,
\* so the latch cannot stay up for good (rover.cpp:74 to 97).
LatchHasOwner ==
  stopLatch => \/ pending = "STOP"
               \/ at \in {"stop", "stopping", "stopped"}
               \/ ws = "latched"

\* What the WebSocket task reads of the executor is what the executor is
\* (rover.cpp:45).
MirrorTruthful == at = "serial" => mirror = Active

\* The state of the loop is of its type, and what other tasks are shown of it is
\* true between two passes (rover.cpp:45).
Consistent == TypeOK /\ MirrorTruthful

\* A STOP is carried through: latch down again, no route, no session, and the
\* wheels nobody's but the manual operator's (rover.cpp:7429).
StopServed ==
  stopLatch ~> /\ ~stopLatch /\ ~Active /\ serial = "none"
               /\ driven => source = "WEBSOCKET_MANUAL"

\* The wheels do not outlive the last client, but for what the serial line
\* started in FIELD mode (WsServer.cpp:73 to 84).
DisconnectStops == ~connected ~> (connected \/ ~driven \/ (field /\ SerialDebug))

\* A session ends: by its timeout, or in its final stop, which that one leaves
\* alone, by the arrival or the stop's own (rover.cpp:1057).  But for three cases:
\* it is paused, it waits for the link to come back, or the navigation request was
\* taken back in the final stop, after which the route is not updated any more.
SessionIsBounded ==
  serial = "go" ~> \/ serial = "none" \/ paused \/ level = "link"
                   \/ FinalPending /\ ~nav

\* What the comment at rover.cpp:447 says: a GO session has a hard ceiling.
SessionHasCeiling == serial = "go" ~> (serial = "none" \/ paused)

\* What the comment at rover.cpp:38 says: a command calculated before a
\* concurrent WebSocket STOP cannot be applied.
StopVoidsCalculated == [][~stopLatch \/ ~RouteSends \/ driven' = driven]_vars

\* What the comment at rover.cpp:6126 says: no debug motion starts on top of an
\* active one.
BusyGuardHolds ==
  [][Active => ~(serial = "none" /\ serial' = "go")]_vars

\* What the comment at rover.cpp:1051 says: an alignment's session ends with
\* the alignment, or by Safety.
AlignKeepsSession ==
  [][(serial = "align" /\ serial' = "none" /\ at = "tick")
       => (level = "bad" \/ align = "none")]_vars

\* A reserved navigation starts or is given back (rover.cpp:7336).
ReservationEnds == nav ~> (~nav \/ Active)

=============================================================================
