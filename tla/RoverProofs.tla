---------------------------- MODULE RoverProofs ----------------------------
(***************************************************************************)
(* Proofs about module Rover: the stop latch always has an owner, and no   *)
(* writer of its own accord moves the wheels against Safety.               *)
(***************************************************************************)
EXTENDS Rover, TLAPS

\* What a writer needs to know of the motor driver.
DriverSane ==
  /\ latch \in BOOLEAN /\ driven \in BOOLEAN
  /\ latch => ~driven
  /\ holder = "manual" => source = "WEBSOCKET_MANUAL"

\* A command of the route is on its way only after Safety allowed it.
RouteAllowed ==
  (at = "apply" /\ calc.move) \/ at \in {"drive", "send"} => level = "ok"

ControlInv ==
  DriverSane /\ RouteAllowed /\ SafetyStopsAutonomy /\ ret \in {"pending", "safety"}

USE DEF Stage, Callback, Line, NoAlign, NoLink, Command

-----------------------------------------------------------------------------
\* The latch is down at boot.
LEMMA LatchInit == Init => LatchHasOwner
  BY DEF Init, LatchHasOwner

\* Whoever lowers the latch or gives up a STOP is the owner.
LEMMA LatchStep == LatchHasOwner /\ [Next]_vars => LatchHasOwner'
<1> SUFFICES ASSUME LatchHasOwner, [Next]_vars
             PROVE  LatchHasOwner'
  OBVIOUS
<1> USE DEF LatchHasOwner
<1>1. CASE Serial
  BY <1>1 DEF Serial, SerialNone, SerialStop, SerialGo, SerialStart,
     SerialAlign, SerialSign, SerialMode
<1>2. CASE RaiseLatch \/ StopEverything \/ LowerLatch
  BY <1>2 DEF RaiseLatch, StopEverything, LowerLatch
<1>3. CASE Queued
  BY <1>3 DEF Queued, TakeNone, TakeStop, TakeLatched, TakeStart, TakeGo,
     TakePause, TakeResume, Take
<1>4. CASE SafetyTick \/ AlignStep \/ SafetyGate \/ SignStep \/ SerialTick
  BY <1>4 DEF SafetyTick, AlignStep, SafetyGate, SignStep, SerialTick
<1>5. CASE Route
  BY <1>5 DEF Route, RouteLatched, RouteIdle, RouteUpdate, RouteHalts,
     RouteMoves, RouteAuthorizes, RouteSends
<1>6. CASE Expire \/ StopExpires
  BY <1>6 DEF Expire, StopExpires
<1>7. CASE WsEvent
  BY <1>7 DEF WsEvent, Connect, Disconnect, WsStop, WsStart, WsGo,
     WsPauseResume, WsManual, WsAlign, Enqueue
<1>8. CASE WsContinue
  BY <1>8 DEF WsContinue, WsLatch, WsQueueStop, WsNav, WsAuthorize, WsMove,
     WsClaim, WsBegin, Enqueue
<1>9. CASE UNCHANGED vars
  BY <1>9 DEF vars
<1> QED
  BY <1>1, <1>2, <1>3, <1>4, <1>5, <1>6, <1>7, <1>8, <1>9 DEF Next, Loop

\* The stop latch is never up without a STOP that is queued, being handled or
\* about to be queued (rover.cpp enqueueRouteCommand, handleStopLine).
THEOREM RoverLatchHasOwner == Spec => []LatchHasOwner
  BY LatchInit, LatchStep, PTL DEF Spec

-----------------------------------------------------------------------------
\* The invariant holds at boot.
LEMMA ControlInit == Init => ControlInv
  BY DEF Init, ControlInv, DriverSane, RouteAllowed, SafetyStopsAutonomy

\* The stages of the loop that touch neither the motor nor the level keep the
\* invariant as long as they stay out of the stages it exempts.
LEMMA ControlLoop == ControlInv /\ Loop => ControlInv'
<1> SUFFICES ASSUME ControlInv, Loop
             PROVE  ControlInv'
  OBVIOUS
<1> USE DEF ControlInv, DriverSane, RouteAllowed, SafetyStopsAutonomy, mvars,
        evars, AllowMotion, Motor!Closed
<1>1. CASE Serial
  <2>1. CASE SerialNone
    BY <2>1 DEF SerialNone
  <2>2. CASE SerialStop
    BY <2>2 DEF SerialStop
  <2>3. CASE SerialGo
    BY <2>3 DEF SerialGo
  <2>4. CASE SerialStart
    BY <2>4 DEF SerialStart
  <2>5. CASE SerialAlign
    BY <2>5 DEF SerialAlign, ClaimForAlign
  <2>6. CASE SerialSign
    BY <2>6 DEF SerialSign
  <2>7. CASE SerialMode
    BY <2>7 DEF SerialMode
  <2> QED
    BY <1>1, <2>1, <2>2, <2>3, <2>4, <2>5, <2>6, <2>7 DEF Serial
<1>2. CASE RaiseLatch \/ StopEverything \/ LowerLatch
  <2>1. CASE RaiseLatch
    BY <2>1 DEF RaiseLatch
  <2>2. CASE StopEverything
    BY <2>2 DEF StopEverything
  <2>3. CASE LowerLatch
    BY <2>3 DEF LowerLatch
  <2> QED
    BY <1>2, <2>1, <2>2, <2>3
<1>3. CASE Queued
  <2>1. CASE TakeNone
    BY <2>1 DEF TakeNone
  <2>2. CASE TakeStop
    BY <2>2 DEF TakeStop
  <2>3. CASE TakeLatched
    BY <2>3 DEF TakeLatched
  <2>4. CASE TakeStart
    BY <2>4 DEF TakeStart
  <2>5. CASE TakeGo
    BY <2>5 DEF TakeGo
  <2>6. CASE TakePause
    BY <2>6 DEF TakePause
  <2>7. CASE TakeResume
    BY <2>7 DEF TakeResume
  <2> QED
    BY <1>3, <2>1, <2>2, <2>3, <2>4, <2>5, <2>6, <2>7 DEF Queued
<1>4. CASE SafetyTick
  BY <1>4 DEF SafetyTick
<1>5. CASE AlignStep
  <2>1. \/ UNCHANGED mvars
        \/ Motor!Closed
        \/ ~latch /\ driven' = TRUE /\ UNCHANGED <<latch, holder, source>>
    BY <1>5 DEF AlignStep, AlignEnds, Motor!Accepts
  <2>2. at' = "gate" /\ ret' = ret
    BY <1>5 DEF AlignStep
  <2>3. CASE UNCHANGED mvars
    BY <2>2, <2>3
  <2>4. CASE Motor!Closed
    BY <2>2, <2>4
  <2>5. CASE ~latch /\ driven' = TRUE /\ UNCHANGED <<latch, holder, source>>
    BY <2>2, <2>5
  <2> QED
    BY <2>1, <2>3, <2>4, <2>5
<1>6. CASE SafetyGate
  BY <1>6 DEF SafetyGate
<1>7. CASE SignStep
  <2>1. \/ UNCHANGED mvars
        \/ Motor!Closed
        \/ /\ level = "ok" /\ latch' = FALSE /\ driven' = TRUE
           /\ holder' = "shared"
    BY <1>7 DEF SignStep, SignEnds, PulseBegins, Motor!Granted
  <2>2. at = "sign" /\ at' = "route" /\ ret' = ret /\ level' = level
    BY <1>7 DEF SignStep
  <2>3. CASE UNCHANGED mvars
    BY <2>2, <2>3
  <2>4. CASE Motor!Closed
    BY <2>2, <2>4
  <2>5. CASE level = "ok" /\ latch' = FALSE /\ driven' = TRUE
               /\ holder' = "shared"
    BY <2>2, <2>5
  <2> QED
    BY <2>1, <2>3, <2>4, <2>5
<1>8. CASE Route
  <2>1. CASE RouteLatched
    BY <2>1 DEF RouteLatched
  <2>2. CASE RouteIdle
    BY <2>2 DEF RouteIdle
  <2>3. CASE RouteUpdate
    <3>1. calc' = Stay \/ level = "ok" \/ calc' = Halt
      BY <2>3 DEF RouteUpdate, UpdateRoute, RouteProceeds, RouteFinishes,
                  RouteHolds, AllowMotion
    <3>2. /\ at = "route" /\ at' = "apply" /\ ret' = ret /\ level' = level
          /\ UNCHANGED mvars
      BY <2>3 DEF RouteUpdate
    <3> QED
      BY <3>1, <3>2 DEF Stay, Halt
  <2>4. CASE RouteHalts
    BY <2>4 DEF RouteHalts
  <2>5. CASE RouteMoves
    BY <2>5 DEF RouteMoves
  <2>6. CASE RouteAuthorizes
    BY <2>6 DEF RouteAuthorizes, Motor!Granted, Motor!CanAuthorize
  <2>7. CASE RouteSends
    BY <2>7 DEF RouteSends, Motor!Accepts
  <2> QED
    BY <1>8, <2>1, <2>2, <2>3, <2>4, <2>5, <2>6, <2>7 DEF Route
<1>9. CASE SerialTick
  BY <1>9 DEF SerialTick, EndSession
<1> QED
  BY <1>1, <1>2, <1>3, <1>4, <1>5, <1>6, <1>7, <1>8, <1>9 DEF Loop

\* The callbacks of the WebSocket task keep the invariant.
LEMMA ControlCallbacks == ControlInv /\ (WsEvent \/ WsContinue) => ControlInv'
<1> SUFFICES ASSUME ControlInv, WsEvent \/ WsContinue
             PROVE  ControlInv'
  OBVIOUS
<1> USE DEF ControlInv, DriverSane, RouteAllowed, SafetyStopsAutonomy, mvars,
        evars, Motor!Closed
<1>1. CASE WsEvent
  <2>1. CASE Connect
    BY <2>1 DEF Connect
  <2>2. CASE Disconnect
    <3>1. UNCHANGED mvars \/ Motor!Closed
      BY <2>2 DEF Disconnect
    <3>2. UNCHANGED <<at, ret, calc, level>>
      BY <2>2 DEF Disconnect
    <3>3. CASE UNCHANGED mvars
      BY <3>2, <3>3
    <3>4. CASE Motor!Closed
      BY <3>2, <3>4
    <3> QED
      BY <3>1, <3>3, <3>4
  <2>3. CASE WsStop
    BY <2>3 DEF WsStop
  <2>4. CASE WsStart
    BY <2>4 DEF WsStart
  <2>5. CASE WsGo
    BY <2>5 DEF WsGo
  <2>6. CASE WsPauseResume
    BY <2>6 DEF WsPauseResume
  <2>7. CASE WsManual
    BY <2>7 DEF WsManual
  <2>8. CASE WsAlign
    BY <2>8 DEF WsAlign
  <2> QED
    BY <1>1, <2>1, <2>2, <2>3, <2>4, <2>5, <2>6, <2>7, <2>8 DEF WsEvent
<1>2. CASE WsLatch \/ WsQueueStop \/ WsBegin \/ WsClaim
  <2>1. CASE WsLatch
    BY <2>1 DEF WsLatch
  <2>2. CASE WsQueueStop
    BY <2>2 DEF WsQueueStop
  <2>3. CASE WsBegin
    BY <2>3 DEF WsBegin
  <2>4. CASE WsClaim
    BY <2>4 DEF WsClaim, ClaimForAlign
  <2> QED
    BY <1>2, <2>1, <2>2, <2>3, <2>4
<1>3. CASE WsNav("stopped", "idle", FALSE) \/ WsNav("reserve", "confirm", TRUE)
             \/ WsNav("confirm", "idle", TRUE)
  BY <1>3 DEF WsNav
<1>4. CASE WsAuthorize
  <2>1. UNCHANGED <<at, ret, calc, level, driven>>
    BY <1>4 DEF WsAuthorize
  <2>2. CASE Motor!Granted("manual", "WEBSOCKET_MANUAL")
    BY <2>1, <2>2 DEF Motor!Granted
  <2>3. CASE Motor!Denied("manual", "WEBSOCKET_MANUAL")
    BY <2>1, <2>3 DEF Motor!Denied
  <2> QED
    BY <1>4, <2>2, <2>3 DEF WsAuthorize
<1>5. CASE WsMove
  BY <1>5 DEF WsMove, Motor!Accepts
<1> QED
  BY <1>1, <1>2, <1>3, <1>4, <1>5 DEF WsContinue

\* Every step keeps the invariant.
LEMMA ControlStep == ControlInv /\ [Next]_vars => ControlInv'
<1>1. ControlInv /\ (Expire \/ StopExpires) => ControlInv'
  BY DEF Expire, StopExpires, ControlInv, DriverSane, RouteAllowed, SafetyStopsAutonomy,
     mvars, evars
<1>2. ControlInv /\ UNCHANGED vars => ControlInv'
  BY DEF vars, ControlInv, DriverSane, RouteAllowed, SafetyStopsAutonomy,
     mvars, evars
<1> QED
  BY <1>1, <1>2, ControlLoop, ControlCallbacks DEF Next

\* Once the loop has passed its safety gate, no route, alignment or steering
\* test drives against Safety (rover.cpp:4291 to 4312).
THEOREM RoverSafetyStopsAutonomy == Spec => []SafetyStopsAutonomy
<1>1. ControlInv => SafetyStopsAutonomy
  BY DEF ControlInv
<1> QED
  BY <1>1, ControlInit, ControlStep, PTL DEF Spec

-----------------------------------------------------------------------------
(* The types, and the mirror of the executor                               *)

\* The mirror is true at every stage, not just between two passes: the loop
\* writes it in the step that changes the executor.
ShownInv == TypeOK /\ mirror = Active

\* The invariant holds at boot.
LEMMA ShownInit == Init => ShownInv
<1>1. MaxCommands \in 0..MaxCommands
  BY MaxCommandsAssumption
<1>2. Init => TypeOK
  BY <1>1, Zenon DEF Init, TypeOK
<1>3. Init => mirror = Active
  <2>1. Init => mirror = FALSE /\ exec = "idle"
    BY Zenon DEF Init
  <2>2. Init => Active = FALSE
    BY <2>1 DEF Active, FinalPending
  <2> QED
    BY <2>1, <2>2
<1> QED
  BY <1>2, <1>3 DEF ShownInv

\* What a step may do to the executor.
RouteShown ==
  \/ UNCHANGED <<mirror, exec>>
  \/ exec' \in {"idle", "arrived", "fault"} /\ mirror' = FALSE
  \/ exec' = "validate" /\ mirror' = TRUE
  \/ Active /\ exec' \in {"run", "final", "settle"} /\ UNCHANGED mirror

\* Each of these keeps the mirror true.
LEMMA MirrorKept ==
  ASSUME ShownInv, RouteShown
  PROVE  /\ exec' \in {"idle", "validate", "run", "final", "settle",
                     "arrived", "fault"}
         /\ mirror' = Active'
<1>1. /\ exec \in {"idle", "validate", "run", "final", "settle",
                 "arrived", "fault"}
      /\ mirror = Active
  BY DEF ShownInv, TypeOK
<1>2. CASE UNCHANGED <<mirror, exec>>
  BY <1>1, <1>2 DEF Active, FinalPending
<1>3. CASE exec' \in {"idle", "arrived", "fault"} /\ mirror' = FALSE
  <2>1. Active' = FALSE
    BY <1>3 DEF Active, FinalPending
  <2> QED
    BY <1>3, <2>1
<1>4. CASE exec' = "validate" /\ mirror' = TRUE
  BY <1>4 DEF Active, FinalPending
<1>5. CASE Active /\ exec' \in {"run", "final", "settle"} /\ UNCHANGED mirror
  BY <1>1, <1>5 DEF Active, FinalPending
<1> QED
  BY <1>2, <1>3, <1>4, <1>5 DEF RouteShown

\* What a step may do to the motor driver.
MotorSane ==
  /\ latch' \in BOOLEAN /\ driven' \in BOOLEAN
  /\ holder' \in {"shared", "manual", "no token"}

LEMMA MotorStays == TypeOK /\ UNCHANGED mvars => MotorSane
  BY DEF TypeOK, mvars, MotorSane

LEMMA MotorCloses == Motor!Closed => MotorSane
  BY DEF Motor!Closed, MotorSane

\* A command, and a step that takes none.
LEMMA CommandTaken ==
  TypeOK /\ Command => commands' \in 0..MaxCommands
<1>1. TypeOK => commands \in 0..MaxCommands
  BY DEF TypeOK
<1> QED
  BY <1>1, MaxCommandsAssumption

\* The loop keeps the invariant: the serial line.
LEMMA ShownSerial == ShownInv /\ Serial => ShownInv'
<1> SUFFICES ASSUME ShownInv, Serial
             PROVE  ShownInv'
  OBVIOUS
<1> USE DEF tvars, svars, evars
<1>1. TypeOK
  BY DEF ShownInv
<1>2. commands' \in 0..MaxCommands
  BY <1>1, CommandTaken
     DEF TypeOK, Serial, SerialNone, SerialStop, SerialGo, SerialStart,
         SerialAlign, SerialSign, SerialMode
<1>3. RouteShown
  BY DEF RouteShown, Serial, SerialNone, SerialStop, SerialGo, SerialStart,
         SerialAlign, SerialSign, SerialMode, GoStarts, NavStarts,
         ActivateRoute, rvars
<1>4. MotorSane
  <2>1. UNCHANGED mvars \/ Motor!Closed \/ ClaimForAlign
    BY DEF Serial, SerialNone, SerialStop, SerialGo, SerialStart,
           SerialAlign, SerialSign, SerialMode
  <2>2. ClaimForAlign => MotorSane
    BY DEF ClaimForAlign, MotorSane
  <2> QED
    BY <1>1, <2>1, <2>2, MotorStays, MotorCloses
<1>5. /\ pending' = pending /\ level' = level
      /\ align' \in {align, "settle"} /\ sign' \in {sign, "wait"}
      /\ serial' \in {serial, "go", "align"}
  BY DEF Serial, SerialNone, SerialStop, SerialGo, SerialStart,
         SerialAlign, SerialSign, SerialMode, GoStarts, BeginSession
<1> QED
  BY <1>1, <1>2, <1>3, <1>4, <1>5, MirrorKept DEF ShownInv, TypeOK, MotorSane

\* STOP and the queued command.
LEMMA ShownQueued ==
  ShownInv /\ (RaiseLatch \/ StopEverything \/ LowerLatch \/ Queued)
    => ShownInv'
<1> SUFFICES ASSUME ShownInv,
                    RaiseLatch \/ StopEverything \/ LowerLatch \/ Queued
             PROVE  ShownInv'
  OBVIOUS
<1> USE DEF tvars, svars, evars
<1>1. TypeOK
  BY DEF ShownInv
<1>2. commands' = commands /\ level' = level /\ pending' \in {pending, "NONE"}
  BY DEF RaiseLatch, StopEverything, LowerLatch, Queued, TakeNone, TakeStop,
         TakeLatched, TakeStart, TakeGo, TakePause, TakeResume, Take
<1>3. RouteShown
  <2>1. CASE RaiseLatch \/ StopEverything \/ LowerLatch
    BY <2>1 DEF RouteShown, RaiseLatch, StopEverything, LowerLatch,
       CancelRoute, rvars
  <2>2. CASE Queued
    BY <2>2 DEF RouteShown, Queued, TakeNone, TakeStop, TakeLatched, TakeStart,
       TakeGo, TakePause, TakeResume, GoStarts, NavStarts, Refused,
       ActivateRoute, rvars
  <2> QED
    BY <2>1, <2>2
<1>4. MotorSane
  <2>1. UNCHANGED mvars \/ Motor!Closed
    BY DEF RaiseLatch, StopEverything, LowerLatch, Queued, TakeNone, TakeStop,
           TakeLatched, TakeStart, TakeGo, TakePause, TakeResume
  <2> QED
    BY <1>1, <2>1, MotorStays, MotorCloses
<1>5. /\ align' \in {align, "none"} /\ sign' \in {sign, "off"}
      /\ serial' \in {serial, "go", "none"}
  BY DEF RaiseLatch, StopEverything, LowerLatch, Queued, TakeNone, TakeStop,
         TakeLatched, TakeStart, TakeGo, TakePause, TakeResume, GoStarts,
         BeginSession
<1> QED
  BY <1>1, <1>2, <1>3, <1>4, <1>5, MirrorKept DEF ShownInv, TypeOK, MotorSane

\* Safety, the alignment and the steering test.
LEMMA ShownChecks ==
  ShownInv /\ (SafetyTick \/ AlignStep \/ SafetyGate \/ SignStep) => ShownInv'
<1> SUFFICES ASSUME ShownInv, SafetyTick \/ AlignStep \/ SafetyGate \/ SignStep
             PROVE  ShownInv'
  OBVIOUS
<1> USE DEF tvars, svars, evars
<1>1. TypeOK
  BY DEF ShownInv
<1>2. /\ UNCHANGED <<pending, commands, serial>>
      /\ level' \in {"ok", "link", "bad"}
  BY <1>1 DEF TypeOK, SafetyTick, AlignStep, SafetyGate, SignStep
<1>3. RouteShown
  BY DEF RouteShown, SafetyTick, AlignStep, SafetyGate, SignStep, RetireOrphan,
         CancelRoute, rvars
<1>4. MotorSane
  <2>1. CASE SafetyTick \/ SafetyGate
    BY <1>1, <2>1, MotorStays, MotorCloses DEF SafetyTick, SafetyGate
  <2>2. CASE AlignStep
    <3>1. \/ UNCHANGED mvars
          \/ Motor!Closed
          \/ driven' = TRUE /\ UNCHANGED <<latch, holder, source>>
      BY <2>2 DEF AlignStep, AlignEnds
    <3>2. (driven' = TRUE /\ UNCHANGED <<latch, holder, source>>) => MotorSane
      BY <1>1 DEF TypeOK, MotorSane
    <3> QED
      BY <1>1, <3>1, <3>2, MotorStays, MotorCloses
  <2>3. CASE SignStep
    <3>1. \/ UNCHANGED mvars
          \/ Motor!Closed
          \/ latch' = FALSE /\ holder' = "shared" /\ driven' = TRUE
      BY <2>3 DEF SignStep, SignEnds, PulseBegins, Motor!Granted
    <3>2. (latch' = FALSE /\ holder' = "shared" /\ driven' = TRUE) => MotorSane
      BY DEF MotorSane
    <3> QED
      BY <1>1, <3>1, <3>2, MotorStays, MotorCloses
  <2> QED
    BY <2>1, <2>2, <2>3
<1>5. /\ align' \in {"none", "settle", "drive", "end"}
      /\ sign' \in {"off", "wait", "pulse"}
  <2>1. CASE SafetyTick \/ SafetyGate
    BY <1>1, <2>1 DEF TypeOK, SafetyTick, SafetyGate
  <2>2. CASE AlignStep
    BY <1>1, <2>2 DEF TypeOK, AlignStep, AlignEnds
  <2>3. CASE SignStep
    BY <1>1, <2>3 DEF TypeOK, SignStep, SignEnds, PulseBegins
  <2> QED
    BY <2>1, <2>2, <2>3
<1> QED
  BY <1>1, <1>2, <1>3, <1>4, <1>5, MirrorKept DEF ShownInv, TypeOK, MotorSane

\* The route, the session and its clock.
LEMMA ShownRoute ==
  ShownInv /\ (Route \/ SerialTick \/ Expire \/ StopExpires) => ShownInv'
<1> SUFFICES ASSUME ShownInv, Route \/ SerialTick \/ Expire \/ StopExpires
             PROVE  ShownInv'
  OBVIOUS
<1> USE DEF tvars, svars, evars
<1>1. TypeOK
  BY DEF ShownInv
<1>2. /\ UNCHANGED <<pending, commands, level, align, sign>>
      /\ serial' \in {serial, "none"}
  BY DEF Route, RouteLatched, RouteIdle, RouteUpdate, RouteHalts, RouteMoves,
         RouteAuthorizes, RouteSends, SerialTick, EndSession, Expire,
         StopExpires
<1>3. RouteShown
  <2>1. CASE RouteUpdate
    BY <2>1 DEF RouteShown, RouteUpdate, UpdateRoute, RouteProceeds, RouteFinishes,
            RouteHolds, rvars, Active, FinalPending
  <2>2. CASE SerialTick
    BY <2>2 DEF RouteShown, SerialTick, EndSession, CancelRoute, rvars
  <2>3. CASE (Route /\ ~RouteUpdate) \/ Expire \/ StopExpires
    BY <2>3 DEF RouteShown, Route, RouteLatched, RouteIdle, RouteHalts,
       RouteMoves, RouteAuthorizes, RouteSends, Expire, StopExpires, RetireOrphan,
       CancelRoute, rvars
  <2> QED
    BY <2>1, <2>2, <2>3
<1>4. MotorSane
  <2>1. \/ UNCHANGED mvars
        \/ Motor!Closed
        \/ RouteAuthorizes
        \/ RouteSends
    BY DEF Route, RouteLatched, RouteIdle, RouteUpdate, RouteHalts, RouteMoves,
           SerialTick, EndSession, Expire, StopExpires
  <2>2. RouteAuthorizes => MotorSane
    BY <1>1 DEF TypeOK, RouteAuthorizes, Motor!Granted, mvars, MotorSane
  <2>3. RouteSends => MotorSane
    BY <1>1 DEF TypeOK, RouteSends, Motor!Accepts, MotorSane
  <2> QED
    BY <1>1, <2>1, <2>2, <2>3, MotorStays, MotorCloses
<1> QED
  BY <1>1, <1>2, <1>3, <1>4, MirrorKept DEF ShownInv, TypeOK, MotorSane

\* The callbacks of the WebSocket task, which leave the executor to the loop.
LEMMA ShownCallbacks == ShownInv /\ (WsEvent \/ WsContinue) => ShownInv'
<1> SUFFICES ASSUME ShownInv, WsEvent \/ WsContinue
             PROVE  ShownInv'
  OBVIOUS
<1> USE DEF tvars, svars, evars
<1>1. TypeOK
  BY DEF ShownInv
<1>2. commands' \in 0..MaxCommands
  <2>1. Command \/ UNCHANGED commands
    BY DEF WsEvent, Connect, Disconnect, WsStop, WsStart, WsGo, WsPauseResume,
           WsManual, WsAlign, WsContinue, WsLatch, WsQueueStop, WsNav,
           WsAuthorize, WsMove, WsClaim, WsBegin
  <2>2. UNCHANGED commands => commands' \in 0..MaxCommands
    BY <1>1 DEF TypeOK
  <2> QED
    BY <1>1, <2>1, <2>2, CommandTaken
<1>3. UNCHANGED <<rvars, serial, sign, level>>
  BY DEF WsEvent, Connect, Disconnect, WsStop, WsStart, WsGo, WsPauseResume,
         WsManual, WsAlign, WsContinue, WsLatch, WsQueueStop, WsNav,
         WsAuthorize, WsMove, WsClaim, WsBegin
<1>4. MotorSane
  <2>1. \/ UNCHANGED mvars
        \/ Motor!Closed
        \/ ClaimForAlign
        \/ WsAuthorize
        \/ WsMove
    BY DEF WsEvent, Connect, Disconnect, WsStop, WsStart, WsGo, WsPauseResume,
           WsManual, WsAlign, WsContinue, WsLatch, WsQueueStop, WsNav, WsClaim,
           WsBegin, mvars
  <2>2. ClaimForAlign => MotorSane
    BY DEF ClaimForAlign, MotorSane
  <2>3. WsAuthorize => MotorSane
    BY <1>1 DEF TypeOK, WsAuthorize, Motor!Granted, Motor!Denied, MotorSane
  <2>4. WsMove => MotorSane
    BY <1>1 DEF TypeOK, WsMove, Motor!Accepts, MotorSane
  <2> QED
    BY <1>1, <2>1, <2>2, <2>3, <2>4, MotorStays, MotorCloses
<1>5. pending' \in {pending, "STOP", "START", "GO", "PAUSE", "RESUME"}
  BY DEF WsEvent, Connect, Disconnect, WsStop, WsStart, WsGo, WsPauseResume,
         WsManual, WsAlign, WsContinue, WsLatch, WsQueueStop, WsNav,
         WsAuthorize, WsMove, WsClaim, WsBegin, Enqueue
<1>6. align' \in {align, "settle"}
  BY DEF WsEvent, Connect, Disconnect, WsStop, WsStart, WsGo, WsPauseResume,
         WsManual, WsAlign, WsContinue, WsLatch, WsQueueStop, WsNav,
         WsAuthorize, WsMove, WsClaim, WsBegin
<1>7. RouteShown
  BY <1>3 DEF RouteShown, rvars
<1> QED
  BY <1>1, <1>2, <1>3, <1>4, <1>5, <1>6, <1>7, MirrorKept
     DEF ShownInv, TypeOK, MotorSane

\* Every step keeps the invariant.
LEMMA ShownStep == ShownInv /\ [Next]_vars => ShownInv'
<1>1. ShownInv /\ UNCHANGED vars => ShownInv'
  BY DEF vars, ShownInv, TypeOK, Active, FinalPending, mvars, rvars, svars, tvars, evars
<1> QED
  BY <1>1, ShownSerial, ShownQueued, ShownChecks, ShownRoute, ShownCallbacks
     DEF Next, Loop

\* Whatever task reads the mirror, it sees what the executor is: the WebSocket
\* task never takes a route for finished that is not (rover.cpp:45).
THEOREM RoverConsistent == Spec => []Consistent
<1>1. ShownInv => Consistent
  BY DEF ShownInv, Consistent, MirrorTruthful
<1> QED
  BY <1>1, ShownInit, ShownStep, PTL DEF Spec

=============================================================================
