---------------------------- MODULE RouteExecutor ----------------------------
(***************************************************************************)
(* lib/RouteExecutor: the state machine that drives a planned route        *)
(* segment by segment, stops and turns at the corners, recovers what it    *)
(* missed, and comes to rest at the end; with the gate that the rover puts *)
(* between its output and the motor (src/rover.cpp, stepRouteExecutor).    *)
(*                                                                         *)
(* Where the rover is, how it turns and what the footprint check finds is  *)
(* left open at every update.  A deadline is a timer that runs out, at any *)
(* time after it was started.                                              *)
(***************************************************************************)
EXTENDS Naturals, Sequences

CONSTANTS
  Plans,          \* routes: the types of the points after the first
  MaxAttempts,    \* recoveryMaxAttempts
  MaxCorrections, \* turnMaxCorrectionAttempts
  WrongLimit,     \* steeringResponseWrongDirectionCount
  ToolConfigured  \* ROVER_TOOL_FOOTPRINT_CONFIGURED

FinalTypes == {"FINAL_POSITION", "FINAL_POSE"}

\* RoutePlan::finalize and hasValidFinalPosePreApproach.
ValidPlan(plan) ==
  /\ plan # <<>>
  /\ \A i \in 1..Len(plan) : (plan[i] \in FinalTypes) = (i = Len(plan))
  /\ plan[Len(plan)] = "FINAL_POSE"
       => Len(plan) > 1 /\ plan[Len(plan) - 1] = "CORNER"

ASSUME ExecutorAssumption ==
  /\ \A plan \in Plans :
       /\ plan \in Seq(FinalTypes \cup {"PASS_THROUGH", "CORNER"})
       /\ ValidPlan(plan)
  /\ MaxAttempts \in Nat \ {0}
  /\ MaxCorrections \in Nat
  /\ WrongLimit \in Nat \ {0}
  /\ ToolConfigured \in BOOLEAN

VARIABLES
  plan,    \* plan_
  ex,      \* the executor's members, a record
  late,    \* the timers that have run out
  paused,  \* paused_
  allowed, \* input.motionAllowed
  open,    \* the motor takes the route's commands: zeroLatchActive is down
  rolling, \* history: how the rover moved since its last confirmed stop
  held,    \* history: what has held the route since its last change of state
  blind    \* history: a turn was commanded whose sweep is not clear

vars == <<plan, ex, late, paused, allowed, open, rolling, held, blind>>

\* The line states move along a segment, or towards the recovery goal.
ProgressStates ==
  {"FOLLOW_SEGMENT", "APPROACH_TRANSITION", "INTERCEPT_NEXT_LINE",
   "TERMINAL_APPROACH"}
LineStates == ProgressStates \cup {"RECOVERY_APPROACH"}

StopStates == {"BRAKE", "FINAL_STOP", "TURN_BRAKE", "WAIT_PHYSICAL_STOP"}

TurnStates == {"TURN_BREAKAWAY", "TURN_ROTATE", "TURN_CORRECTION"}

\* TURN_TO_NEXT, CORNER_MISSED_INTERCEPT and RECOVERY_TURN name a purpose, and
\* TURN_CORRECTION_BREAKAWAY is for a startTurn nobody calls: never entered.
States ==
  LineStates \cup StopStates \cup TurnStates \cup
  {"IDLE", "VALIDATE_ROUTE", "ACQUIRE_SEGMENT", "TURN_EVALUATE",
   "HEADING_STABLE", "RECOVERY_PLAN", "RECOVERY_REVERSE",
   "RECOVERY_EVALUATE", "COMPLETE", "FAULT"}

StopNexts ==
  {"NONE", "START_TURN", "TURN_NEXT", "TURN_EVALUATE", "START_INTERCEPT",
   "FINAL_COMPLETE", "RECOVERY_REVERSE", "RECOVERY_TURN",
   "RECOVERY_EVALUATE", "CORNER_MISSED_INTERCEPT", "CORNER_MISSED_FAULT",
   "STEERING_RESPONSE_FAULT"}

StableNexts ==
  {"NONE", "NEXT_SEGMENT_INTERCEPT", "RECOVERY_APPROACH", "RESUME_INTERCEPT"}

\* TURN_IN_PLACE is two motions, one for each direction.
Turns == {"LEFT", "RIGHT"}
Motions == {"STOP", "DRIVE", "REVERSE"} \cup Turns

Timers == {"stop", "turn", "phase", "progress", "intercept", "approach"}

Idle ==
  [state |-> "IDLE", seg |-> 1, stopNext |-> "NONE", stableNext |-> "NONE",
   stable |-> FALSE,      \* physicalStableSinceMs_ is set
   gate |-> FALSE,        \* physicalStopGatePassed_
   wrong |-> 0,           \* steeringResponseObservationCount_
   direction |-> "LEFT", corrections |-> 0, correcting |-> FALSE,
   recovering |-> FALSE,  \* recoveryActive_
   recoverySeg |-> 0, attempt |-> 0, reached |-> FALSE,
   motion |-> "STOP", changed |-> FALSE,
   restarted |-> {}]      \* the timers that the update has restarted

Init ==
  /\ plan \in Plans
  /\ ex = Idle
  /\ late = {} /\ paused = FALSE /\ allowed = TRUE
  /\ open = FALSE
  /\ rolling = "STOP" /\ held = "no" /\ blind = FALSE

-----------------------------------------------------------------------------
(* Members: what they make of the executor's record                        *)

IsActive(x) == x.state \notin {"IDLE", "COMPLETE", "FAULT"}

IsTerminalSegment(x) == x.seg = Len(plan)

FinalPending(x) ==
  \/ x.state = "FINAL_STOP"
  \/ x.state = "WAIT_PHYSICAL_STOP" /\ x.stopNext = "FINAL_COMPLETE"

Restart(x, timers) == [x EXCEPT !.restarted = @ \cup timers]

\* setState: the output tells a change, the time of the state starts again.
SetState(x, state) ==
  IF x.state = state THEN x
  ELSE [Restart(x, {"intercept"}) EXCEPT !.state = state, !.changed = TRUE]

Fail(x) == [SetState(x, "FAULT") EXCEPT !.recovering = FALSE]

CompleteArrived(x) == [SetState(x, "COMPLETE") EXCEPT !.recovering = FALSE]

EnterBrake(x, next, visible) ==
  [SetState(Restart(x, {"stop"}), visible) EXCEPT
     !.stopNext = next,
     !.stable = FALSE,
     !.wrong = IF next = "STEERING_RESPONSE_FAULT" THEN @ ELSE 0]

Brake(x, next) == EnterBrake(x, next, "BRAKE")

AcquireSegment(x, state) ==
  [SetState(Restart(x, {"progress"}), state) EXCEPT !.recovering = FALSE]

\* startTurn starts the wheels at once.
StartTurn(x, next) ==
  { [SetState(Restart(x, {"turn", "phase"}), "TURN_BREAKAWAY") EXCEPT
       !.direction = side,
       !.corrections = 0, !.correcting = FALSE,
       !.stable = FALSE,
       !.stableNext = next,
       !.motion = side] : side \in Turns }

BeginTurnBrake(x) == EnterBrake(x, "TURN_EVALUATE", "TURN_BRAKE")

Rotate(x) == [x EXCEPT !.motion = x.direction]

\* beginTurnCorrection, with the updateTurn that follows it.
BeginTurnCorrection(x) ==
  IF "turn" \in late THEN {Fail(x)}
  ELSE { Rotate([SetState(Restart(x, {"phase"}), "TURN_CORRECTION") EXCEPT
                   !.direction = side, !.correcting = TRUE])
           : side \in Turns }

\* Mutant: every recovery counts its attempts from zero.
BeginRecoveryAnew(x) ==
  [SetState(x, "RECOVERY_PLAN") EXCEPT
     !.recoverySeg = x.seg,
     !.attempt = 0,
     !.recovering = TRUE, !.reached = FALSE]

\* The attempts are counted for each segment, over all its recoveries.
BeginRecovery(x) ==
  IF x.recoverySeg = x.seg /\ x.attempt >= MaxAttempts THEN Fail(x)
  ELSE [SetState(x, "RECOVERY_PLAN") EXCEPT
          !.recoverySeg = x.seg,
          !.attempt = IF x.recoverySeg = x.seg THEN @ ELSE 0,
          !.recovering = TRUE, !.reached = FALSE]

-----------------------------------------------------------------------------
(* The update of one state: the set of what it may come to                 *)

\* updateSteeringResponseWatchdog and the command: a sample counts for nothing,
\* clears the count, or is one more against the steering.
Steer(x) ==
  { [x EXCEPT !.motion = "DRIVE", !.wrong = n] :
      n \in {n \in {0, x.wrong, x.wrong + 1} : n < WrongLimit} }
  \cup IF x.wrong + 1 < WrongLimit THEN {}
       ELSE {Brake(x, "STEERING_RESPONSE_FAULT")}

\* updateLineMotion: a large heading error is turned away at rest.
LineMotion(x) ==
  Steer(x) \cup
  {Brake(x, IF x.state = "RECOVERY_APPROACH" THEN "RECOVERY_EVALUATE"
            ELSE "START_TURN")}

\* Mutant: a corner met inside the corridor is passed like any other point.
CornerPassed(x) ==
  {AcquireSegment([x EXCEPT !.seg = @ + 1], "FOLLOW_SEGMENT"),
   Brake(x, "CORNER_MISSED_INTERCEPT"), Brake(x, "CORNER_MISSED_FAULT")}

\* A corner is reached inside the corridor, not far from it, or too far.
Corner(x) ==
  {Brake(x, "TURN_NEXT"), Brake(x, "CORNER_MISSED_INTERCEPT"),
   Brake(x, "CORNER_MISSED_FAULT")}

\* So is any other point on the way, without a stop if it can be.
PassThrough(x) ==
  LET next == [x EXCEPT !.seg = @ + 1]
  IN  {AcquireSegment(next, "FOLLOW_SEGMENT"),
       Brake(next, "START_INTERCEPT"), Fail(x)}

Follow(x) ==
  IF plan[x.seg] \in FinalTypes
  THEN {SetState(x, "TERMINAL_APPROACH"), BeginRecovery(x)} \cup LineMotion(x)
  ELSE (IF plan[x.seg] = "CORNER" THEN Corner(x) ELSE PassThrough(x))
       \cup LineMotion(x) \cup LineMotion(SetState(x, "APPROACH_TRANSITION"))

Intercept(x) ==
  {SetState(x, "FOLLOW_SEGMENT"), BeginRecovery(x)}
  \cup (IF IsTerminalSegment(x) THEN {SetState(x, "TERMINAL_APPROACH")} ELSE {})
  \cup (IF "intercept" \in late THEN {} ELSE LineMotion(x))

TerminalApproach(x) == {BeginRecovery(x)} \cup LineMotion(x)

\* updateRecoveryApproach.  That the final radius ends it is seen before.
RecoveryApproach(x) ==
  {Brake([x EXCEPT !.reached = TRUE], "RECOVERY_EVALUATE"),
   Brake(x, "RECOVERY_EVALUATE")}
  \cup IF "approach" \in late THEN {} ELSE LineMotion(x)

\* The sweep behind may be blocked at any time.
RecoveryReverse(x) ==
  {Brake(x, "RECOVERY_TURN")} \cup
  IF ToolConfigured /\ "approach" \notin late
  THEN {[x EXCEPT !.motion = "REVERSE"]} ELSE {}

RecoveryPlan(x) ==
  {Brake(x, "RECOVERY_TURN")} \cup
  IF ToolConfigured THEN {Brake(x, "RECOVERY_REVERSE")} ELSE {}

RecoveryEvaluate(x) ==
  LET y == [x EXCEPT !.attempt = @ + 1]
  IN  IF y.reached /\ plan[y.seg] # "FINAL_POSITION"
        THEN StartTurn(y, "RESUME_INTERCEPT")
      ELSE IF y.attempt >= MaxAttempts THEN {Fail(y)}
      ELSE {SetState(y, "RECOVERY_PLAN")}

\* Mutant: a turn that has gone too far is turned back at once.
RotationBack(x) ==
  IF "turn" \in late THEN {Fail(x)}
  ELSE {BeginTurnBrake(x), Rotate(x)}
       \cup { Rotate([x EXCEPT !.direction = side]) : side \in Turns }

\* Mutant: the deadline of the turn is the breakaway's only.
RotationForever(x) == {BeginTurnBrake(x), Rotate(x)}

\* updateTurn in TURN_ROTATE.
Rotation(x) ==
  IF "turn" \in late THEN {Fail(x)} ELSE {BeginTurnBrake(x), Rotate(x)}

TurnBreakaway(x) ==
  IF late \cap {"turn", "phase"} # {} THEN {Fail(x)}
  ELSE {Rotate(x)} \cup Rotation(SetState(x, "TURN_ROTATE"))

TurnCorrection(x) ==
  IF "turn" \in late THEN {Fail(x)}
  ELSE IF "phase" \in late THEN {BeginTurnBrake(x)}
  ELSE {Rotate(x)}

\* Mutant: the corrections are not counted out.
CorrectAgain(x) == BeginTurnCorrection(x)

\* A turn that is off may be corrected, a bounded number of times.
Correct(x) ==
  IF x.corrections >= MaxCorrections THEN {Fail(x)} ELSE BeginTurnCorrection(x)

\* updateTurnEvaluate: a correction must have improved the heading.
TurnEvaluate(x) ==
  LET y == IF x.correcting THEN [x EXCEPT !.corrections = @ + 1] ELSE x
  IN  (IF x.correcting THEN {Fail(y)} ELSE {})
      \cup {[SetState(y, "HEADING_STABLE") EXCEPT
               !.correcting = FALSE, !.stable = FALSE]}
      \cup Correct(y)

Stable(x) ==
  CASE x.stableNext = "NEXT_SEGMENT_INTERCEPT" ->
         AcquireSegment([x EXCEPT !.seg = @ + 1], "INTERCEPT_NEXT_LINE")
    [] x.stableNext = "RECOVERY_APPROACH" ->
         [SetState(Restart(x, {"approach"}), "RECOVERY_APPROACH") EXCEPT
            !.reached = FALSE]
    [] x.stableNext = "RESUME_INTERCEPT" ->
         AcquireSegment(x, "INTERCEPT_NEXT_LINE")

\* updatePhysicalStop: not at rest, at rest, or at rest for long enough.
Standing(x) == {[x EXCEPT !.stable = b] : b \in BOOLEAN}

HeadingStable(x) ==
  Standing(x) \cup IF x.stable THEN {Stable(x)} \cup Correct(x) ELSE {}

\* What the stop was for.  The rover computes turnPathAllowed only in three
\* states that are never entered (rover.cpp:821), and says yes otherwise.
TurnPathAllowed(x, sweep) ==
  x.state \in {"TURN_TO_NEXT", "CORNER_MISSED_INTERCEPT", "RECOVERY_TURN"}
    => sweep

TurnIfClear(x, next, sweep) ==
  IF TurnPathAllowed(x, sweep) THEN StartTurn(x, next) ELSE {Fail(x)}

Stopped(x, sweep) ==
  CASE x.stopNext = "START_TURN" ->
         TurnIfClear(x, "RESUME_INTERCEPT", sweep)
    [] x.stopNext = "TURN_NEXT" ->
         TurnIfClear(x, "NEXT_SEGMENT_INTERCEPT", sweep)
    [] x.stopNext = "RECOVERY_TURN" ->
         TurnIfClear(x, "RECOVERY_APPROACH", sweep)
    [] x.stopNext = "CORNER_MISSED_INTERCEPT" ->
         {Fail(x)} \cup
         TurnIfClear([x EXCEPT !.seg = @ + 1], "RESUME_INTERCEPT", sweep)
    [] x.stopNext = "TURN_EVALUATE" -> {SetState(x, "TURN_EVALUATE")}
    [] x.stopNext = "START_INTERCEPT" ->
         {AcquireSegment(x, "INTERCEPT_NEXT_LINE")}
    [] x.stopNext = "FINAL_COMPLETE" -> {CompleteArrived(x)}
    [] x.stopNext = "RECOVERY_REVERSE" ->
         {SetState(Restart(x, {"approach"}), "RECOVERY_REVERSE")}
    [] x.stopNext = "RECOVERY_EVALUATE" -> {SetState(x, "RECOVERY_EVALUATE")}
    [] x.stopNext \in {"CORNER_MISSED_FAULT", "STEERING_RESPONSE_FAULT"} ->
         {Fail(x)}

WaitPhysicalStop(x, sweep) ==
  IF "stop" \in late THEN {Fail(x)}
  ELSE Standing(x) \cup
       IF x.stable THEN Stopped([x EXCEPT !.gate = TRUE], sweep) ELSE {}

Switch(x, sweep) ==
  CASE x.state = "VALIDATE_ROUTE" -> {SetState(x, "ACQUIRE_SEGMENT")}
    [] x.state = "ACQUIRE_SEGMENT" ->
         {AcquireSegment(x, IF x.seg > 1 THEN "INTERCEPT_NEXT_LINE"
                            ELSE "FOLLOW_SEGMENT")}
    [] x.state \in {"FOLLOW_SEGMENT", "APPROACH_TRANSITION"} -> Follow(x)
    [] x.state = "INTERCEPT_NEXT_LINE" -> Intercept(x)
    [] x.state = "TERMINAL_APPROACH" -> TerminalApproach(x)
    [] x.state \in StopStates \ {"WAIT_PHYSICAL_STOP"} ->
         {SetState(x, "WAIT_PHYSICAL_STOP")}
    [] x.state = "WAIT_PHYSICAL_STOP" -> WaitPhysicalStop(x, sweep)
    [] x.state = "TURN_BREAKAWAY" -> TurnBreakaway(x)
    [] x.state = "TURN_ROTATE" -> Rotation(x)
    [] x.state = "TURN_CORRECTION" -> TurnCorrection(x)
    [] x.state = "TURN_EVALUATE" -> TurnEvaluate(x)
    [] x.state = "HEADING_STABLE" -> HeadingStable(x)
    [] x.state = "RECOVERY_PLAN" -> RecoveryPlan(x)
    [] x.state = "RECOVERY_REVERSE" -> RecoveryReverse(x)
    [] x.state = "RECOVERY_APPROACH" -> RecoveryApproach(x)
    [] x.state = "RECOVERY_EVALUATE" -> RecoveryEvaluate(x)
    [] x.state = "FAULT" -> {x}

-----------------------------------------------------------------------------
(* RouteExecutor::update                                                   *)

\* Where the rover is on the last segment: outside the final radius, inside of it,
\* or inside with a heading that is not the final pose's.
Places == {"outside", "inside", "off heading"}

\* Mutant: the final radius is looked at in the final stop as well, which begins
\* the stop and its timeout anew.
ArrivalAgain(x, place) ==
  IF ~IsTerminalSegment(x) \/ place = "outside" THEN x
  ELSE IF plan[x.seg] = "FINAL_POSITION" \/ place = "inside"
    THEN EnterBrake(x, "FINAL_COMPLETE", "FINAL_STOP")
  ELSE IF x.recovering THEN x
  ELSE BeginRecovery(x)

\* The final radius is looked at first, in every state: it ends the route, but
\* for a pose whose heading was missed.
Arrival(x, place) ==
  IF ~IsTerminalSegment(x) \/ place = "outside" \/ FinalPending(x) THEN x
  ELSE IF plan[x.seg] = "FINAL_POSITION" \/ place = "inside"
    THEN EnterBrake(x, "FINAL_COMPLETE", "FINAL_STOP")
  ELSE IF x.recovering THEN x
  ELSE BeginRecovery(x)

\* The path ahead, of the segment or of the recovery, is asked about, then the
\* progress: without any since the timer was started, the route has failed.
Gated(x, path) ==
  IF x.state \in LineStates /\ ~path THEN {Fail(x)}
  ELSE IF x.state \notin ProgressStates THEN {x}
  ELSE {Restart(x, {"progress"}),
        IF "progress" \in late THEN Fail(x) ELSE x}

\* Mutant: a line state that has been entered drives at the next update.
ContinuedLater(x, seg, path) == {x}

\* A line state that has just been entered drives at once, if its path is free,
\* which for a new segment is another path.
Continued(x, seg, path) ==
  IF x.motion # "STOP" \/ x.state \notin LineStates THEN {x}
  ELSE IF x.seg # seg THEN LineMotion(x) \cup {Fail(x)}
  ELSE IF path THEN LineMotion(x)
  ELSE {Fail(x)}

Outcomes(path, place, sweep) ==
  LET x == [ex EXCEPT !.motion = "STOP", !.changed = FALSE, !.gate = FALSE]
  IN  UNION { UNION { Continued(z, ex.seg, path) : z \in Switch(y, sweep) }
                : y \in Gated(Arrival(x, place), path) }

\* When a timer matters.
Runs(timer, x) ==
  CASE timer = "stop" -> x.state \in StopStates
    [] timer = "turn" ->
         \/ x.state \in TurnStates \cup {"TURN_EVALUATE", "HEADING_STABLE"}
         \/ x.state \in StopStates /\ x.stopNext = "TURN_EVALUATE"
    [] timer = "phase" -> x.state \in {"TURN_BREAKAWAY", "TURN_CORRECTION"}
    [] timer = "progress" -> x.state \in ProgressStates
    [] timer = "intercept" -> x.state = "INTERCEPT_NEXT_LINE"
    [] timer = "approach" ->
         x.state \in {"RECOVERY_REVERSE", "RECOVERY_APPROACH"}

\* A member that is written before it is read again is forgotten.
Tidy(x) ==
  LET turning == Runs("turn", x)
      stopping == x.state \in StopStates
  IN  IF ~IsActive(x) THEN [Idle EXCEPT !.state = x.state, !.seg = x.seg]
      ELSE [x EXCEPT
        !.stopNext = IF stopping THEN @ ELSE "NONE",
        !.stable = @ /\ x.state \in {"WAIT_PHYSICAL_STOP", "HEADING_STABLE"},
        !.stableNext = IF turning THEN @ ELSE "NONE",
        !.direction = IF turning THEN @ ELSE "LEFT",
        !.corrections = IF turning THEN @ ELSE 0,
        !.correcting = @ /\ turning,
        !.reached = @ /\ (\/ x.state = "RECOVERY_EVALUATE"
                          \/ stopping /\ x.stopNext = "RECOVERY_EVALUATE"),
        !.changed = FALSE,
        !.restarted = {}]

\* stepRouteExecutor: a command opens the motor's gate on a change of state
\* only, a stop closes it.
Apply(x, sweep) ==
  /\ ex' = Tidy(x)
  /\ late' = {t \in late \ x.restarted : Runs(t, x)}
  /\ open' = (x.motion # "STOP" /\ (open \/ x.changed))
  /\ rolling' = IF x.motion = "STOP" /\ ~x.gate THEN rolling ELSE x.motion
  /\ held' = IF x.changed THEN "no" ELSE held
  /\ blind' = (x.motion \in Turns /\ ~sweep)
  /\ UNCHANGED <<plan, paused, allowed>>

Update ==
  /\ IsActive(ex) /\ allowed /\ ~paused
  /\ \E path, sweep \in BOOLEAN, place \in Places :
       \E x \in Outcomes(path, place, sweep) : Apply(x, sweep)

\* Paused, or Safety, the operator or the latch does not allow to move: the
\* motor is stopped and the state is kept.
UpdateHeld ==
  /\ IsActive(ex)
  /\ paused \/ ~allowed
  /\ ex' = [ex EXCEPT !.motion = "STOP", !.gate = FALSE]
  /\ open' = FALSE
  /\ held' = IF paused /\ held # "hold" THEN "pause" ELSE "hold"
  /\ blind' = FALSE
  /\ UNCHANGED <<plan, late, paused, allowed, rolling>>

\* An estimate that is not a number, or a footprint out of bounds.
UpdateFails ==
  /\ IsActive(ex)
  /\ Apply(Fail([ex EXCEPT !.motion = "STOP", !.gate = FALSE]), TRUE)

-----------------------------------------------------------------------------
(* The other calls, by the rover's commands                                *)

\* start: its callers refuse while a route is active, and hold the wheels.
Start ==
  /\ ~IsActive(ex)
  /\ plan' \in Plans
  /\ ex' = [Idle EXCEPT !.state = "VALIDATE_ROUTE"]
  /\ late' = {} /\ paused' = FALSE
  /\ rolling' = "STOP" /\ held' = "no"
  /\ UNCHANGED <<allowed, open, blind>>

\* stop: STOP, NAV_STOP, the end of a session.  The timeout of a session calls
\* expire just before, and neither in a final stop (rover.cpp:1058).
Stop ==
  /\ ex' = Idle
  /\ late' = {} /\ paused' = FALSE
  /\ open' = FALSE /\ blind' = FALSE
  /\ UNCHANGED <<plan, allowed, rolling, held>>

Pause ==
  /\ IsActive(ex) /\ ~paused
  /\ paused' = TRUE
  /\ ex' = [ex EXCEPT !.motion = "STOP", !.gate = FALSE]
  /\ open' = FALSE
  /\ held' = IF held = "hold" THEN held ELSE "pause"
  /\ UNCHANGED <<plan, late, allowed, rolling, blind>>

\* resume moves every deadline by the time of the pause.
Resume ==
  /\ IsActive(ex) /\ paused
  /\ paused' = FALSE
  /\ UNCHANGED <<plan, ex, late, allowed, open, rolling, held, blind>>

\* What the rover makes of Safety, of the navigation request and the latch.
Hold ==
  /\ allowed' = ~allowed
  /\ UNCHANGED <<plan, ex, late, paused, open, rolling, held, blind>>

\* Time goes on for a route that Safety holds, not for one that is paused.
RunOut(timer) ==
  /\ timer \notin late /\ Runs(timer, ex)
  /\ ~paused
  /\ late' = late \cup {timer}
  /\ UNCHANGED <<plan, ex, paused, allowed, open, rolling, held, blind>>

Next ==
  \/ Update \/ UpdateHeld \/ UpdateFails
  \/ Start \/ Stop \/ Pause \/ Resume \/ Hold
  \/ \E timer \in Timers : RunOut(timer)

Spec == Init /\ [][Next]_vars

\* The loop updates the route, and the clock goes on.
FairSpec ==
  /\ Spec
  /\ WF_vars(Update \/ UpdateHeld \/ UpdateFails)
  /\ \A timer \in Timers : WF_vars(RunOut(timer))

-----------------------------------------------------------------------------
(* Properties                                                              *)

\* Every variable has its type: above all, no counter passes the limit at which
\* the route is given up (RouteExecutor.cpp:892 and 968).
TypeOK ==
  /\ plan \in Plans
  /\ ex \in [state : States, seg : 1..Len(plan), stopNext : StopNexts,
             stableNext : StableNexts, stable : BOOLEAN, gate : BOOLEAN,
             wrong : 0..WrongLimit - 1, direction : Turns,
             corrections : 0..MaxCorrections, correcting : BOOLEAN,
             recovering : BOOLEAN, recoverySeg : 0..Len(plan),
             attempt : 0..MaxAttempts, reached : BOOLEAN,
             motion : Motions, changed : {FALSE}, restarted : {{}}]
  /\ late \in SUBSET Timers
  /\ paused \in BOOLEAN /\ allowed \in BOOLEAN /\ open \in BOOLEAN
  /\ rolling \in Motions
  /\ held \in {"no", "pause", "hold"}
  /\ blind \in BOOLEAN

\* The rover never goes from driving to turning, from one side to the other, or
\* backwards, unless its wheels were seen at rest in between, whatever the
\* recoveries and corrections on the way (RouteExecutor.cpp:1504).
ModeChangesAtRest ==
  [][ex'.motion # "STOP"
       => ex'.gate \/ rolling \in {"STOP", ex'.motion}]_vars

\* A route that wants to move may: whenever the executor goes from a stop to a
\* motion it changes its state in the same update, which is what the rover waits
\* for to open the motor again (rover.cpp:2816).  Holds and pauses aside, and
\* the way back in a recovery, which needs a tool that is not configured.
MotionReopens ==
  (ex.motion \notin {"STOP", "REVERSE"} /\ held = "no") => open

\* The segment of a corner is left at rest only, and segments are taken one by
\* one (RouteExecutor.cpp:1411).
CornerStops ==
  [][(IsActive(ex) /\ IsActive(ex') /\ ex'.seg # ex.seg)
       => /\ ex'.seg = ex.seg + 1
          /\ plan[ex.seg] = "CORNER" => ex'.gate \/ rolling = "STOP"]_vars

Free == allowed /\ ~paused

\* A route does not recover for ever: a segment gives a bounded number of
\* attempts, over all its recoveries (RouteExecutor.cpp:968).
RecoveryEnds == []<>(ex.state = "RECOVERY_PLAN") => []<>~IsActive(ex)

\* A final stop is concluded, by the arrival or its own timeout, wherever the rover
\* is seen to drift meanwhile: a session's timeout leaves it alone, so nothing else
\* would end it (RouteExecutor.cpp:1329 to 1343 and 432 to 438).
FinalStopConcludes == FinalPending(ex) ~> (~FinalPending(ex) \/ ~Free)

Turning == Runs("turn", ex) /\ ex.state # "HEADING_STABLE"

\* A turn ends, with all its corrections (RouteExecutor.cpp:892).
TurnEnds == Turning ~> (~Turning \/ ~Free)

\* What README.md:170 says, NAV_RESUME continues: what the route asks for after a
\* pause reaches the wheels.
ResumeContinues == (ex.motion # "STOP" /\ held = "pause") => open

\* What the test at test_route_executor.cpp:443 says: a turn whose sweep is
\* blocked is never commanded.
TurnsAreChecked == ~blind

=============================================================================
