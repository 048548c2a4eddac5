------------------------- MODULE RouteExecutorProofs -------------------------
(***************************************************************************)
(* Proofs about module RouteExecutor, for all routes and all limits: its   *)
(* counters end, its wheels rest between two kinds of motion, a corner is  *)
(* left at rest, and a motion is commanded by a change of state.           *)
(***************************************************************************)
EXTENDS RouteExecutor, TLAPS

-----------------------------------------------------------------------------
(* The invariant                                                           *)

\* The executor's record, in the middle of an update.
Recs ==
  [state : States, seg : 1..Len(plan), stopNext : StopNexts,
   stableNext : StableNexts, stable : BOOLEAN, gate : BOOLEAN,
   wrong : 0..WrongLimit - 1, direction : Turns,
   corrections : 0..MaxCorrections, correcting : BOOLEAN,
   recovering : BOOLEAN, recoverySeg : 0..Len(plan),
   attempt : 0..MaxAttempts, reached : BOOLEAN,
   motion : Motions, changed : BOOLEAN, restarted : SUBSET Timers]

\* A stop has a reason, which is not a segment or an attempt too many.
StopReason(x, next) ==
  /\ next \in StopNexts \ {"NONE"}
  /\ next \in {"TURN_NEXT", "CORNER_MISSED_INTERCEPT"} => plan[x.seg] = "CORNER"
  /\ next \in {"RECOVERY_REVERSE", "RECOVERY_TURN", "RECOVERY_EVALUATE"}
       => x.attempt < MaxAttempts

\* So has a turn, and it is not a correction too many.
TurnReason(x, next) ==
  /\ next \in StableNexts \ {"NONE"}
  /\ next = "NEXT_SEGMENT_INTERCEPT" => plan[x.seg] = "CORNER"
  /\ next = "RECOVERY_APPROACH" => x.attempt < MaxAttempts

RecoveryStates ==
  {"RECOVERY_PLAN", "RECOVERY_REVERSE", "RECOVERY_APPROACH", "RECOVERY_EVALUATE"}

ReasonShape(x) ==
  /\ x.state \in StopStates => StopReason(x, x.stopNext)
  /\ Runs("turn", x) => /\ TurnReason(x, x.stableNext)
                        /\ x.correcting => x.corrections < MaxCorrections
  /\ x.state \in RecoveryStates => x.attempt < MaxAttempts

\* A motion is one of the state it is commanded in.
MotionShape(x) ==
  /\ x.motion = "DRIVE" => x.state \in LineStates
  /\ x.motion = "REVERSE" => x.state = "RECOVERY_REVERSE"
  /\ x.motion \in Turns => x.state \in TurnStates /\ x.direction = x.motion

RestStates ==
  {"VALIDATE_ROUTE", "ACQUIRE_SEGMENT", "TURN_EVALUATE", "HEADING_STABLE",
   "RECOVERY_EVALUATE"}

\* How the wheels may have moved since their last rest, in each state.
RollShape(x, r) ==
  /\ x.state \in LineStates => r \in {"STOP", "DRIVE"}
  /\ x.state = "RECOVERY_REVERSE" => r \in {"STOP", "REVERSE"}
  /\ x.state \in TurnStates => r \in {"STOP", x.direction}
  /\ x.state \in RestStates => r = "STOP"

\* The motor has been opened for a state that moves.
Opens == (ex.state \in LineStates \cup TurnStates /\ held = "no") => open

ExecInv ==
  /\ TypeOK
  /\ ReasonShape(ex) /\ MotionShape(ex) /\ RollShape(ex, rolling)
  /\ Opens

\* The same of a record in the middle of an update.
Since(x) == IF x.gate THEN "STOP" ELSE rolling

SegmentKept(x) ==
  \/ x.seg = ex.seg
  \/ x.seg = ex.seg + 1 /\ (plan[ex.seg] = "CORNER" => Since(x) = "STOP")

Base(x) ==
  /\ x \in Recs
  /\ x.changed \/ x.state = ex.state
  /\ SegmentKept(x)

Fine(x) ==
  /\ Base(x)
  /\ ReasonShape(x) /\ MotionShape(x) /\ RollShape(x, Since(x))

\* A turn is commanded at once, ...
Switched(x) == Fine(x) /\ (x.state \in TurnStates => x.motion # "STOP")

\* ... and a line at the end of the update.
Done(x) == Switched(x) /\ (x.state \in LineStates => x.motion # "STOP")

Context == plan \in Plans /\ rolling \in Motions

USE ExecutorAssumption

-----------------------------------------------------------------------------
(* Members                                                                 *)

\* The last point is the only one that ends the route.
LEMMA PlanFacts ==
  ASSUME Context
  PROVE  /\ Len(plan) \in Nat \ {0}
         /\ \A i \in 1..Len(plan) :
              /\ plan[i] \in FinalTypes \cup {"PASS_THROUGH", "CORNER"}
              /\ plan[i] \notin FinalTypes => i + 1 \in 1..Len(plan)
<1>1. /\ plan \in Seq(FinalTypes \cup {"PASS_THROUGH", "CORNER"})
      /\ plan # <<>>
      /\ \A i \in 1..Len(plan) : (plan[i] \in FinalTypes) = (i = Len(plan))
  BY DEF Context, ValidPlan
<1>2. Len(plan) \in Nat \ {0}
  BY <1>1
<1>3. ASSUME NEW i \in 1..Len(plan)
      PROVE  /\ plan[i] \in FinalTypes \cup {"PASS_THROUGH", "CORNER"}
             /\ plan[i] \notin FinalTypes => i + 1 \in 1..Len(plan)
  <2>1. plan[i] \in FinalTypes \cup {"PASS_THROUGH", "CORNER"}
    BY <1>1
  <2>2. plan[i] \notin FinalTypes => i # Len(plan)
    BY <1>1
  <2> QED
    BY <1>2, <2>1, <2>2
<1> QED
  BY <1>2, <1>3

\* What the members leave as it is.
Same(y, x) ==
  /\ y.seg = x.seg /\ y.stopNext = x.stopNext /\ y.stableNext = x.stableNext
  /\ y.stable = x.stable /\ y.gate = x.gate /\ y.wrong = x.wrong
  /\ y.direction = x.direction /\ y.corrections = x.corrections
  /\ y.correcting = x.correcting /\ y.recovering = x.recovering
  /\ y.recoverySeg = x.recoverySeg /\ y.attempt = x.attempt
  /\ y.reached = x.reached /\ y.motion = x.motion

LEMMA RestartIs ==
  ASSUME NEW x \in Recs, NEW T \in SUBSET Timers
  PROVE  /\ Restart(x, T) \in Recs /\ Same(Restart(x, T), x)
         /\ Restart(x, T).state = x.state /\ Restart(x, T).changed = x.changed
<1>1. Restart(x, T) = [x EXCEPT !.restarted = x.restarted \cup T]
  BY DEF Restart
<1>2. x.restarted \cup T \in SUBSET Timers
  BY DEF Recs
<1> QED
  BY <1>1, <1>2 DEF Recs, Same

LEMMA SetStateIs ==
  ASSUME NEW x \in Recs, NEW state \in States
  PROVE  /\ SetState(x, state) \in Recs /\ Same(SetState(x, state), x)
         /\ SetState(x, state).state = state
         /\ SetState(x, state).changed \/ (state = x.state /\ SetState(x, state) = x)
<1>1. CASE x.state = state
  BY <1>1 DEF SetState, Same
<1>2. CASE x.state # state
  <2> DEFINE y == Restart(x, {"intercept"})
  <2>1. SetState(x, state) = [y EXCEPT !.state = state, !.changed = TRUE]
    BY <1>2 DEF SetState
  <2>2. y \in Recs /\ Same(y, x)
    BY RestartIs DEF Timers
  <2> HIDE DEF y
  <2> QED
    BY <2>1, <2>2, ZenonT(40) DEF Recs, Same
<1> QED
  BY <1>1, <1>2

\* A state that is neither a stop nor one that moves asks for nothing more.
LEMMA FailDone ==
  ASSUME NEW x, Base(x), x.motion = "STOP"
  PROVE  Done(Fail(x)) /\ ~IsActive(Fail(x)) /\ Fail(x).state = "FAULT"
<1> DEFINE y == SetState(x, "FAULT")
           z == Fail(x)
<1>1. /\ y \in Recs /\ Same(y, x) /\ y.state = "FAULT"
      /\ y.changed \/ ("FAULT" = x.state /\ y = x)
  BY SetStateIs DEF Base, States
<1>2. z = [y EXCEPT !.recovering = FALSE]
  BY DEF Fail
<1> HIDE DEF y, z
<1>3. /\ z \in Recs /\ z.state = "FAULT" /\ z.motion = "STOP"
      /\ z.seg = x.seg /\ z.gate = x.gate /\ z.changed = y.changed
  BY <1>1, <1>2 DEF Recs, Same
<1>4. Base(z)
  BY <1>1, <1>3 DEF Base, SegmentKept, Since
<1>5. ReasonShape(z) /\ MotionShape(z) /\ RollShape(z, Since(z))
  BY <1>3 DEF ReasonShape, MotionShape, RollShape, Runs, StopStates, TurnStates,
     LineStates, ProgressStates, RecoveryStates, RestStates, Turns
<1> QED
  BY <1>3, <1>4, <1>5 DEF Done, Switched, Fine, TurnStates, LineStates,
     ProgressStates, IsActive, z

\* Every stop has its reason, and stops are not moved through.
LEMMA BrakeDone ==
  ASSUME NEW x, Base(x), x.motion = "STOP",
         NEW visible \in {"BRAKE", "FINAL_STOP", "TURN_BRAKE"},
         NEW next, StopReason(x, next),
         next = "TURN_EVALUATE" =>
           /\ TurnReason(x, x.stableNext)
           /\ x.correcting => x.corrections < MaxCorrections
  PROVE  Done(EnterBrake(x, next, visible))
<1> DEFINE r == Restart(x, {"stop"})
           y == SetState(r, visible)
           n == IF next = "STEERING_RESPONSE_FAULT" THEN y.wrong ELSE 0
           z == EnterBrake(x, next, visible)
<1>1. r \in Recs /\ Same(r, x) /\ r.state = x.state /\ r.changed = x.changed
  BY RestartIs DEF Base, Timers
<1>2. visible \in States
  BY DEF States, StopStates
<1> HIDE DEF r
<1>3. /\ y \in Recs /\ Same(y, r) /\ y.state = visible
      /\ y.changed \/ (visible = r.state /\ y = r)
  BY <1>1, <1>2, SetStateIs
<1>4. z = [y EXCEPT !.stopNext = next, !.stable = FALSE, !.wrong = n]
  BY DEF EnterBrake, r
<1>5. n \in 0..WrongLimit - 1
  BY <1>3 DEF Recs
<1> HIDE DEF y, z, n
<1>6. /\ z \in Recs /\ z.state = visible /\ z.motion = "STOP"
      /\ z.seg = x.seg /\ z.gate = x.gate /\ z.changed = y.changed
      /\ z.stopNext = next /\ z.stableNext = x.stableNext
      /\ z.attempt = x.attempt /\ z.correcting = x.correcting
      /\ z.corrections = x.corrections
  BY <1>1, <1>3, <1>4, <1>5 DEF Recs, Same, StopReason
<1>7. Base(z)
  BY <1>1, <1>3, <1>6 DEF Base, SegmentKept, Since
<1>8. ReasonShape(z)
  <2>1. StopReason(z, next)
    BY <1>6 DEF StopReason
  <2>2. next = "TURN_EVALUATE" => TurnReason(z, z.stableNext)
    BY <1>6 DEF TurnReason
  <2>3. Runs("turn", z) => next = "TURN_EVALUATE"
    BY <1>6 DEF Runs, TurnStates, StopStates
  <2>4. z.state \notin RecoveryStates
    BY <1>6 DEF RecoveryStates
  <2> QED
    BY <1>6, <2>1, <2>2, <2>3, <2>4 DEF ReasonShape
<1>9. MotionShape(z) /\ RollShape(z, Since(z))
  BY <1>6 DEF MotionShape, RollShape, TurnStates, LineStates, ProgressStates,
     RestStates, Turns
<1> QED
  BY <1>6, <1>7, <1>8, <1>9 DEF Done, Switched, Fine, TurnStates, LineStates,
     ProgressStates, z

\* The arrival ends the route.
LEMMA CompleteDone ==
  ASSUME NEW x, Base(x), x.motion = "STOP"
  PROVE  Done(CompleteArrived(x))
<1> DEFINE y == SetState(x, "COMPLETE")
           z == CompleteArrived(x)
<1>1. /\ y \in Recs /\ Same(y, x) /\ y.state = "COMPLETE"
      /\ y.changed \/ ("COMPLETE" = x.state /\ y = x)
  BY SetStateIs DEF Base, States
<1>2. z = [y EXCEPT !.recovering = FALSE]
  BY DEF CompleteArrived
<1> HIDE DEF y, z
<1>3. /\ z \in Recs /\ z.state = "COMPLETE" /\ z.motion = "STOP"
      /\ z.seg = x.seg /\ z.gate = x.gate /\ z.changed = y.changed
  BY <1>1, <1>2 DEF Recs, Same
<1>4. Base(z)
  BY <1>1, <1>3 DEF Base, SegmentKept, Since
<1>5. ReasonShape(z) /\ MotionShape(z) /\ RollShape(z, Since(z))
  BY <1>3 DEF ReasonShape, MotionShape, RollShape, Runs, StopStates, TurnStates,
     LineStates, ProgressStates, RecoveryStates, RestStates, Turns
<1> QED
  BY <1>3, <1>4, <1>5 DEF Done, Switched, Fine, TurnStates, LineStates,
     ProgressStates, z

\* A state that moves on a line is entered with the wheels at rest or driving.
LEMMA ProgressSwitched ==
  ASSUME NEW x, Base(x), x.motion = "STOP", Since(x) \in {"STOP", "DRIVE"},
         NEW state \in ProgressStates
  PROVE  /\ Switched(SetState(x, state)) /\ Same(SetState(x, state), x)
         /\ Base(SetState(x, state)) /\ SetState(x, state).state = state
         /\ Switched(AcquireSegment(x, state))
<1> SUFFICES ASSUME NEW z \in Recs, z.state = state, z.motion = "STOP",
                    z.seg = x.seg, z.gate = x.gate,
                    z.changed \/ (z.state = x.state /\ z.changed = x.changed)
             PROVE  Switched(z) /\ Base(z)
  <2>1. x \in Recs /\ state \in States
    BY DEF Base, States, LineStates
  <2>2. /\ SetState(x, state) \in Recs /\ Same(SetState(x, state), x)
        /\ SetState(x, state).state = state
        /\ SetState(x, state).changed \/ (state = x.state /\ SetState(x, state) = x)
    BY <2>1, SetStateIs
  <2> DEFINE r == Restart(x, {"progress"})
             y == SetState(r, state)
             z == AcquireSegment(x, state)
  <2>3. r \in Recs /\ Same(r, x) /\ r.state = x.state /\ r.changed = x.changed
    BY <2>1, RestartIs DEF Timers
  <2> HIDE DEF r
  <2>4. /\ y \in Recs /\ Same(y, r) /\ y.state = state
        /\ y.changed \/ (state = r.state /\ y = r)
    BY <2>1, <2>3, SetStateIs
  <2>5. z = [y EXCEPT !.recovering = FALSE]
    BY DEF AcquireSegment, r
  <2> HIDE DEF y, z
  <2>6. /\ z \in Recs /\ z.state = state /\ z.motion = "STOP"
        /\ z.seg = x.seg /\ z.gate = x.gate /\ z.changed = y.changed
    BY <2>3, <2>4, <2>5 DEF Recs, Same
  <2>7. Switched(z)
    BY <2>3, <2>4, <2>6
  <2> QED
    BY <2>2, <2>7 DEF Same, z
<1>1. Base(z) /\ Since(z) = Since(x)
  BY DEF Base, SegmentKept, Since
<1>2. ReasonShape(z)
  BY DEF ReasonShape, Runs, StopStates, TurnStates, ProgressStates, RecoveryStates
<1>3. MotionShape(z) /\ RollShape(z, Since(z))
  BY <1>1 DEF MotionShape, RollShape, TurnStates, LineStates, ProgressStates,
     RestStates, Turns
<1> QED
  BY <1>1, <1>2, <1>3 DEF Switched, Fine, TurnStates, ProgressStates

\* A turn is begun at rest, and commanded at once.
LEMMA StartTurnDone ==
  ASSUME NEW x, Base(x), Since(x) = "STOP", NEW next, TurnReason(x, next),
         NEW z \in StartTurn(x, next)
  PROVE  Done(z)
<1> DEFINE r == Restart(x, {"turn", "phase"})
           y == SetState(r, "TURN_BREAKAWAY")
<1>1. r \in Recs /\ Same(r, x) /\ r.state = x.state /\ r.changed = x.changed
  BY RestartIs DEF Base, Timers
<1>2. "TURN_BREAKAWAY" \in States
  BY DEF States, TurnStates
<1>3. PICK side \in Turns :
        z = [SetState(Restart(x, {"turn", "phase"}), "TURN_BREAKAWAY") EXCEPT
               !.direction = side,
               !.corrections = 0, !.correcting = FALSE,
               !.stable = FALSE,
               !.stableNext = next,
               !.motion = side]
  BY DEF StartTurn
<1> HIDE DEF r
<1>4. /\ y \in Recs /\ Same(y, r) /\ y.state = "TURN_BREAKAWAY"
      /\ y.changed \/ ("TURN_BREAKAWAY" = r.state /\ y = r)
  BY <1>1, <1>2, SetStateIs
<1>5. z = [y EXCEPT !.direction = side, !.corrections = 0, !.correcting = FALSE,
                    !.stable = FALSE, !.stableNext = next, !.motion = side]
  BY <1>3 DEF r
<1> HIDE DEF y
<1>6. /\ z \in Recs /\ z.state = "TURN_BREAKAWAY" /\ z.motion = side
      /\ z.direction = side /\ z.correcting = FALSE
      /\ z.seg = x.seg /\ z.gate = x.gate /\ z.changed = y.changed
      /\ z.stableNext = next /\ z.attempt = x.attempt
  <2> DEFINE q == [y EXCEPT !.direction = side, !.corrections = 0, !.correcting = FALSE]
  <2>1. /\ q \in Recs /\ q.state = "TURN_BREAKAWAY" /\ q.direction = side
        /\ q.correcting = FALSE /\ q.seg = x.seg /\ q.gate = x.gate
        /\ q.changed = y.changed /\ q.attempt = x.attempt
    <3>1. 0 \in 0..MaxCorrections /\ FALSE \in BOOLEAN
      OBVIOUS
    <3>2. q \in Recs
      BY <1>4, <3>1 DEF Recs
    <3>3. /\ q.state = y.state /\ q.direction = side
          /\ q.correcting = FALSE /\ q.seg = y.seg /\ q.gate = y.gate
          /\ q.changed = y.changed /\ q.attempt = y.attempt
      BY <1>4 DEF Recs
    <3> QED
      BY <1>1, <1>4, <3>2, <3>3 DEF Same
  <2>2. z = [q EXCEPT !.stable = FALSE, !.stableNext = next, !.motion = side]
    BY <1>5
  <2>3. next \in StableNexts /\ side \in Motions
    BY DEF TurnReason, Motions
  <2> HIDE DEF q
  <2> QED
    BY <2>1, <2>2, <2>3 DEF Recs
<1>7. Base(z) /\ Since(z) = "STOP"
  BY <1>1, <1>4, <1>6 DEF Base, SegmentKept, Since
<1>8. ReasonShape(z)
  BY <1>6 DEF ReasonShape, TurnReason, StopStates, RecoveryStates
<1>9. MotionShape(z) /\ RollShape(z, Since(z))
  BY <1>6, <1>7 DEF MotionShape, RollShape, TurnStates, LineStates,
     ProgressStates, RestStates, Turns
<1> QED
  BY <1>6, <1>7, <1>8, <1>9 DEF Done, Switched, Fine, TurnStates, LineStates,
     ProgressStates, Turns

\* A turn keeps its side while it is commanded.
LEMMA RotateDone ==
  ASSUME NEW x, Fine(x), x.state \in TurnStates
  PROVE  Done(Rotate(x))
<1> DEFINE z == Rotate(x)
<1>1. z = [x EXCEPT !.motion = x.direction] /\ x \in Recs
  BY DEF Rotate, Fine, Base
<1>2. x.direction \in Turns /\ x.direction \in Motions /\ x.direction # "STOP"
  BY <1>1 DEF Recs, Motions, Turns
<1> HIDE DEF z
<1>3. z \in Recs
  BY <1>1, <1>2 DEF Recs
<1>4. /\ z.state = x.state /\ z.motion = x.direction /\ z.direction = x.direction
      /\ z.seg = x.seg /\ z.gate = x.gate /\ z.changed = x.changed
      /\ z.stopNext = x.stopNext /\ z.stableNext = x.stableNext
      /\ z.attempt = x.attempt /\ z.correcting = x.correcting
      /\ z.corrections = x.corrections
  BY <1>1 DEF Recs
<1>5. Base(z) /\ Since(z) = Since(x)
  BY <1>3, <1>4 DEF Fine, Base, SegmentKept, Since
<1>6. ReasonShape(z)
  BY <1>4 DEF Fine, ReasonShape, StopReason, TurnReason, Runs
<1>7. MotionShape(z)
  BY <1>2, <1>4 DEF MotionShape, Turns
<1>8. RollShape(z, Since(z))
  BY <1>4, <1>5 DEF Fine, RollShape
<1> QED
  BY <1>2, <1>4, <1>5, <1>6, <1>7, <1>8 DEF Done, Switched, Fine, z

\* A turn is braked for the reason it was begun.
LEMMA TurnBrakeDone ==
  ASSUME NEW x, Fine(x), x.motion = "STOP", Runs("turn", x)
  PROVE  Done(BeginTurnBrake(x))
<1>1. StopReason(x, "TURN_EVALUATE")
  BY DEF StopReason, StopNexts
<1>2. /\ TurnReason(x, x.stableNext)
      /\ x.correcting => x.corrections < MaxCorrections
  BY DEF Fine, ReasonShape
<1>3. Done(EnterBrake(x, "TURN_EVALUATE", "TURN_BRAKE"))
  BY <1>1, <1>2, BrakeDone DEF Fine
<1> QED
  BY <1>3 DEF BeginTurnBrake

\* A correction is a turn that is begun at rest, if one is left.
LEMMA CorrectionDone ==
  ASSUME NEW x, Base(x), x.motion = "STOP", Since(x) = "STOP",
         TurnReason(x, x.stableNext), x.corrections < MaxCorrections,
         NEW z \in BeginTurnCorrection(x)
  PROVE  Done(z)
<1>1. CASE "turn" \in late
  BY <1>1, FailDone DEF BeginTurnCorrection
<1>2. CASE "turn" \notin late
  <2> DEFINE r == Restart(x, {"phase"})
             y == SetState(r, "TURN_CORRECTION")
  <2>1. PICK side \in Turns : z = Rotate([y EXCEPT !.direction = side, !.correcting = TRUE])
    BY <1>2 DEF BeginTurnCorrection
  <2> DEFINE q == [y EXCEPT !.direction = side, !.correcting = TRUE]
  <2>2. r \in Recs /\ Same(r, x) /\ r.state = x.state /\ r.changed = x.changed
    BY RestartIs DEF Base, Timers
  <2>3. "TURN_CORRECTION" \in States
    BY DEF States, TurnStates
  <2> HIDE DEF r
  <2>4. /\ y \in Recs /\ Same(y, r) /\ y.state = "TURN_CORRECTION"
        /\ y.changed \/ ("TURN_CORRECTION" = r.state /\ y = r)
    BY <2>2, <2>3, SetStateIs
  <2> HIDE DEF y
  <2>5. q \in Recs
    BY <2>4 DEF Recs
  <2>6. /\ q.state = "TURN_CORRECTION" /\ q.motion = y.motion
        /\ q.direction = side /\ q.seg = y.seg /\ q.gate = y.gate
        /\ q.changed = y.changed /\ q.stableNext = y.stableNext
        /\ q.attempt = y.attempt /\ q.corrections = y.corrections
    BY <2>4 DEF Recs
  <2> HIDE DEF q
  <2>7. /\ q.motion = "STOP" /\ q.seg = x.seg /\ q.gate = x.gate
        /\ q.stableNext = x.stableNext /\ q.attempt = x.attempt
        /\ q.corrections = x.corrections
    BY <2>2, <2>4, <2>6 DEF Same
  <2>8. Base(q) /\ Since(q) = "STOP"
    BY <2>2, <2>4, <2>5, <2>6, <2>7 DEF Base, SegmentKept, Since
  <2>9. ReasonShape(q)
    BY <2>6, <2>7 DEF ReasonShape, TurnReason, StopStates, RecoveryStates
  <2>10. MotionShape(q) /\ RollShape(q, Since(q))
    BY <2>6, <2>7, <2>8 DEF MotionShape, RollShape, LineStates, ProgressStates,
       RestStates, Turns
  <2>11. Done(Rotate(q))
    BY <2>6, <2>8, <2>9, <2>10, RotateDone DEF Fine, TurnStates
  <2> QED
    BY <2>1, <2>11 DEF q
<1> QED
  BY <1>1, <1>2

\* A recovery is begun with an attempt left.
LEMMA BeginRecoveryDone ==
  ASSUME Context, NEW x, Base(x), x.motion = "STOP"
  PROVE  /\ Done(BeginRecovery(x)) /\ BeginRecovery(x).motion = "STOP"
         /\ BeginRecovery(x).state \in {"RECOVERY_PLAN", "FAULT"}
         /\ BeginRecovery(x).seg = x.seg
<1>1. CASE x.recoverySeg = x.seg /\ x.attempt >= MaxAttempts
  <2>1. Fail(x).seg = x.seg /\ Fail(x).motion = "STOP"
    <3> DEFINE y == SetState(x, "FAULT")
    <3>1. y \in Recs /\ Same(y, x)
      BY SetStateIs DEF Base, States
    <3> HIDE DEF y
    <3>2. Fail(x) = [y EXCEPT !.recovering = FALSE]
      BY DEF Fail, y
    <3> QED
      BY <3>1, <3>2 DEF Recs, Same
  <2> QED
    BY <1>1, <2>1, FailDone DEF BeginRecovery
<1>2. CASE ~(x.recoverySeg = x.seg /\ x.attempt >= MaxAttempts)
  <2> DEFINE y == SetState(x, "RECOVERY_PLAN")
             a == IF x.recoverySeg = x.seg THEN y.attempt ELSE 0
             z == BeginRecovery(x)
  <2>1. /\ y \in Recs /\ Same(y, x) /\ y.state = "RECOVERY_PLAN"
        /\ y.changed \/ ("RECOVERY_PLAN" = x.state /\ y = x)
    BY SetStateIs DEF Base, States
  <2>2. z = [y EXCEPT !.recoverySeg = x.seg, !.attempt = a,
                      !.recovering = TRUE, !.reached = FALSE]
    BY <1>2 DEF BeginRecovery
  <2> HIDE DEF y, z
  <2>3. a \in 0..MaxAttempts /\ a < MaxAttempts
    <3>1. x.attempt \in Nat /\ y.attempt = x.attempt
      BY <2>1 DEF Base, Recs, Same
    <3> QED
      BY <1>2, <3>1
  <2>4. x.seg \in 0..Len(plan)
    BY PlanFacts DEF Base, Recs
  <2> HIDE DEF a
  <2>5. z \in Recs
    BY <2>1, <2>2, <2>3, <2>4 DEF Recs
  <2>6. /\ z.state = "RECOVERY_PLAN" /\ z.motion = y.motion /\ z.attempt = a
        /\ z.seg = y.seg /\ z.gate = y.gate /\ z.changed = y.changed
    BY <2>1, <2>2 DEF Recs
  <2>7. z.motion = "STOP" /\ z.seg = x.seg /\ z.gate = x.gate
    BY <2>1, <2>6 DEF Same
  <2>8. Base(z)
    BY <2>1, <2>5, <2>6, <2>7 DEF Base, SegmentKept, Since
  <2>9. ReasonShape(z)
    BY <2>3, <2>6 DEF ReasonShape, StopStates, Runs, TurnStates
  <2>10. MotionShape(z) /\ RollShape(z, Since(z))
    BY <2>6, <2>7 DEF MotionShape, RollShape, TurnStates, LineStates,
       ProgressStates, RestStates, Turns
  <2> QED
    BY <2>6, <2>7, <2>8, <2>9, <2>10 DEF Done, Switched, Fine, TurnStates,
       LineStates, ProgressStates, z
<1> QED
  BY <1>1, <1>2

\* A line is driven, or braked with a reason.
LEMMA LineMotionDone ==
  ASSUME NEW x, Fine(x), x.motion = "STOP", x.state \in LineStates,
         NEW z \in LineMotion(x)
  PROVE  Done(z) /\ z.seg = x.seg
<1>1. ASSUME NEW next, StopReason(x, next), next # "TURN_EVALUATE"
      PROVE  Done(Brake(x, next)) /\ Brake(x, next).seg = x.seg
  <2>1. Done(Brake(x, next))
    BY <1>1, BrakeDone DEF Brake, Fine
  <2>2. Brake(x, next).seg = x.seg
    <3> DEFINE r == Restart(x, {"stop"})
               y == SetState(r, "BRAKE")
    <3>1. r \in Recs /\ Same(r, x)
      BY RestartIs DEF Fine, Base, Timers
    <3>2. "BRAKE" \in States
      BY DEF States, StopStates
    <3> HIDE DEF r
    <3>3. y \in Recs /\ Same(y, r)
      BY <3>1, <3>2, SetStateIs
    <3> HIDE DEF y
    <3>4. Brake(x, next).seg = y.seg
      BY <3>3 DEF Brake, EnterBrake, y, r, Recs
    <3> QED
      BY <3>1, <3>3, <3>4 DEF Same
  <2> QED
    BY <2>1, <2>2
<1>2. ASSUME NEW n \in 0..WrongLimit - 1
      PROVE  /\ Done([x EXCEPT !.motion = "DRIVE", !.wrong = n])
             /\ [x EXCEPT !.motion = "DRIVE", !.wrong = n].seg = x.seg
  <2> DEFINE y == [x EXCEPT !.motion = "DRIVE", !.wrong = n]
  <2>1. x \in Recs /\ "DRIVE" \in Motions
    BY DEF Fine, Base, Motions
  <2>2. y \in Recs
    BY <1>2, <2>1 DEF Recs
  <2>3. /\ y.state = x.state /\ y.motion = "DRIVE" /\ y.direction = x.direction
        /\ y.seg = x.seg /\ y.gate = x.gate /\ y.changed = x.changed
        /\ y.stopNext = x.stopNext /\ y.stableNext = x.stableNext
        /\ y.attempt = x.attempt /\ y.correcting = x.correcting
        /\ y.corrections = x.corrections
    BY <2>1 DEF Recs
  <2> HIDE DEF y
  <2>4. Base(y) /\ Since(y) = Since(x)
    BY <2>2, <2>3 DEF Fine, Base, SegmentKept, Since
  <2>5. ReasonShape(y)
    BY <2>3 DEF Fine, ReasonShape, StopReason, TurnReason, Runs
  <2>6. MotionShape(y) /\ RollShape(y, Since(y))
    BY <2>3, <2>4 DEF Fine, MotionShape, RollShape, Turns
  <2> QED
    BY <2>3, <2>4, <2>5, <2>6 DEF Done, Switched, Fine, y
<1>3. CASE z \in Steer(x)
  <2>1. x.wrong \in 0..WrongLimit - 1
    BY DEF Fine, Base, Recs
  <2>2. StopReason(x, "STEERING_RESPONSE_FAULT")
    BY DEF StopReason, StopNexts
  <2>3. CASE z = Brake(x, "STEERING_RESPONSE_FAULT")
    BY <1>1, <2>2, <2>3
  <2>4. CASE \E n \in {n \in {0, x.wrong, x.wrong + 1} : n < WrongLimit} :
               z = [x EXCEPT !.motion = "DRIVE", !.wrong = n]
    <3>1. PICK n \in {n \in {0, x.wrong, x.wrong + 1} : n < WrongLimit} :
               z = [x EXCEPT !.motion = "DRIVE", !.wrong = n]
      BY <2>4
    <3>2. n \in 0..WrongLimit - 1
      BY <2>1, <3>1
    <3> QED
      BY <1>2, <3>1, <3>2
  <2> QED
    BY <1>3, <2>3, <2>4 DEF Steer
<1>4. CASE z = Brake(x, IF x.state = "RECOVERY_APPROACH" THEN "RECOVERY_EVALUATE"
                        ELSE "START_TURN")
  <2>1. /\ x.state = "RECOVERY_APPROACH" => StopReason(x, "RECOVERY_EVALUATE")
        /\ StopReason(x, "START_TURN")
    BY DEF Fine, ReasonShape, RecoveryStates, StopReason, StopNexts
  <2> QED
    BY <1>1, <1>4, <2>1
<1> QED
  BY <1>3, <1>4 DEF LineMotion

-----------------------------------------------------------------------------
(* The update of one state                                                 *)

\* The record that a state is given.
Input(x) == Fine(x) /\ x.motion = "STOP" /\ x.seg = ex.seg

LEMMA BrakesDone ==
  ASSUME NEW x, Base(x), x.motion = "STOP", NEW next, StopReason(x, next),
         next # "TURN_EVALUATE"
  PROVE  Done(Brake(x, next))
  BY BrakeDone DEF Brake

\* The next segment is one of the route, and a corner is left at rest.
LEMMA NextSegment ==
  ASSUME Context, NEW x, Input(x), plan[x.seg] \notin FinalTypes,
         plan[x.seg] = "CORNER" => Since(x) = "STOP"
  PROVE  /\ Base([x EXCEPT !.seg = @ + 1])
         /\ [x EXCEPT !.seg = @ + 1].motion = "STOP"
         /\ Since([x EXCEPT !.seg = @ + 1]) = Since(x)
<1> DEFINE y == [x EXCEPT !.seg = @ + 1]
<1>1. x \in Recs /\ x.seg \in 1..Len(plan)
  BY DEF Input, Fine, Base, Recs
<1>2. x.seg + 1 \in 1..Len(plan)
  BY <1>1, PlanFacts
<1>3. y = [x EXCEPT !.seg = x.seg + 1]
  OBVIOUS
<1> HIDE DEF y
<1>4. y \in Recs
  BY <1>1, <1>2, <1>3 DEF Recs
<1>5. /\ y.seg = x.seg + 1 /\ y.state = x.state /\ y.changed = x.changed
      /\ y.gate = x.gate /\ y.motion = x.motion
  BY <1>1, <1>3 DEF Recs
<1>6. Since(y) = Since(x)
  BY <1>5 DEF Since
<1>7. Base(y)
  BY <1>4, <1>5, <1>6 DEF Input, Fine, Base, SegmentKept
<1> QED
  BY <1>5, <1>6, <1>7 DEF Input, y

\* The line states.
LEMMA LinesSwitched ==
  ASSUME Context, NEW x, Input(x),
         NEW z \in CASE x.state \in {"FOLLOW_SEGMENT", "APPROACH_TRANSITION"} -> Follow(x)
                     [] x.state = "INTERCEPT_NEXT_LINE" -> Intercept(x)
                     [] x.state = "TERMINAL_APPROACH" -> TerminalApproach(x),
         x.state \in ProgressStates
  PROVE  Switched(z)
<1>1. /\ Base(x) /\ x.motion = "STOP" /\ Fine(x) /\ x.state \in LineStates
      /\ Since(x) \in {"STOP", "DRIVE"} /\ x \in Recs
      /\ plan[x.seg] \in FinalTypes \cup {"PASS_THROUGH", "CORNER"}
  BY PlanFacts DEF Input, Fine, Base, RollShape, LineStates, Recs
<1>2. Switched(BeginRecovery(x))
  BY <1>1, BeginRecoveryDone DEF Done
<1>3. \A y \in LineMotion(x) : Switched(y)
  BY <1>1, LineMotionDone DEF Done
<1>4. \A state \in ProgressStates : Switched(SetState(x, state))
  BY <1>1, ProgressSwitched
<1>5. CASE x.state = "INTERCEPT_NEXT_LINE"
  <2>1. z \in Intercept(x)
    BY <1>5
  <2> QED
    BY <1>2, <1>3, <1>4, <2>1 DEF Intercept, ProgressStates
<1>6. CASE x.state = "TERMINAL_APPROACH"
  <2>1. z \in TerminalApproach(x)
    BY <1>6
  <2> QED
    BY <1>2, <1>3, <2>1 DEF TerminalApproach
<1>7. CASE x.state \in {"FOLLOW_SEGMENT", "APPROACH_TRANSITION"}
  <2>1. z \in Follow(x)
    BY <1>7
  <2>2. CASE plan[x.seg] \in FinalTypes
    BY <1>2, <1>3, <1>4, <2>1, <2>2 DEF Follow, ProgressStates
  <2>3. CASE z \in LineMotion(SetState(x, "APPROACH_TRANSITION"))
    <3> DEFINE y == SetState(x, "APPROACH_TRANSITION")
    <3>1. /\ Switched(y) /\ Same(y, x) /\ y.state = "APPROACH_TRANSITION"
      BY <1>1, ProgressSwitched DEF ProgressStates
    <3> HIDE DEF y
    <3>2. Fine(y) /\ y.motion = "STOP" /\ y.state \in LineStates
      BY <1>1, <3>1 DEF Switched, Same, LineStates, ProgressStates
    <3>3. z \in LineMotion(y)
      BY <2>3 DEF y
    <3> QED
      BY <3>2, <3>3, LineMotionDone DEF Done
  <2>4. CASE plan[x.seg] = "CORNER" /\ z \in Corner(x)
    <3>1. /\ StopReason(x, "TURN_NEXT") /\ StopReason(x, "CORNER_MISSED_INTERCEPT")
          /\ StopReason(x, "CORNER_MISSED_FAULT")
      BY <2>4 DEF StopReason, StopNexts
    <3> QED
      BY <1>1, <2>4, <3>1, BrakesDone DEF Corner, Done
  <2>5. CASE plan[x.seg] = "PASS_THROUGH" /\ z \in PassThrough(x)
    <3> DEFINE y == [x EXCEPT !.seg = @ + 1]
    <3>1. Base(y) /\ y.motion = "STOP" /\ Since(y) = Since(x)
      BY <2>5, NextSegment DEF FinalTypes
    <3>2. z \in {AcquireSegment(y, "FOLLOW_SEGMENT"), Brake(y, "START_INTERCEPT"), Fail(x)}
      BY <2>5 DEF PassThrough
    <3> HIDE DEF y
    <3>3. Switched(AcquireSegment(y, "FOLLOW_SEGMENT"))
      BY <1>1, <3>1, ProgressSwitched DEF ProgressStates
    <3>4. Done(Brake(y, "START_INTERCEPT"))
      <4>1. StopReason(y, "START_INTERCEPT")
        BY DEF StopReason, StopNexts
      <4> QED
        BY <3>1, <4>1, BrakesDone
    <3>5. Done(Fail(x))
      BY <1>1, FailDone
    <3> QED
      BY <3>2, <3>3, <3>4, <3>5 DEF Done
  <2> QED
    BY <1>1, <1>3, <2>1, <2>2, <2>3, <2>4, <2>5 DEF Follow
<1> QED
  BY <1>5, <1>6, <1>7 DEF ProgressStates

\* The recovery states: a stop before each of them that moves.
LEMMA RecoverySwitched ==
  ASSUME Context, NEW x, Input(x),
         NEW z \in CASE x.state = "RECOVERY_PLAN" -> RecoveryPlan(x)
                     [] x.state = "RECOVERY_REVERSE" -> RecoveryReverse(x)
                     [] x.state = "RECOVERY_APPROACH" -> RecoveryApproach(x)
                     [] x.state = "RECOVERY_EVALUATE" -> RecoveryEvaluate(x),
         x.state \in RecoveryStates
  PROVE  Switched(z)
<1>1. /\ Base(x) /\ x.motion = "STOP" /\ Fine(x) /\ x \in Recs
      /\ x.attempt < MaxAttempts /\ x.attempt \in 0..MaxAttempts
  BY DEF Input, Fine, Base, ReasonShape, Recs
<1>2. \A next \in {"RECOVERY_REVERSE", "RECOVERY_TURN", "RECOVERY_EVALUATE"} :
        StopReason(x, next) /\ Switched(Brake(x, next))
  <2>1. \A next \in {"RECOVERY_REVERSE", "RECOVERY_TURN", "RECOVERY_EVALUATE"} :
          StopReason(x, next) /\ next # "TURN_EVALUATE"
    BY <1>1 DEF StopReason, StopNexts
  <2> QED
    BY <1>1, <2>1, BrakesDone DEF Done
<1>3. CASE x.state = "RECOVERY_PLAN"
  <2>1. z \in RecoveryPlan(x)
    BY <1>3
  <2> QED
    BY <1>2, <2>1 DEF RecoveryPlan
<1>4. CASE x.state = "RECOVERY_REVERSE"
  <2>1. z \in RecoveryReverse(x)
    BY <1>4
  <2>2. CASE z = [x EXCEPT !.motion = "REVERSE"]
    <3>1. z \in Recs
      BY <1>1, <2>2 DEF Recs, Motions
    <3>2. /\ z.state = "RECOVERY_REVERSE" /\ z.motion = "REVERSE"
          /\ z.seg = x.seg /\ z.gate = x.gate /\ z.changed = x.changed
          /\ z.attempt = x.attempt
      BY <1>1, <1>4, <2>2 DEF Recs
    <3>3. Base(z) /\ Since(z) = Since(x)
      BY <1>1, <1>4, <3>1, <3>2 DEF Base, SegmentKept, Since
    <3>4. ReasonShape(z)
      BY <1>1, <3>2 DEF ReasonShape, StopStates, Runs, TurnStates
    <3>5. MotionShape(z) /\ RollShape(z, Since(z))
      BY <1>1, <1>4, <3>2, <3>3 DEF Fine, MotionShape, RollShape, TurnStates,
         LineStates, ProgressStates, RestStates, Turns
    <3> QED
      BY <3>2, <3>3, <3>4, <3>5 DEF Switched, Fine, TurnStates
  <2> QED
    BY <1>2, <2>1, <2>2 DEF RecoveryReverse
<1>5. CASE x.state = "RECOVERY_APPROACH"
  <2>1. z \in RecoveryApproach(x)
    BY <1>5
  <2>2. CASE z \in LineMotion(x)
    BY <1>1, <1>5, <2>2, LineMotionDone DEF Done, LineStates
  <2>3. CASE z = Brake([x EXCEPT !.reached = TRUE], "RECOVERY_EVALUATE")
    <3> DEFINE y == [x EXCEPT !.reached = TRUE]
    <3>1. y \in Recs
      BY <1>1 DEF Recs
    <3>2. /\ y.state = x.state /\ y.motion = "STOP" /\ y.seg = x.seg
          /\ y.gate = x.gate /\ y.changed = x.changed /\ y.attempt = x.attempt
      BY <1>1 DEF Recs
    <3> HIDE DEF y
    <3>3. Base(y) /\ StopReason(y, "RECOVERY_EVALUATE")
      BY <1>1, <3>1, <3>2 DEF Base, SegmentKept, Since, StopReason, StopNexts
    <3>4. z = Brake(y, "RECOVERY_EVALUATE")
      BY <2>3 DEF y
    <3> QED
      BY <3>2, <3>3, <3>4, BrakesDone DEF Done
  <2> QED
    BY <1>2, <2>1, <2>2, <2>3 DEF RecoveryApproach
<1>6. CASE x.state = "RECOVERY_EVALUATE"
  <2> DEFINE y == [x EXCEPT !.attempt = @ + 1]
  <2>1. z \in RecoveryEvaluate(x)
    BY <1>6
  <2>2. x.attempt + 1 \in 0..MaxAttempts
    BY <1>1
  <2>3. y = [x EXCEPT !.attempt = x.attempt + 1]
    OBVIOUS
  <2>4. \/ z \in StartTurn(y, "RESUME_INTERCEPT")
        \/ z = Fail(y)
        \/ z = SetState(y, "RECOVERY_PLAN") /\ ~(y.attempt >= MaxAttempts)
    BY <2>1 DEF RecoveryEvaluate
  <2> HIDE DEF y
  <2>5. y \in Recs
    BY <1>1, <2>2, <2>3 DEF Recs
  <2>6. /\ y.state = x.state /\ y.motion = "STOP" /\ y.seg = x.seg
        /\ y.gate = x.gate /\ y.changed = x.changed /\ y.attempt \in Nat
    BY <1>1, <2>2, <2>3 DEF Recs
  <2>7. Base(y) /\ Since(y) = "STOP"
    BY <1>1, <1>6, <2>5, <2>6 DEF Base, SegmentKept, Since, Fine, RollShape, RestStates
  <2>8. CASE z \in StartTurn(y, "RESUME_INTERCEPT")
    <3>1. TurnReason(y, "RESUME_INTERCEPT")
      BY DEF TurnReason, StableNexts
    <3> QED
      BY <2>7, <2>8, <3>1, StartTurnDone DEF Done
  <2>9. CASE z = Fail(y)
    BY <2>6, <2>7, <2>9, FailDone DEF Done
  <2>10. CASE z = SetState(y, "RECOVERY_PLAN") /\ ~(y.attempt >= MaxAttempts)
    <3>1. /\ z \in Recs /\ Same(z, y) /\ z.state = "RECOVERY_PLAN"
          /\ z.changed \/ ("RECOVERY_PLAN" = y.state /\ z = y)
      BY <2>5, <2>10, SetStateIs DEF States
    <3>2. Base(z)
      BY <2>6, <2>7, <3>1 DEF Base, SegmentKept, Since, Same
    <3>3. ReasonShape(z)
      BY <2>6, <2>10, <3>1 DEF ReasonShape, StopStates, Runs, TurnStates, Same
    <3>4. MotionShape(z) /\ RollShape(z, Since(z))
      BY <2>6, <3>1 DEF MotionShape, RollShape, TurnStates, LineStates,
         ProgressStates, RestStates, Turns, Same
    <3> QED
      BY <3>1, <3>2, <3>3, <3>4 DEF Switched, Fine, TurnStates
  <2> QED
    BY <2>4, <2>8, <2>9, <2>10
<1> QED
  BY <1>3, <1>4, <1>5, <1>6 DEF RecoveryStates

\* A state that is entered at rest.
LEMMA EnterSwitched ==
  ASSUME NEW x, Base(x), x.motion = "STOP", Since(x) = "STOP",
         NEW state \in States \ (StopStates \cup TurnStates),
         state \in RecoveryStates => x.attempt < MaxAttempts,
         state \in {"TURN_EVALUATE", "HEADING_STABLE"}
           => /\ TurnReason(x, x.stableNext)
              /\ x.correcting => x.corrections < MaxCorrections
  PROVE  Switched(SetState(x, state))
<1> DEFINE y == SetState(x, state)
<1>1. /\ y \in Recs /\ Same(y, x) /\ y.state = state
      /\ y.changed \/ (state = x.state /\ y = x)
  BY SetStateIs DEF Base
<1> HIDE DEF y
<1>2. /\ y.seg = x.seg /\ y.gate = x.gate /\ y.motion = "STOP"
      /\ y.attempt = x.attempt /\ y.stableNext = x.stableNext
      /\ y.correcting = x.correcting /\ y.corrections = x.corrections
  BY <1>1 DEF Same
<1>3. Base(y) /\ Since(y) = "STOP"
  BY <1>1, <1>2 DEF Base, SegmentKept, Since
<1>4. ReasonShape(y)
  BY <1>1, <1>2 DEF ReasonShape, TurnReason, Runs
<1>5. MotionShape(y) /\ RollShape(y, Since(y))
  BY <1>2, <1>3 DEF MotionShape, RollShape, Turns
<1> QED
  BY <1>1, <1>3, <1>4, <1>5 DEF Switched, Fine, y

\* A record that only forgets, learns that the wheels stand, or is allowed to go on.
LEMMA StandingFine ==
  ASSUME NEW x, Fine(x), NEW b \in BOOLEAN
  PROVE  Fine([x EXCEPT !.stable = b])
<1> DEFINE y == [x EXCEPT !.stable = b]
<1>1. x \in Recs
  BY DEF Fine, Base
<1>2. y \in Recs
  BY <1>1 DEF Recs
<1>3. /\ y.state = x.state /\ y.motion = x.motion /\ y.direction = x.direction
      /\ y.seg = x.seg /\ y.gate = x.gate /\ y.changed = x.changed
      /\ y.stopNext = x.stopNext /\ y.stableNext = x.stableNext
      /\ y.attempt = x.attempt /\ y.correcting = x.correcting
      /\ y.corrections = x.corrections
  BY <1>1 DEF Recs
<1> HIDE DEF y
<1>4. Base(y) /\ Since(y) = Since(x)
  BY <1>2, <1>3 DEF Fine, Base, SegmentKept, Since
<1>5. ReasonShape(y)
  BY <1>3 DEF Fine, ReasonShape, StopReason, TurnReason, Runs
<1>6. MotionShape(y) /\ RollShape(y, Since(y))
  BY <1>3, <1>4 DEF Fine, MotionShape, RollShape
<1> QED
  BY <1>4, <1>5, <1>6 DEF Fine, y

\* A turn that is off is corrected, or has failed.
LEMMA CorrectDone ==
  ASSUME NEW x, Base(x), x.motion = "STOP", Since(x) = "STOP",
         TurnReason(x, x.stableNext), NEW z \in Correct(x)
  PROVE  Done(z)
<1>1. x.corrections \in 0..MaxCorrections
  BY DEF Base, Recs
<1>2. CASE x.corrections >= MaxCorrections
  BY <1>2, FailDone DEF Correct
<1>3. CASE ~(x.corrections >= MaxCorrections)
  <2>1. x.corrections < MaxCorrections /\ z \in BeginTurnCorrection(x)
    BY <1>1, <1>3 DEF Correct
  <2> QED
    BY <2>1, CorrectionDone
<1> QED
  BY <1>2, <1>3

\* The turn states that move.
LEMMA TurnsDone ==
  ASSUME NEW x, Input(x), x.state \in TurnStates,
         NEW z \in CASE x.state = "TURN_BREAKAWAY" -> TurnBreakaway(x)
                     [] x.state = "TURN_ROTATE" -> Rotation(x)
                     [] x.state = "TURN_CORRECTION" -> TurnCorrection(x)
  PROVE  Done(z)
<1>1. Fine(x) /\ x.motion = "STOP" /\ Base(x) /\ Runs("turn", x)
  BY DEF Input, Fine, Runs
<1>2. Done(Fail(x)) /\ Done(Rotate(x)) /\ Done(BeginTurnBrake(x))
  BY <1>1, FailDone, RotateDone, TurnBrakeDone
<1>3. CASE x.state = "TURN_ROTATE"
  <2>1. z \in Rotation(x)
    BY <1>3
  <2> QED
    BY <1>2, <2>1 DEF Rotation
<1>4. CASE x.state = "TURN_CORRECTION"
  <2>1. z \in TurnCorrection(x)
    BY <1>4
  <2> QED
    BY <1>2, <2>1 DEF TurnCorrection
<1>5. CASE x.state = "TURN_BREAKAWAY"
  <2> DEFINE y == SetState(x, "TURN_ROTATE")
  <2>1. z \in {Fail(x), Rotate(x)} \cup Rotation(y)
    <3>1. z \in TurnBreakaway(x)
      BY <1>5
    <3> QED
      BY <3>1 DEF TurnBreakaway
  <2>2. /\ y \in Recs /\ Same(y, x) /\ y.state = "TURN_ROTATE"
        /\ y.changed \/ ("TURN_ROTATE" = x.state /\ y = x)
    BY <1>1, SetStateIs DEF Base, States, TurnStates
  <2> HIDE DEF y
  <2>3. Base(y) /\ Since(y) = Since(x)
    BY <1>1, <2>2 DEF Base, SegmentKept, Since, Same
  <2>4. ReasonShape(y)
    <3>1. /\ TurnReason(x, x.stableNext)
          /\ x.correcting => x.corrections < MaxCorrections
      BY <1>1 DEF Fine, ReasonShape
    <3> QED
      BY <2>2, <3>1 DEF ReasonShape, TurnReason, StopStates, RecoveryStates, Same
  <2>5. MotionShape(y) /\ RollShape(y, Since(y))
    BY <1>1, <2>2, <2>3 DEF Fine, MotionShape, RollShape, TurnStates, LineStates,
       ProgressStates, RestStates, Turns, Same
  <2>6. Fine(y) /\ y.motion = "STOP" /\ Runs("turn", y) /\ y.state \in TurnStates
    BY <1>1, <2>2, <2>3, <2>4, <2>5 DEF Fine, Runs, TurnStates, Same
  <2>7. Done(Fail(y)) /\ Done(Rotate(y)) /\ Done(BeginTurnBrake(y))
    BY <2>3, <2>6, FailDone, RotateDone, TurnBrakeDone
  <2> QED
    BY <1>2, <2>1, <2>7 DEF Rotation
<1> QED
  BY <1>3, <1>4, <1>5 DEF TurnStates

\* The turn at rest: it is evaluated, and its heading watched.
LEMMA HeadingSwitched ==
  ASSUME Context, NEW x, Input(x),
         NEW z \in CASE x.state = "TURN_EVALUATE" -> TurnEvaluate(x)
                     [] x.state = "HEADING_STABLE" -> HeadingStable(x),
         x.state \in {"TURN_EVALUATE", "HEADING_STABLE"}
  PROVE  Switched(z)
<1>1. /\ Base(x) /\ x.motion = "STOP" /\ Fine(x) /\ x \in Recs
      /\ Since(x) = "STOP"
      /\ TurnReason(x, x.stableNext)
      /\ x.correcting => x.corrections < MaxCorrections
  BY DEF Input, Fine, Base, RollShape, RestStates, ReasonShape, Runs
<1>2. CASE x.state = "TURN_EVALUATE"
  <2> DEFINE y == IF x.correcting THEN [x EXCEPT !.corrections = @ + 1] ELSE x
             h == SetState(y, "HEADING_STABLE")
  <2>1. \/ z = Fail(y)
        \/ z = [h EXCEPT !.correcting = FALSE, !.stable = FALSE]
        \/ z \in Correct(y)
    <3>1. z \in TurnEvaluate(x)
      BY <1>2
    <3> QED
      BY <3>1 DEF TurnEvaluate
  <2>2. /\ y \in Recs /\ y.state = x.state /\ y.motion = "STOP"
        /\ y.seg = x.seg /\ y.gate = x.gate /\ y.changed = x.changed
        /\ y.stableNext = x.stableNext /\ y.attempt = x.attempt
    <3>1. CASE ~x.correcting
      BY <1>1, <3>1
    <3>2. CASE x.correcting
      <4>1. x.corrections + 1 \in 0..MaxCorrections
        BY <1>1, <3>2 DEF Recs
      <4>2. y = [x EXCEPT !.corrections = x.corrections + 1]
        BY <3>2
      <4> HIDE DEF y
      <4> QED
        BY <1>1, <4>1, <4>2 DEF Recs
    <3> QED
      BY <3>1, <3>2
  <2> HIDE DEF y
  <2>3. Base(y) /\ Since(y) = "STOP" /\ TurnReason(y, y.stableNext)
    BY <1>1, <2>2 DEF Base, SegmentKept, Since, TurnReason
  <2>4. Switched(Fail(y)) /\ (z \in Correct(y) => Switched(z))
    BY <2>2, <2>3, FailDone, CorrectDone DEF Done
  <2>5. CASE z = [h EXCEPT !.correcting = FALSE, !.stable = FALSE]
    <3>1. /\ h \in Recs /\ Same(h, y) /\ h.state = "HEADING_STABLE"
          /\ h.changed \/ ("HEADING_STABLE" = y.state /\ h = y)
      BY <2>2, SetStateIs DEF States
    <3> HIDE DEF h
    <3>2. z \in Recs
      BY <2>5, <3>1 DEF Recs
    <3>3. /\ z.state = "HEADING_STABLE" /\ z.motion = h.motion
          /\ z.seg = h.seg /\ z.gate = h.gate /\ z.changed = h.changed
          /\ z.stableNext = h.stableNext /\ z.attempt = h.attempt
          /\ z.correcting = FALSE
      BY <2>5, <3>1 DEF Recs
    <3>4. /\ z.motion = "STOP" /\ z.seg = y.seg /\ z.gate = y.gate
          /\ z.stableNext = y.stableNext /\ z.attempt = y.attempt
      BY <2>2, <3>1, <3>3 DEF Same
    <3>5. Base(z) /\ Since(z) = "STOP"
      BY <2>2, <2>3, <3>1, <3>2, <3>3, <3>4 DEF Base, SegmentKept, Since
    <3>6. ReasonShape(z)
      BY <2>3, <3>3, <3>4 DEF ReasonShape, TurnReason, StopStates, RecoveryStates
    <3>7. MotionShape(z) /\ RollShape(z, Since(z))
      BY <3>3, <3>4, <3>5 DEF MotionShape, RollShape, TurnStates, LineStates,
         ProgressStates, Turns
    <3> QED
      BY <3>3, <3>5, <3>6, <3>7 DEF Switched, Fine, TurnStates
  <2> QED
    BY <2>1, <2>4, <2>5
<1>3. CASE x.state = "HEADING_STABLE"
  <2>1. \/ z \in Standing(x)
        \/ z = Stable(x)
        \/ z \in Correct(x)
    <3>1. z \in HeadingStable(x)
      BY <1>3
    <3> QED
      BY <3>1 DEF HeadingStable
  <2>2. CASE z \in Standing(x)
    <3>1. PICK b \in BOOLEAN : z = [x EXCEPT !.stable = b]
      BY <2>2 DEF Standing
    <3>2. Fine(z) /\ z.state = x.state
      BY <1>1, <3>1, StandingFine DEF Recs
    <3> QED
      BY <1>3, <3>2 DEF Switched, TurnStates
  <2>3. CASE z \in Correct(x)
    BY <1>1, <2>3, CorrectDone DEF Done
  <2>4. CASE z = Stable(x)
    <3>1. CASE x.stableNext = "NEXT_SEGMENT_INTERCEPT"
      <4> DEFINE y == [x EXCEPT !.seg = @ + 1]
      <4>1. Base(y) /\ y.motion = "STOP" /\ Since(y) = Since(x)
        <5>1. plan[x.seg] = "CORNER"
          BY <1>1, <3>1 DEF TurnReason
        <5> QED
          BY <1>1, <5>1, NextSegment DEF FinalTypes
      <4>2. z = AcquireSegment(y, "INTERCEPT_NEXT_LINE")
        BY <2>4, <3>1 DEF Stable
      <4> HIDE DEF y
      <4> QED
        BY <1>1, <4>1, <4>2, ProgressSwitched DEF ProgressStates
    <3>2. CASE x.stableNext = "RESUME_INTERCEPT"
      <4>1. z = AcquireSegment(x, "INTERCEPT_NEXT_LINE")
        BY <2>4, <3>2 DEF Stable
      <4> QED
        BY <1>1, <4>1, ProgressSwitched DEF ProgressStates
    <3>3. CASE x.stableNext = "RECOVERY_APPROACH"
      <4> DEFINE r == Restart(x, {"approach"})
                 y == SetState(r, "RECOVERY_APPROACH")
      <4>1. z = [y EXCEPT !.reached = FALSE]
        BY <2>4, <3>3 DEF Stable
      <4>2. r \in Recs /\ Same(r, x) /\ r.state = x.state /\ r.changed = x.changed
        BY <1>1, RestartIs DEF Timers
      <4> HIDE DEF r
      <4>3. /\ y \in Recs /\ Same(y, r) /\ y.state = "RECOVERY_APPROACH"
            /\ y.changed \/ ("RECOVERY_APPROACH" = r.state /\ y = r)
        BY <4>2, SetStateIs DEF States, LineStates
      <4> HIDE DEF y
      <4>4. z \in Recs
        BY <4>1, <4>3 DEF Recs
      <4>5. /\ z.state = "RECOVERY_APPROACH" /\ z.motion = y.motion
            /\ z.seg = y.seg /\ z.gate = y.gate /\ z.changed = y.changed
            /\ z.attempt = y.attempt
        BY <4>1, <4>3 DEF Recs
      <4>6. /\ z.motion = "STOP" /\ z.seg = x.seg /\ z.gate = x.gate
            /\ z.attempt = x.attempt
        BY <1>1, <4>2, <4>3, <4>5 DEF Same
      <4>7. Base(z) /\ Since(z) = "STOP"
        BY <1>1, <4>2, <4>3, <4>4, <4>5, <4>6 DEF Base, SegmentKept, Since
      <4>8. ReasonShape(z)
        BY <1>1, <3>3, <4>5, <4>6 DEF ReasonShape, TurnReason, StopStates, Runs,
           TurnStates
      <4>9. MotionShape(z) /\ RollShape(z, Since(z))
        BY <4>5, <4>6, <4>7 DEF MotionShape, RollShape, Turns
      <4> QED
        BY <4>5, <4>7, <4>8, <4>9 DEF Switched, Fine, TurnStates
    <3> QED
      BY <1>1, <3>1, <3>2, <3>3 DEF TurnReason, StableNexts
  <2> QED
    BY <2>1, <2>2, <2>3, <2>4
<1> QED
  BY <1>2, <1>3

\* A stop that has passed its gate: the wheels are at rest, whatever they did.
LEMMA StoppedSwitched ==
  ASSUME Context, NEW x, Input(x), x.state \in StopStates, x.gate,
         NEW sweep \in BOOLEAN, NEW z \in Stopped(x, sweep)
  PROVE  Switched(z)
<1>1. /\ Base(x) /\ x.motion = "STOP" /\ Fine(x) /\ x \in Recs
      /\ Since(x) = "STOP" /\ StopReason(x, x.stopNext)
  BY DEF Input, Fine, Base, Since, ReasonShape
<1>2. Switched(Fail(x))
  BY <1>1, FailDone DEF Done
<1>3. ASSUME NEW y, Base(y), y.motion = "STOP", Since(y) = "STOP",
             NEW next, TurnReason(y, next), z \in TurnIfClear(y, next, sweep)
      PROVE  Switched(z)
  BY <1>3, StartTurnDone, FailDone DEF TurnIfClear, Done
<1>4. CASE x.stopNext = "START_TURN"
  <2>1. z \in TurnIfClear(x, "RESUME_INTERCEPT", sweep)
    BY <1>4 DEF Stopped
  <2>2. TurnReason(x, "RESUME_INTERCEPT")
    BY DEF TurnReason, StableNexts
  <2> QED
    BY <1>1, <1>3, <2>1, <2>2
<1>5. CASE x.stopNext = "TURN_NEXT"
  <2>1. z \in TurnIfClear(x, "NEXT_SEGMENT_INTERCEPT", sweep)
    BY <1>5 DEF Stopped
  <2>2. TurnReason(x, "NEXT_SEGMENT_INTERCEPT")
    BY <1>1, <1>5 DEF TurnReason, StopReason, StableNexts
  <2> QED
    BY <1>1, <1>3, <2>1, <2>2
<1>6. CASE x.stopNext = "RECOVERY_TURN"
  <2>1. z \in TurnIfClear(x, "RECOVERY_APPROACH", sweep)
    BY <1>6 DEF Stopped
  <2>2. TurnReason(x, "RECOVERY_APPROACH")
    BY <1>1, <1>6 DEF TurnReason, StopReason, StableNexts
  <2> QED
    BY <1>1, <1>3, <2>1, <2>2
<1>7. CASE x.stopNext = "CORNER_MISSED_INTERCEPT"
  <2> DEFINE y == [x EXCEPT !.seg = @ + 1]
  <2>1. z = Fail(x) \/ z \in TurnIfClear(y, "RESUME_INTERCEPT", sweep)
    BY <1>7 DEF Stopped
  <2>2. plan[x.seg] = "CORNER"
    BY <1>1, <1>7 DEF StopReason
  <2>3. Base(y) /\ y.motion = "STOP" /\ Since(y) = "STOP"
    BY <1>1, <2>2, NextSegment DEF FinalTypes
  <2> HIDE DEF y
  <2>4. TurnReason(y, "RESUME_INTERCEPT")
    BY DEF TurnReason, StableNexts
  <2> QED
    BY <1>2, <1>3, <2>1, <2>3, <2>4
<1>8. CASE x.stopNext = "TURN_EVALUATE"
  <2>1. z = SetState(x, "TURN_EVALUATE")
    BY <1>8 DEF Stopped
  <2>2. Runs("turn", x)
    BY <1>8 DEF Runs
  <2>3. /\ TurnReason(x, x.stableNext)
        /\ x.correcting => x.corrections < MaxCorrections
    BY <1>1, <2>2 DEF Fine, ReasonShape
  <2>4. "TURN_EVALUATE" \in States \ (StopStates \cup TurnStates)
    BY DEF States, StopStates, TurnStates
  <2> QED
    BY <1>1, <2>1, <2>3, <2>4, EnterSwitched DEF RecoveryStates
<1>9. CASE x.stopNext = "START_INTERCEPT"
  <2>1. z = AcquireSegment(x, "INTERCEPT_NEXT_LINE")
    BY <1>9 DEF Stopped
  <2> QED
    BY <1>1, <2>1, ProgressSwitched DEF ProgressStates
<1>10. CASE x.stopNext = "FINAL_COMPLETE"
  <2>1. z = CompleteArrived(x)
    BY <1>10 DEF Stopped
  <2> QED
    BY <1>1, <2>1, CompleteDone DEF Done
<1>11. CASE x.stopNext = "RECOVERY_REVERSE"
  <2> DEFINE r == Restart(x, {"approach"})
  <2>1. z = SetState(r, "RECOVERY_REVERSE")
    BY <1>11 DEF Stopped
  <2>2. r \in Recs /\ Same(r, x) /\ r.state = x.state /\ r.changed = x.changed
    BY <1>1, RestartIs DEF Timers
  <2> HIDE DEF r
  <2>3. Base(r) /\ r.motion = "STOP" /\ Since(r) = "STOP" /\ r.attempt < MaxAttempts
    BY <1>1, <1>11, <2>2 DEF Base, SegmentKept, Since, Same, StopReason
  <2>4. "RECOVERY_REVERSE" \in States \ (StopStates \cup TurnStates)
    BY DEF States, StopStates, TurnStates
  <2> QED
    BY <2>1, <2>3, <2>4, EnterSwitched
<1>12. CASE x.stopNext = "RECOVERY_EVALUATE"
  <2>1. z = SetState(x, "RECOVERY_EVALUATE") /\ x.attempt < MaxAttempts
    BY <1>1, <1>12 DEF Stopped, StopReason
  <2>2. "RECOVERY_EVALUATE" \in States \ (StopStates \cup TurnStates)
    BY DEF States, StopStates, TurnStates
  <2> QED
    BY <1>1, <2>1, <2>2, EnterSwitched
<1>13. CASE x.stopNext \in {"CORNER_MISSED_FAULT", "STEERING_RESPONSE_FAULT"}
  <2>1. z = Fail(x)
    BY <1>13 DEF Stopped
  <2> QED
    BY <1>2, <2>1
<1> QED
  BY <1>1, <1>4, <1>5, <1>6, <1>7, <1>8, <1>9, <1>10, <1>11, <1>12, <1>13
  DEF StopReason, StopNexts

\* The stop states.
LEMMA StopsSwitched ==
  ASSUME Context, NEW x, Input(x), NEW sweep \in BOOLEAN,
         NEW z \in IF x.state = "WAIT_PHYSICAL_STOP" THEN WaitPhysicalStop(x, sweep)
                   ELSE {SetState(x, "WAIT_PHYSICAL_STOP")},
         x.state \in StopStates
  PROVE  Switched(z)
<1>1. Base(x) /\ x.motion = "STOP" /\ Fine(x) /\ x \in Recs /\ x.seg = ex.seg
  BY DEF Input, Fine, Base
<1>2. CASE x.state # "WAIT_PHYSICAL_STOP"
  <2>1. /\ z \in Recs /\ Same(z, x) /\ z.state = "WAIT_PHYSICAL_STOP"
        /\ z.changed \/ ("WAIT_PHYSICAL_STOP" = x.state /\ z = x)
    BY <1>1, <1>2, SetStateIs DEF States, StopStates
  <2>2. Base(z)
    BY <1>1, <2>1 DEF Base, SegmentKept, Since, Same
  <2>3. ReasonShape(z)
    <3>1. StopReason(z, z.stopNext)
      BY <1>1, <2>1 DEF Fine, ReasonShape, StopReason, Same
    <3>2. Runs("turn", z) => Runs("turn", x)
      BY <2>1 DEF Runs, Same, TurnStates
    <3>3. Runs("turn", z)
            => /\ TurnReason(z, z.stableNext)
               /\ z.correcting => z.corrections < MaxCorrections
      BY <1>1, <2>1, <3>2 DEF Fine, ReasonShape, TurnReason, Same
    <3>4. z.state \notin RecoveryStates
      BY <2>1 DEF RecoveryStates
    <3> QED
      BY <3>1, <3>3, <3>4 DEF ReasonShape
  <2>4. MotionShape(z) /\ RollShape(z, Since(z))
    BY <1>1, <2>1 DEF MotionShape, RollShape, TurnStates, LineStates,
       ProgressStates, RestStates, Turns, Same
  <2> QED
    BY <2>1, <2>2, <2>3, <2>4 DEF Switched, Fine, TurnStates
<1>3. CASE x.state = "WAIT_PHYSICAL_STOP"
  <2>1. \/ z = Fail(x)
        \/ z \in Standing(x)
        \/ z \in Stopped([x EXCEPT !.gate = TRUE], sweep)
    BY <1>3 DEF WaitPhysicalStop
  <2>2. CASE z \in Standing(x)
    <3>1. PICK b \in BOOLEAN : z = [x EXCEPT !.stable = b]
      BY <2>2 DEF Standing
    <3>2. Fine(z) /\ z.state = x.state
      BY <1>1, <3>1, StandingFine DEF Recs
    <3> QED
      BY <1>3, <3>2 DEF Switched, TurnStates
  <2>3. CASE z \in Stopped([x EXCEPT !.gate = TRUE], sweep)
    <3> DEFINE y == [x EXCEPT !.gate = TRUE]
    <3>1. y \in Recs
      BY <1>1 DEF Recs
    <3>2. /\ y.state = x.state /\ y.motion = x.motion /\ y.direction = x.direction
          /\ y.seg = x.seg /\ y.gate = TRUE /\ y.changed = x.changed
          /\ y.stopNext = x.stopNext /\ y.stableNext = x.stableNext
          /\ y.attempt = x.attempt /\ y.correcting = x.correcting
          /\ y.corrections = x.corrections
      BY <1>1 DEF Recs
    <3> HIDE DEF y
    <3>3. Base(y)
      BY <1>1, <3>1, <3>2 DEF Base, SegmentKept
    <3>4. ReasonShape(y)
      BY <1>1, <3>2 DEF Fine, ReasonShape, StopReason, TurnReason, Runs
    <3>5. MotionShape(y) /\ RollShape(y, Since(y))
      BY <1>1, <1>3, <3>2 DEF MotionShape, RollShape, TurnStates, LineStates,
         ProgressStates, RestStates, Turns
    <3>6. Input(y) /\ y.state \in StopStates /\ y.gate
      BY <1>1, <3>2, <3>3, <3>4, <3>5 DEF Input, Fine
    <3> QED
      BY <2>3, <3>6, StoppedSwitched DEF y
  <2>4. CASE z = Fail(x)
    BY <1>1, <2>4, FailDone DEF Done
  <2> QED
    BY <2>1, <2>2, <2>3, <2>4
<1> QED
  BY <1>2, <1>3

\* All states, but for those that end the route and are not updated.
LEMMA SwitchSwitched ==
  ASSUME Context, NEW x, Input(x), x.state \notin {"IDLE", "COMPLETE"},
         NEW sweep \in BOOLEAN, NEW z \in Switch(x, sweep)
  PROVE  Switched(z)
<1>1. /\ Base(x) /\ x.motion = "STOP" /\ Fine(x) /\ x \in Recs
      /\ x.state \in States /\ x.seg \in Nat
  BY PlanFacts DEF Input, Fine, Base, Recs
<1>2. CASE x.state \in {"VALIDATE_ROUTE", "ACQUIRE_SEGMENT"}
  <2>1. Since(x) = "STOP"
    BY <1>1, <1>2 DEF Fine, RollShape, RestStates
  <2>2. CASE x.state = "VALIDATE_ROUTE"
    <3>1. z = SetState(x, "ACQUIRE_SEGMENT")
      BY <2>2 DEF Switch, StopStates
    <3>2. "ACQUIRE_SEGMENT" \in States \ (StopStates \cup TurnStates)
      BY DEF States, StopStates, TurnStates
    <3> QED
      BY <1>1, <2>1, <3>1, <3>2, EnterSwitched DEF RecoveryStates
  <2>3. CASE x.state = "ACQUIRE_SEGMENT"
    <3>1. \/ z = AcquireSegment(x, "INTERCEPT_NEXT_LINE")
          \/ z = AcquireSegment(x, "FOLLOW_SEGMENT")
      BY <2>3 DEF Switch, StopStates
    <3> QED
      BY <1>1, <2>1, <3>1, ProgressSwitched DEF ProgressStates
  <2> QED
    BY <1>2, <2>2, <2>3
<1>3. CASE x.state \in ProgressStates
  <2>1. z \in CASE x.state \in {"FOLLOW_SEGMENT", "APPROACH_TRANSITION"} -> Follow(x)
                [] x.state = "INTERCEPT_NEXT_LINE" -> Intercept(x)
                [] x.state = "TERMINAL_APPROACH" -> TerminalApproach(x)
    BY <1>3 DEF Switch, ProgressStates, StopStates
  <2> QED
    BY <1>3, <2>1, LinesSwitched
<1>4. CASE x.state \in StopStates
  <2>1. z \in IF x.state = "WAIT_PHYSICAL_STOP" THEN WaitPhysicalStop(x, sweep)
              ELSE {SetState(x, "WAIT_PHYSICAL_STOP")}
    BY <1>4 DEF Switch, StopStates
  <2> QED
    BY <1>4, <2>1, StopsSwitched
<1>5. CASE x.state \in TurnStates
  <2>1. z \in CASE x.state = "TURN_BREAKAWAY" -> TurnBreakaway(x)
                [] x.state = "TURN_ROTATE" -> Rotation(x)
                [] x.state = "TURN_CORRECTION" -> TurnCorrection(x)
    BY <1>5 DEF Switch, TurnStates, StopStates
  <2> QED
    BY <1>5, <2>1, TurnsDone DEF Done
<1>6. CASE x.state \in {"TURN_EVALUATE", "HEADING_STABLE"}
  <2>1. z \in CASE x.state = "TURN_EVALUATE" -> TurnEvaluate(x)
                [] x.state = "HEADING_STABLE" -> HeadingStable(x)
    BY <1>6 DEF Switch, StopStates
  <2> QED
    BY <1>6, <2>1, HeadingSwitched
<1>7. CASE x.state \in RecoveryStates
  <2>1. z \in CASE x.state = "RECOVERY_PLAN" -> RecoveryPlan(x)
                [] x.state = "RECOVERY_REVERSE" -> RecoveryReverse(x)
                [] x.state = "RECOVERY_APPROACH" -> RecoveryApproach(x)
                [] x.state = "RECOVERY_EVALUATE" -> RecoveryEvaluate(x)
    BY <1>7 DEF Switch, RecoveryStates, StopStates
  <2> QED
    BY <1>7, <2>1, RecoverySwitched
<1>8. CASE x.state = "FAULT"
  <2>1. z = x
    BY <1>8 DEF Switch, StopStates
  <2> QED
    BY <1>1, <1>8, <2>1 DEF Switched, TurnStates
<1> QED
  BY <1>1, <1>2, <1>3, <1>4, <1>5, <1>6, <1>7, <1>8
  DEF States, LineStates, RecoveryStates

-----------------------------------------------------------------------------
(* RouteExecutor::update                                                   *)

\* What comes before the state is updated leaves a record that is in order.
LEMMA ArrivalInput ==
  ASSUME Context, NEW x, Input(x), IsActive(x), NEW place \in Places
  PROVE  /\ Input(Arrival(x, place))
         /\ Arrival(x, place).state \notin {"IDLE", "COMPLETE"}
<1>1. Base(x) /\ x.motion = "STOP" /\ x \in Recs /\ x.seg = ex.seg
  BY DEF Input, Fine, Base
<1>2. CASE Arrival(x, place) = x
  BY <1>2 DEF IsActive
<1>3. CASE Arrival(x, place) = BeginRecovery(x)
  BY <1>1, <1>3, BeginRecoveryDone DEF Input, Done, Switched
<1>4. CASE Arrival(x, place) = EnterBrake(x, "FINAL_COMPLETE", "FINAL_STOP")
  <2> DEFINE z == EnterBrake(x, "FINAL_COMPLETE", "FINAL_STOP")
  <2>1. StopReason(x, "FINAL_COMPLETE")
    BY DEF StopReason, StopNexts
  <2>2. Done(z)
    BY <1>1, <2>1, BrakeDone
  <2>3. z.motion = "STOP" /\ z.seg = x.seg /\ z.state = "FINAL_STOP"
    <3> DEFINE r == Restart(x, {"stop"})
               y == SetState(r, "FINAL_STOP")
    <3>1. r \in Recs /\ Same(r, x)
      BY <1>1, RestartIs DEF Timers
    <3>2. "FINAL_STOP" \in States
      BY DEF States, StopStates
    <3> HIDE DEF r
    <3>3. y \in Recs /\ Same(y, r) /\ y.state = "FINAL_STOP"
      BY <3>1, <3>2, SetStateIs
    <3> HIDE DEF y
    <3>4. z.motion = y.motion /\ z.seg = y.seg /\ z.state = y.state
      BY <3>3 DEF EnterBrake, y, r, Recs
    <3> QED
      BY <1>1, <3>1, <3>3, <3>4 DEF Same
  <2> QED
    BY <1>1, <1>4, <2>2, <2>3 DEF Input, Done, Switched
<1> QED
  BY <1>2, <1>3, <1>4 DEF Arrival

LEMMA GatedInput ==
  ASSUME NEW x, Input(x), x.state \notin {"IDLE", "COMPLETE"}, NEW path \in BOOLEAN,
         NEW y \in Gated(x, path)
  PROVE  Input(y) /\ y.state \notin {"IDLE", "COMPLETE"}
<1>1. Base(x) /\ x.motion = "STOP" /\ x \in Recs /\ x.seg = ex.seg
  BY DEF Input, Fine, Base
<1>2. CASE y = Fail(x)
  <2>1. Done(y) /\ y.state = "FAULT"
    BY <1>1, <1>2, FailDone
  <2>2. y.motion = "STOP" /\ y.seg = x.seg
    <3> DEFINE q == SetState(x, "FAULT")
    <3>1. q \in Recs /\ Same(q, x)
      BY <1>1, SetStateIs DEF States
    <3> HIDE DEF q
    <3>2. y = [q EXCEPT !.recovering = FALSE]
      BY <1>2 DEF Fail, q
    <3> QED
      BY <1>1, <3>1, <3>2 DEF Recs, Same
  <2> QED
    BY <1>1, <2>1, <2>2 DEF Input, Done, Switched
<1>3. CASE y = Restart(x, {"progress"})
  <2>1. y \in Recs /\ Same(y, x) /\ y.state = x.state /\ y.changed = x.changed
    BY <1>1, <1>3, RestartIs DEF Timers
  <2>2. Base(y) /\ Since(y) = Since(x)
    BY <1>1, <2>1 DEF Base, SegmentKept, Since, Same
  <2>3. ReasonShape(y)
    BY <2>1 DEF Input, Fine, ReasonShape, StopReason, TurnReason, Runs, Same
  <2>4. MotionShape(y) /\ RollShape(y, Since(y))
    BY <2>1, <2>2 DEF Input, Fine, MotionShape, RollShape, Same
  <2> QED
    BY <1>1, <2>1, <2>2, <2>3, <2>4 DEF Input, Fine, Same
<1> QED
  BY <1>2, <1>3 DEF Gated

\* A line state that has just been entered drives at once.
LEMMA ContinuedDone ==
  ASSUME NEW x, Switched(x), NEW path \in BOOLEAN, NEW z \in Continued(x, ex.seg, path)
  PROVE  Done(z)
<1>1. CASE x.motion # "STOP" \/ x.state \notin LineStates
  BY <1>1 DEF Continued, Done
<1>2. CASE x.motion = "STOP" /\ x.state \in LineStates
  <2>1. Fine(x) /\ Base(x)
    BY DEF Switched, Fine
  <2>2. Done(Fail(x)) /\ \A y \in LineMotion(x) : Done(y)
    BY <1>2, <2>1, FailDone, LineMotionDone
  <2> QED
    BY <1>2, <2>2 DEF Continued
<1> QED
  BY <1>1, <1>2

\* The record that an update starts from.
Fresh == [ex EXCEPT !.motion = "STOP", !.changed = FALSE, !.gate = FALSE]

LEMMA FreshInput ==
  ASSUME ExecInv
  PROVE  Context /\ Input(Fresh) /\ Fresh.state = ex.state
<1> DEFINE x == Fresh
<1>1. ex \in Recs
  BY DEF ExecInv, TypeOK, Recs
<1>2. x \in Recs
  BY <1>1 DEF Fresh, Recs, Motions
<1>3. /\ x.state = ex.state /\ x.motion = "STOP" /\ x.direction = ex.direction
      /\ x.seg = ex.seg /\ x.gate = FALSE
      /\ x.stopNext = ex.stopNext /\ x.stableNext = ex.stableNext
      /\ x.attempt = ex.attempt /\ x.correcting = ex.correcting
      /\ x.corrections = ex.corrections
  BY <1>1 DEF Fresh, Recs
<1> HIDE DEF x
<1>4. Base(x) /\ Since(x) = rolling
  BY <1>2, <1>3 DEF Base, SegmentKept, Since
<1>5. ReasonShape(x)
  BY <1>3 DEF ExecInv, ReasonShape, StopReason, TurnReason, Runs
<1>6. MotionShape(x) /\ RollShape(x, Since(x))
  BY <1>3, <1>4 DEF ExecInv, MotionShape, RollShape, Turns
<1>7. Context
  BY DEF Context, ExecInv, TypeOK
<1> QED
  BY <1>3, <1>4, <1>5, <1>6, <1>7 DEF Input, Fine, x

\* Every outcome of an update is in order.
LEMMA OutcomesDone ==
  ASSUME ExecInv, IsActive(ex), NEW path \in BOOLEAN, NEW sweep \in BOOLEAN,
         NEW place \in Places, NEW z \in Outcomes(path, place, sweep)
  PROVE  Done(z)
<1>1. PICK y \in Gated(Arrival(Fresh, place), path) :
        \E s \in Switch(y, sweep) : z \in Continued(s, ex.seg, path)
  BY DEF Outcomes, Fresh
<1>2. PICK s \in Switch(y, sweep) : z \in Continued(s, ex.seg, path)
  BY <1>1
<1>3. Context /\ Input(Fresh) /\ IsActive(Fresh)
  BY FreshInput DEF IsActive
<1> DEFINE a == Arrival(Fresh, place)
<1>4. Input(a) /\ a.state \notin {"IDLE", "COMPLETE"}
  BY <1>3, ArrivalInput
<1>5. y \in Gated(a, path)
  BY <1>1
<1> HIDE DEF a
<1>6. Input(y) /\ y.state \notin {"IDLE", "COMPLETE"}
  BY <1>4, <1>5, GatedInput
<1>7. Switched(s)
  BY <1>3, <1>6, SwitchSwitched
<1> QED
  BY <1>2, <1>7, ContinuedDone

\* What is tidied is in order for the next update.
LEMMA TidyIs ==
  ASSUME Context, NEW x, Done(x)
  PROVE  /\ Tidy(x) \in Recs /\ Tidy(x).changed = FALSE /\ Tidy(x).restarted = {}
         /\ Tidy(x).state = x.state /\ Tidy(x).seg = x.seg
         /\ Tidy(x).motion \in {x.motion, "STOP"}
         /\ IsActive(x) => Tidy(x).motion = x.motion /\ Tidy(x).gate = x.gate
         /\ ReasonShape(Tidy(x)) /\ MotionShape(Tidy(x))
         /\ \A r : RollShape(x, r) => RollShape(Tidy(x), r)
<1> DEFINE t == Tidy(x)
           turning == Runs("turn", x)
           stopping == x.state \in StopStates
<1>1. x \in Recs /\ Fine(x)
  BY DEF Done, Switched, Fine, Base
<1>2. CASE ~IsActive(x)
  <2>1. t = [Idle EXCEPT !.state = x.state, !.seg = x.seg]
    BY <1>2 DEF Tidy
  <2>2. /\ x.state \in States /\ x.seg \in 1..Len(plan)
        /\ 0 \in 0..WrongLimit - 1 /\ 0 \in 0..MaxCorrections
        /\ 0 \in 0..MaxAttempts /\ 0 \in 0..Len(plan)
    BY <1>1, PlanFacts DEF Recs
  <2>3. t \in Recs
    <3>1. 1 \in 1..Len(plan) /\ "IDLE" \in States
      BY PlanFacts DEF States
    <3>2. Idle \in Recs
      BY <2>2, <3>1 DEF Recs, Idle, StopNexts, StableNexts, Turns, Motions
    <3> QED
      BY <2>1, <2>2, <3>2 DEF Recs
  <2>4. /\ t.changed = FALSE /\ t.restarted = {} /\ t.motion = "STOP"
        /\ t.state = x.state /\ t.seg = x.seg
    BY <2>1 DEF Idle
  <2> HIDE DEF t
  <2>5. t.state \in {"IDLE", "COMPLETE", "FAULT"}
    BY <1>2, <2>4 DEF IsActive
  <2>6. ReasonShape(t)
    BY <2>5 DEF ReasonShape, Runs, StopStates, TurnStates, RecoveryStates
  <2>7. MotionShape(t) /\ \A r : RollShape(t, r)
    BY <2>4, <2>5 DEF MotionShape, RollShape, TurnStates, LineStates,
       ProgressStates, RestStates, Turns
  <2> QED
    BY <1>2, <2>3, <2>4, <2>6, <2>7 DEF t
<1>3. CASE IsActive(x)
  <2> DEFINE n == IF stopping THEN x.stopNext ELSE "NONE"
             s == x.stable /\ x.state \in {"WAIT_PHYSICAL_STOP", "HEADING_STABLE"}
             m == IF turning THEN x.stableNext ELSE "NONE"
             d == IF turning THEN x.direction ELSE "LEFT"
             k == IF turning THEN x.corrections ELSE 0
             c == x.correcting /\ turning
             e == x.reached /\ (\/ x.state = "RECOVERY_EVALUATE"
                                \/ stopping /\ x.stopNext = "RECOVERY_EVALUATE")
             q == [x EXCEPT !.stopNext = n, !.stable = s, !.stableNext = m,
                            !.direction = d, !.corrections = k]
  <2>1. t = [x EXCEPT
              !.stopNext = n, !.stable = s, !.stableNext = m, !.direction = d,
              !.corrections = k, !.correcting = c, !.reached = e,
              !.changed = FALSE, !.restarted = {}]
    BY <1>3 DEF Tidy
  <2>2. s \in BOOLEAN /\ c \in BOOLEAN /\ e \in BOOLEAN
    OBVIOUS
  <2>3. n \in StopNexts /\ m \in StableNexts /\ d \in Turns
    BY <1>1 DEF Recs, StopNexts, StableNexts, Turns
  <2>4. k \in 0..MaxCorrections
    BY <1>1 DEF Recs
  <2>5. /\ stopping => n = x.stopNext
        /\ turning => m = x.stableNext /\ d = x.direction /\ k = x.corrections
        /\ c => turning /\ x.correcting
    OBVIOUS
  <2> HIDE DEF n, s, m, d, k, c, e
  <2>6. q \in Recs
    BY <1>1, <2>2, <2>3, <2>4 DEF Recs
  <2>7. t = [q EXCEPT !.correcting = c, !.reached = e, !.changed = FALSE,
                      !.restarted = {}]
    BY <2>1
  <2>8. /\ q.state = x.state /\ q.seg = x.seg /\ q.motion = x.motion
        /\ q.gate = x.gate /\ q.attempt = x.attempt
        /\ q.stopNext = n /\ q.stableNext = m /\ q.direction = d
        /\ q.corrections = k
    BY <1>1 DEF Recs
  <2> HIDE DEF q, t
  <2>9. t \in Recs
    BY <2>2, <2>6, <2>7 DEF Recs
  <2>10. /\ t.state = x.state /\ t.seg = x.seg /\ t.motion = x.motion
         /\ t.gate = x.gate /\ t.attempt = x.attempt
         /\ t.stopNext = n /\ t.stableNext = m /\ t.direction = d
         /\ t.corrections = k /\ t.correcting = c
         /\ t.changed = FALSE /\ t.restarted = {}
    BY <2>6, <2>7, <2>8 DEF Recs
  <2>11. ReasonShape(t)
    <3>1. t.state \in StopStates => StopReason(t, t.stopNext)
      BY <1>1, <2>5, <2>10 DEF Fine, ReasonShape, StopReason
    <3>2. Runs("turn", t) => turning
      BY <2>5, <2>10 DEF Runs
    <3>3. turning => TurnReason(t, t.stableNext)
      BY <1>1, <2>5, <2>10 DEF Fine, ReasonShape, TurnReason
    <3>4. turning /\ t.correcting => t.corrections < MaxCorrections
      BY <1>1, <2>5, <2>10 DEF Fine, ReasonShape
    <3>5. t.state \in RecoveryStates => t.attempt < MaxAttempts
      BY <1>1, <2>10 DEF Fine, ReasonShape
    <3> QED
      BY <3>1, <3>2, <3>3, <3>4, <3>5 DEF ReasonShape
  <2>12. x.state \in TurnStates => turning
    BY DEF Runs
  <2>13. MotionShape(t) /\ \A r : RollShape(x, r) => RollShape(t, r)
    BY <1>1, <2>5, <2>10, <2>12 DEF Fine, MotionShape, RollShape
  <2> QED
    BY <2>9, <2>10, <2>11, <2>13 DEF t
<1> QED
  BY <1>2, <1>3

\* The wheels are only taken from one motion to another at rest.
AtRest == ex'.motion # "STOP" => ex'.gate \/ rolling \in {"STOP", ex'.motion}

CornerAtRest ==
  (IsActive(ex) /\ IsActive(ex') /\ ex'.seg # ex.seg)
    => /\ ex'.seg = ex.seg + 1
       /\ plan[ex.seg] = "CORNER" => ex'.gate \/ rolling = "STOP"

\* How a motion goes with what the wheels have done.
LEMMA MotionRolls ==
  ASSUME NEW x, x.motion \in Motions, x.motion # "STOP", MotionShape(x), NEW r
  PROVE  /\ RollShape(x, r) => r \in {"STOP", x.motion}
         /\ RollShape(x, x.motion)
<1>1. CASE x.motion = "DRIVE"
  BY <1>1 DEF MotionShape, RollShape, LineStates, ProgressStates, TurnStates, RestStates
<1>2. CASE x.motion = "REVERSE"
  BY <1>2 DEF MotionShape, RollShape, LineStates, ProgressStates, TurnStates, RestStates
<1>3. CASE x.motion \in Turns
  BY <1>3 DEF MotionShape, RollShape, LineStates, ProgressStates, TurnStates, RestStates
<1> QED
  BY <1>1, <1>2, <1>3 DEF Motions

\* The rover applies an outcome.
LEMMA ApplyKeeps ==
  ASSUME ExecInv, NEW x, Done(x), NEW sweep \in BOOLEAN, Apply(x, sweep)
  PROVE  ExecInv' /\ AtRest /\ CornerAtRest
<1>1. /\ ex' = Tidy(x)
      /\ late' = {t \in late \ x.restarted : Runs(t, x)}
      /\ open' = (x.motion # "STOP" /\ (open \/ x.changed))
      /\ rolling' = IF x.motion = "STOP" /\ ~x.gate THEN rolling ELSE x.motion
      /\ held' = IF x.changed THEN "no" ELSE held
      /\ blind' = (x.motion \in Turns /\ ~sweep)
      /\ UNCHANGED <<plan, paused, allowed>>
  BY DEF Apply
<1>2. Context /\ x \in Recs /\ Fine(x) /\ Base(x)
  BY DEF ExecInv, TypeOK, Context, Done, Switched, Fine, Base
<1>3. /\ ex' \in Recs /\ ex'.changed = FALSE /\ ex'.restarted = {}
      /\ ex'.state = x.state /\ ex'.seg = x.seg
      /\ ex'.motion \in {x.motion, "STOP"}
      /\ IsActive(x) => ex'.motion = x.motion /\ ex'.gate = x.gate
      /\ ReasonShape(ex') /\ MotionShape(ex')
      /\ \A r : RollShape(x, r) => RollShape(ex', r)
  BY <1>1, <1>2, TidyIs, Zenon
<1>4. x.motion \in Motions /\ (x.motion # "STOP" => IsActive(x))
  BY <1>2 DEF Recs, Fine, MotionShape, IsActive, Motions, LineStates,
     ProgressStates, TurnStates
<1>5. RollShape(ex', rolling')
  <2>1. CASE x.motion = "STOP"
    <3>1. rolling' = Since(x)
      BY <1>1, <2>1 DEF Since
    <3> QED
      BY <1>2, <1>3, <3>1 DEF Fine
  <2>2. CASE x.motion # "STOP"
    <3>1. rolling' = x.motion
      BY <1>1, <2>2
    <3> QED
      BY <1>2, <1>3, <1>4, <2>2, <3>1, MotionRolls DEF Fine
  <2> QED
    BY <2>1, <2>2
<1>6. TypeOK'
  <2>1. ex' \in [state : States, seg : 1..Len(plan), stopNext : StopNexts,
             stableNext : StableNexts, stable : BOOLEAN, gate : BOOLEAN,
             wrong : 0..WrongLimit - 1, direction : Turns,
             corrections : 0..MaxCorrections, correcting : BOOLEAN,
             recovering : BOOLEAN, recoverySeg : 0..Len(plan),
             attempt : 0..MaxAttempts, reached : BOOLEAN,
             motion : Motions, changed : {FALSE}, restarted : {{}}]
    BY <1>3 DEF Recs
  <2>2. plan \in Plans /\ late' \in SUBSET Timers /\ rolling' \in Motions
        /\ held' \in {"no", "pause", "hold"}
    BY <1>1, <1>4 DEF ExecInv, TypeOK
  <2>3. (paused \in BOOLEAN /\ allowed \in BOOLEAN)'
    BY <1>1 DEF ExecInv, TypeOK
  <2>4. open' \in BOOLEAN /\ blind' \in BOOLEAN
    BY <1>1
  <2>5. plan' = plan
    BY <1>1
  <2> QED
    BY <2>1, <2>2, <2>3, <2>4, <2>5 DEF TypeOK
<1>7. Opens'
  <2> SUFFICES ASSUME x.state \in LineStates \cup TurnStates, held' = "no"
               PROVE  open'
    BY <1>3 DEF Opens
  <2>1. x.motion # "STOP"
    BY DEF Done, Switched
  <2>2. CASE x.changed
    BY <1>1, <2>1, <2>2
  <2>3. CASE ~x.changed
    <3>1. x.state = ex.state /\ held = "no"
      BY <1>1, <1>2, <2>3 DEF Base
    <3>2. open
      BY <3>1 DEF ExecInv, Opens
    <3> QED
      BY <1>1, <2>1, <3>2
  <2> QED
    BY <2>2, <2>3
<1>8. AtRest
  <2> SUFFICES ASSUME ex'.motion # "STOP"
               PROVE  ex'.gate \/ rolling \in {"STOP", ex'.motion}
    BY DEF AtRest
  <2>1. x.motion # "STOP" /\ ex'.motion = x.motion /\ ex'.gate = x.gate
    BY <1>3, <1>4
  <2>2. Since(x) \in {"STOP", x.motion}
    BY <1>2, <1>4, <2>1, MotionRolls DEF Fine
  <2> QED
    BY <2>1, <2>2 DEF Since
<1>9. CornerAtRest
  <2> SUFFICES ASSUME IsActive(ex'), ex'.seg # ex.seg
               PROVE  /\ ex'.seg = ex.seg + 1
                      /\ plan[ex.seg] = "CORNER" => ex'.gate \/ rolling = "STOP"
    BY DEF CornerAtRest
  <2>1. IsActive(x)
    BY <1>3 DEF IsActive
  <2>2. ex'.gate = x.gate /\ SegmentKept(x)
    BY <1>2, <1>3, <2>1 DEF Base
  <2> QED
    BY <1>3, <2>2 DEF SegmentKept, Since
<1>10. ReasonShape(ex)'
  <2>1. plan' = plan
    BY <1>1
  <2> QED
    BY <1>3, <2>1 DEF ReasonShape, StopReason, TurnReason
<1>11. MotionShape(ex)' /\ RollShape(ex, rolling)'
  BY <1>3, <1>5 DEF MotionShape, RollShape
<1> QED
  BY <1>6, <1>7, <1>8, <1>9, <1>10, <1>11, Zenon DEF ExecInv

\* Every step keeps the invariant, and does what the action properties say.
LEMMA ExecInit == Init => ExecInv
<1> SUFFICES ASSUME Init PROVE ExecInv
  OBVIOUS
<1>1. Context
  BY DEF Init, Context, Motions
<1>2. /\ 1 \in 1..Len(plan) /\ 0 \in 0..Len(plan) /\ 0 \in 0..MaxCorrections
      /\ 0 \in 0..MaxAttempts /\ 0 \in 0..WrongLimit - 1
  BY <1>1, PlanFacts
<1>3. TypeOK
  BY <1>2 DEF Init, TypeOK, Idle, States, StopNexts, StableNexts, Turns, Motions,
     Timers
<1>4. ReasonShape(ex) /\ MotionShape(ex) /\ RollShape(ex, rolling) /\ Opens
  BY DEF Init, Idle, ReasonShape, MotionShape, RollShape, Opens, Runs, StopStates,
     TurnStates, LineStates, ProgressStates, RecoveryStates, RestStates, Turns
<1> QED
  BY <1>3, <1>4 DEF ExecInv

\* The update of the executor, with a good estimate or without one.
LEMMA UpdateKeeps ==
  ASSUME ExecInv, Update \/ UpdateFails
  PROVE  ExecInv' /\ AtRest /\ CornerAtRest
<1>1. CASE Update
  <2>1. PICK path \in BOOLEAN, sweep \in BOOLEAN, place \in Places :
          \E x \in Outcomes(path, place, sweep) : Apply(x, sweep)
    BY <1>1 DEF Update
  <2>2. PICK x \in Outcomes(path, place, sweep) : Apply(x, sweep)
    BY <2>1
  <2>3. Done(x)
    BY <1>1, OutcomesDone DEF Update
  <2> QED
    BY <2>2, <2>3, ApplyKeeps
<1>2. CASE UpdateFails
  <2> DEFINE x == [ex EXCEPT !.motion = "STOP", !.gate = FALSE]
  <2>1. ex \in Recs /\ ex.changed = FALSE
    BY DEF ExecInv, TypeOK, Recs
  <2>2. x = Fresh
    BY <2>1 DEF Fresh, Recs
  <2>3. Done(Fail(x))
    BY <2>2, FreshInput, FailDone DEF Input, Fine
  <2>4. Apply(Fail(x), TRUE)
    BY <1>2 DEF UpdateFails
  <2> HIDE DEF x
  <2> QED
    BY <2>3, <2>4, ApplyKeeps
<1> QED
  BY <1>1, <1>2

\* A record that stops keeps what it is doing.
LEMMA StopsKeeps ==
  ASSUME ExecInv, ex' = [ex EXCEPT !.motion = "STOP", !.gate = FALSE],
         UNCHANGED <<plan, late, allowed, rolling>>,
         paused' \in BOOLEAN, open' \in BOOLEAN, blind' \in BOOLEAN,
         held' \in {"pause", "hold"}
  PROVE  ExecInv' /\ AtRest /\ CornerAtRest
<1>1. /\ ex'.state = ex.state /\ ex'.motion = "STOP" /\ ex'.direction = ex.direction
      /\ ex'.seg = ex.seg /\ ex'.stopNext = ex.stopNext
      /\ ex'.stableNext = ex.stableNext /\ ex'.attempt = ex.attempt
      /\ ex'.correcting = ex.correcting /\ ex'.corrections = ex.corrections
  BY DEF ExecInv, TypeOK
<1>2. TypeOK'
  <2>1. ex' \in [state : States, seg : 1..Len(plan), stopNext : StopNexts,
             stableNext : StableNexts, stable : BOOLEAN, gate : BOOLEAN,
             wrong : 0..WrongLimit - 1, direction : Turns,
             corrections : 0..MaxCorrections, correcting : BOOLEAN,
             recovering : BOOLEAN, recoverySeg : 0..Len(plan),
             attempt : 0..MaxAttempts, reached : BOOLEAN,
             motion : Motions, changed : {FALSE}, restarted : {{}}]
    BY DEF ExecInv, TypeOK, Motions
  <2> QED
    BY <2>1 DEF ExecInv, TypeOK
<1>3. ReasonShape(ex)'
  BY <1>1 DEF ExecInv, ReasonShape, StopReason, TurnReason, Runs
<1>4. MotionShape(ex)' /\ RollShape(ex, rolling)'
  BY <1>1 DEF ExecInv, MotionShape, RollShape, Turns
<1>5. Opens' /\ AtRest /\ CornerAtRest
  BY <1>1 DEF Opens, AtRest, CornerAtRest
<1> QED
  BY <1>2, <1>3, <1>4, <1>5 DEF ExecInv

\* A route that is started, and one that is stopped.
LEMMA StartsKeeps ==
  ASSUME ExecInv, Start \/ Stop
  PROVE  ExecInv' /\ AtRest /\ CornerAtRest
<1>1. \/ /\ ~IsActive(ex) /\ plan' \in Plans /\ late' = {} /\ paused' = FALSE
         /\ ex' = [Idle EXCEPT !.state = "VALIDATE_ROUTE"]
         /\ rolling' = "STOP" /\ held' = "no" /\ UNCHANGED <<allowed, open, blind>>
      \/ /\ ex' = Idle /\ late' = {} /\ paused' = FALSE
         /\ open' = FALSE /\ blind' = FALSE
         /\ UNCHANGED <<plan, allowed, rolling, held>>
  BY DEF Start, Stop
<1>2. /\ plan' \in Plans /\ rolling' \in Motions
      /\ paused' \in BOOLEAN /\ allowed' \in BOOLEAN /\ open' \in BOOLEAN
      /\ blind' \in BOOLEAN /\ late' \in SUBSET Timers
      /\ held' \in {"no", "pause", "hold"}
  BY <1>1 DEF ExecInv, TypeOK, Motions
<1>3. /\ 1 \in 1..Len(plan') /\ 0 \in 0..Len(plan') /\ 0 \in 0..MaxCorrections
      /\ 0 \in 0..MaxAttempts /\ 0 \in 0..WrongLimit - 1
  <2>1. plan' \in Seq(FinalTypes \cup {"PASS_THROUGH", "CORNER"}) /\ plan' # <<>>
    BY <1>2 DEF ValidPlan
  <2> QED
    BY <2>1
<1>4. /\ ex'.state \in {"IDLE", "VALIDATE_ROUTE"} /\ ex'.motion = "STOP"
      /\ ex'.state = "VALIDATE_ROUTE" => rolling' = "STOP" /\ ~IsActive(ex)
  BY <1>1 DEF Idle
<1>5. TypeOK'
  <2>1. ex' \in [state : States, seg : 1..Len(plan'), stopNext : StopNexts,
             stableNext : StableNexts, stable : BOOLEAN, gate : BOOLEAN,
             wrong : 0..WrongLimit - 1, direction : Turns,
             corrections : 0..MaxCorrections, correcting : BOOLEAN,
             recovering : BOOLEAN, recoverySeg : 0..Len(plan'),
             attempt : 0..MaxAttempts, reached : BOOLEAN,
             motion : Motions, changed : {FALSE}, restarted : {{}}]
    <3>1. ex' = [Idle EXCEPT !.state = "VALIDATE_ROUTE"] \/ ex' = Idle
      BY <1>1
    <3>2. "IDLE" \in States /\ "VALIDATE_ROUTE" \in States
      BY DEF States
    <3> DEFINE R == [state : States, seg : 1..Len(plan'), stopNext : StopNexts,
             stableNext : StableNexts, stable : BOOLEAN, gate : BOOLEAN,
             wrong : 0..WrongLimit - 1, direction : Turns,
             corrections : 0..MaxCorrections, correcting : BOOLEAN,
             recovering : BOOLEAN, recoverySeg : 0..Len(plan'),
             attempt : 0..MaxAttempts, reached : BOOLEAN,
             motion : Motions, changed : {FALSE}, restarted : {{}}]
    <3>3. Idle \in R
      BY <1>3, <3>2 DEF Idle, StopNexts, StableNexts, Turns, Motions
    <3>4. [Idle EXCEPT !.state = "VALIDATE_ROUTE"] \in R
      BY <3>2, <3>3
    <3> QED
      BY <3>1, <3>3, <3>4
  <2> QED
    BY <1>2, <2>1, Zenon DEF TypeOK
<1>6. (ReasonShape(ex) /\ MotionShape(ex) /\ RollShape(ex, rolling) /\ Opens)'
  BY <1>4 DEF ReasonShape, MotionShape, RollShape, Opens, Runs, StopStates,
     TurnStates, LineStates, ProgressStates, RecoveryStates, RestStates, Turns
<1>7. AtRest /\ CornerAtRest
  BY <1>4 DEF AtRest, CornerAtRest, IsActive
<1> QED
  BY <1>5, <1>6, <1>7 DEF ExecInv

\* Steps that leave the record as it is.
LEMMA SameKeeps ==
  ASSUME ExecInv, UNCHANGED <<plan, ex, open, rolling, held, blind>>,
         paused' \in BOOLEAN, allowed' \in BOOLEAN, late' \in SUBSET Timers
  PROVE  ExecInv' /\ AtRest /\ CornerAtRest
<1>1. TypeOK' /\ Opens'
  BY DEF ExecInv, TypeOK, Opens
<1>2. (ReasonShape(ex) /\ MotionShape(ex) /\ RollShape(ex, rolling))'
  BY DEF ExecInv, ReasonShape, StopReason, TurnReason, MotionShape, RollShape
<1>3. AtRest
  <2> SUFFICES ASSUME ex.motion # "STOP"
               PROVE  rolling \in {"STOP", ex.motion}
    BY DEF AtRest
  <2>1. ex.motion \in Motions /\ MotionShape(ex) /\ RollShape(ex, rolling)
    BY DEF ExecInv, TypeOK
  <2> QED
    BY <2>1, MotionRolls
<1>4. CornerAtRest
  BY DEF CornerAtRest
<1> QED
  BY <1>1, <1>2, <1>3, <1>4 DEF ExecInv

LEMMA ExecStep ==
  ASSUME ExecInv, [Next]_vars
  PROVE  ExecInv' /\ AtRest /\ CornerAtRest
<1>1. CASE Update \/ UpdateFails
  BY <1>1, UpdateKeeps
<1>2. CASE UpdateHeld
  <2>1. held' \in {"pause", "hold"}
    BY <1>2 DEF UpdateHeld
  <2> QED
    BY <1>2, <2>1, StopsKeeps DEF UpdateHeld, ExecInv, TypeOK
<1>3. CASE Pause
  <2>1. held' \in {"pause", "hold"}
    BY <1>3 DEF Pause
  <2> QED
    BY <1>3, <2>1, StopsKeeps DEF Pause, ExecInv, TypeOK
<1>4. CASE Start \/ Stop
  BY <1>4, StartsKeeps
<1>5. CASE Resume \/ Hold
  <2>1. /\ UNCHANGED <<plan, ex, late, open, rolling, held, blind>>
        /\ paused' \in BOOLEAN /\ allowed' \in BOOLEAN
    BY <1>5 DEF Resume, Hold, ExecInv, TypeOK
  <2>2. late' \in SUBSET Timers
    BY <2>1 DEF ExecInv, TypeOK
  <2> QED
    BY <2>1, <2>2, SameKeeps
<1>6. ASSUME NEW timer \in Timers, RunOut(timer)
      PROVE  ExecInv' /\ AtRest /\ CornerAtRest
  <2>1. /\ UNCHANGED <<plan, ex, open, rolling, held, blind>>
        /\ UNCHANGED <<paused, allowed>> /\ late' = late \cup {timer}
    BY <1>6 DEF RunOut
  <2>2. late' \in SUBSET Timers /\ paused' \in BOOLEAN /\ allowed' \in BOOLEAN
    BY <2>1 DEF ExecInv, TypeOK
  <2> QED
    BY <2>1, <2>2, SameKeeps
<1>7. CASE UNCHANGED vars
  <2>1. /\ UNCHANGED <<plan, ex, open, rolling, held, blind>>
        /\ UNCHANGED <<paused, allowed, late>>
    BY <1>7 DEF vars
  <2>2. late' \in SUBSET Timers /\ paused' \in BOOLEAN /\ allowed' \in BOOLEAN
    BY <2>1 DEF ExecInv, TypeOK
  <2> QED
    BY <2>1, <2>2, SameKeeps
<1> QED
  BY <1>1, <1>2, <1>3, <1>4, <1>5, <1>6, <1>7 DEF Next

-----------------------------------------------------------------------------
(* The theorems                                                            *)

\* The invariant holds for all routes and all limits.
THEOREM ExecutorInvariant == Spec => []ExecInv
<1>1. ExecInv /\ [Next]_vars => ExecInv'
  BY ExecStep
<1> QED
  BY <1>1, ExecInit, PTL DEF Spec

\* Every variable has its type: no counter passes the limit at which the route is
\* given up, and no segment lies behind the last (RouteExecutor.cpp:892 and 968).
THEOREM ExecutorTypes == Spec => []TypeOK
<1>1. ExecInv => TypeOK
  BY DEF ExecInv
<1> QED
  BY <1>1, ExecutorInvariant, PTL

\* A motion other than the last is commanded only when the wheels were seen at
\* rest in between (RouteExecutor.cpp:1504).
THEOREM ExecutorModeChanges == Spec => ModeChangesAtRest
<1>1. ExecInv /\ [Next]_vars
        => [ex'.motion # "STOP" => ex'.gate \/ rolling \in {"STOP", ex'.motion}]_vars
  BY ExecStep DEF AtRest
<1> QED
  BY <1>1, ExecutorInvariant, PTL DEF Spec, ModeChangesAtRest

\* Segments are taken one by one, and a corner is left at rest
\* (RouteExecutor.cpp:1411).
THEOREM ExecutorCornerStops == Spec => CornerStops
<1>1. ExecInv /\ [Next]_vars
        => [(IsActive(ex) /\ IsActive(ex') /\ ex'.seg # ex.seg)
             => /\ ex'.seg = ex.seg + 1
                /\ plan[ex.seg] = "CORNER" => ex'.gate \/ rolling = "STOP"]_vars
  BY ExecStep DEF CornerAtRest
<1> QED
  BY <1>1, ExecutorInvariant, PTL DEF Spec, CornerStops

\* A route that is not held has the motor opened for the motion it commands
\* (rover.cpp:2816).
THEOREM ExecutorMotionReopens == Spec => []MotionReopens
<1>1. ExecInv => MotionReopens
  <2> SUFFICES ASSUME ExecInv, ex.motion \notin {"STOP", "REVERSE"}, held = "no"
               PROVE  open
    BY DEF MotionReopens
  <2>1. ex.state \in LineStates \cup TurnStates
    BY DEF ExecInv, TypeOK, MotionShape, Motions
  <2> QED
    BY <2>1 DEF ExecInv, Opens
<1> QED
  BY <1>1, ExecutorInvariant, PTL

=============================================================================
