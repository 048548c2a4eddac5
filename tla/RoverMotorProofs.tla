-------------------------- MODULE RoverMotorProofs --------------------------
(***************************************************************************)
(* Proofs about the motor driver of the rover, for any number of callers,  *)
(* sources and speeds: the inductive invariant, and that the driver        *)
(* implements MotorInterlock.                                              *)
(***************************************************************************)
EXTENDS RoverMotor, TLAPS

USE DEF Speeds, vars, mvars, gvars, tvars

\* The slew never leaves the range of speeds and moves one step.
LEMMA SlewBounds ==
  ASSUME NEW from \in Speeds, NEW to \in Speeds
  PROVE  /\ Slew(from, to) \in Speeds
         /\ Slew(from, to) - from \in {-1, 0, 1}
         /\ Slew(from, to) # 0 => from # 0 \/ to # 0
BY TopAssumption, SMT DEF Slew

\* What a frame carries under the invariant.
LEMMA NextSpeedBounds ==
  ASSUME Inductive, pc = "send"
  PROVE  /\ NextSpeed \in Speeds
         /\ NextSpeed # 0 => ~zeroLatch /\ driven
         /\ zeroLatch => NextSpeed = 0
         /\ NextSpeed # 0 => NextSpeed - frame \in {-1, 0, 1}
<1>1. /\ snap.cmd \in Speeds /\ snap.target \in Speeds /\ cmd \in Speeds
      /\ frame \in Speeds
  BY DEF Inductive, TypeOK, SpeedsOK
<1>2. CASE zeroLatch
  BY <1>2, TopAssumption DEF NextSpeed
<1>3. CASE ~zeroLatch /\ stale
  BY <1>1, <1>3 DEF NextSpeed, Inductive, MovesOnlyDriven, FrameIsCmd
<1>4. CASE ~zeroLatch /\ ~stale /\ snap.latched
  BY <1>4, TopAssumption DEF NextSpeed, Slewed
<1>5. CASE ~zeroLatch /\ ~stale /\ ~snap.latched
  <2>1. NextSpeed = Slew(snap.cmd, snap.target)
    BY <1>5 DEF NextSpeed, Slewed
  <2>2. snap.cmd = cmd /\ (snap.target # 0 => driven) /\ frame = cmd
    BY <1>5 DEF Inductive, SnapshotGood, FrameIsCmd
  <2>3. cmd # 0 => driven
    BY DEF Inductive, MovesOnlyDriven
  <2> QED BY <1>1, <1>5, <2>1, <2>2, <2>3, SlewBounds
<1> QED BY <1>2, <1>3, <1>4, <1>5

\* The invariant holds at boot.
LEMMA MotorInitInductive == Init => Inductive
<1> SUFFICES ASSUME Init PROVE Inductive
  OBVIOUS
<1>1. FlagsOK /\ NamesOK
  BY DEF Init, FlagsOK, NamesOK
<1>3. SpeedsOK
  BY TopAssumption DEF Init, NoSnap, SpeedsOK
<1>2. AtRest /\ MovesOnlyDriven /\ SnapshotGood /\ FrameIsCmd
  BY DEF Init, NoSnap, AtRest, MovesOnlyDriven, SnapshotGood, FrameIsCmd
<1> QED BY <1>1, <1>2, <1>3 DEF Inductive, TypeOK

\* The calls of the other tasks keep the invariant.
LEMMA CallersInductive == Inductive /\ Callers => Inductive'
<1> SUFFICES ASSUME Inductive, Callers PROVE Inductive'
  OBVIOUS
<1> USE DEF Touch
<1>1. ASSUME NEW t \in Tokens, NEW s \in Sources, AuthorizeMotionCommand(t, s)
      PROVE  Inductive'
  <2> USE <1>1 DEF AuthorizeMotionCommand
  <2>1. CASE Granted(t, s)
    <3>6. FlagsOK' /\ NamesOK'
      BY <2>1 DEF Granted, Inductive, TypeOK, FlagsOK, NamesOK
    <3>1. UNCHANGED <<frame, target, cmd, snap>>
      BY <2>1 DEF Granted
    <3>7. SpeedsOK'
      BY <3>1 DEF Inductive, TypeOK, SpeedsOK
    <3>8. AtRest' /\ MovesOnlyDriven' /\ SnapshotGood' /\ FrameIsCmd'
      BY <2>1 DEF Granted, Inductive, TypeOK, AtRest,
         MovesOnlyDriven, SnapshotGood, FrameIsCmd
    <3> QED BY <3>6, <3>7, <3>8 DEF Inductive, TypeOK
  <2>2. CASE Denied(t, s)
    <3>6. FlagsOK' /\ NamesOK'
      BY <2>2 DEF Denied, Inductive, TypeOK, FlagsOK, NamesOK
    <3>7. SpeedsOK'
      BY <2>2 DEF Denied, Inductive, TypeOK, SpeedsOK
    <3>8. AtRest' /\ MovesOnlyDriven' /\ SnapshotGood' /\ FrameIsCmd'
      BY <2>2 DEF Denied, Inductive, TypeOK, AtRest,
         MovesOnlyDriven, SnapshotGood, FrameIsCmd
    <3> QED BY <3>6, <3>7, <3>8 DEF Inductive, TypeOK
  <2> QED BY <2>1, <2>2
<1>2. ASSUME NEW t \in Tokens, NEW v \in Speeds, SetSpeed(t, v)
      PROVE  Inductive'
  <2>6. FlagsOK' /\ NamesOK'
    BY <1>2 DEF SetSpeed, Accepts, Inductive, TypeOK, FlagsOK, NamesOK
  <2>7. SpeedsOK'
    BY <1>2 DEF SetSpeed, Accepts, Inductive, TypeOK, SpeedsOK
  <2>8. AtRest' /\ MovesOnlyDriven' /\ SnapshotGood' /\ FrameIsCmd'
    BY <1>2 DEF SetSpeed, Accepts, Inductive, TypeOK, AtRest,
       MovesOnlyDriven, SnapshotGood, FrameIsCmd
  <2> QED BY <2>6, <2>7, <2>8 DEF Inductive, TypeOK
<1>3. ASSUME NEW t \in Tokens, RefreshMotionAuthorization(t)
      PROVE  Inductive'
  <2>6. FlagsOK' /\ NamesOK'
    BY <1>3 DEF RefreshMotionAuthorization, Inductive, TypeOK, FlagsOK, NamesOK
  <2>7. SpeedsOK'
    BY <1>3 DEF RefreshMotionAuthorization, Inductive, TypeOK, SpeedsOK
  <2>8. AtRest' /\ MovesOnlyDriven' /\ SnapshotGood' /\ FrameIsCmd'
    BY <1>3 DEF RefreshMotionAuthorization, Inductive, TypeOK, AtRest,
       MovesOnlyDriven, SnapshotGood, FrameIsCmd
  <2> QED BY <2>6, <2>7, <2>8 DEF Inductive, TypeOK
<1>4. CASE StopImmediately
  <2>6. FlagsOK' /\ NamesOK'
    BY <1>4, TopAssumption DEF StopImmediately, Closed, Inductive, TypeOK, FlagsOK, NamesOK
  <2>7. SpeedsOK'
    BY <1>4, TopAssumption DEF StopImmediately, Closed, Inductive, TypeOK, SpeedsOK
  <2>8. AtRest' /\ MovesOnlyDriven' /\ SnapshotGood' /\ FrameIsCmd'
    BY <1>4, TopAssumption DEF StopImmediately, Closed, Inductive, TypeOK, AtRest,
       MovesOnlyDriven, SnapshotGood, FrameIsCmd
  <2> QED BY <2>6, <2>7, <2>8 DEF Inductive, TypeOK
<1> QED BY <1>1, <1>2, <1>3, <1>4 DEF Callers

\* The TX task keeps the invariant.
LEMMA TxTaskInductive == Inductive /\ TxTask => Inductive'
<1> SUFFICES ASSUME Inductive, TxTask PROVE Inductive'
  OBVIOUS
<1>1. CASE TxBegin
  <2>6. FlagsOK' /\ NamesOK'
    BY <1>1 DEF TxBegin, Inductive, TypeOK, FlagsOK, NamesOK
  <2>7. SpeedsOK'
    BY <1>1 DEF TxBegin, Inductive, TypeOK, SpeedsOK
  <2>8. AtRest' /\ MovesOnlyDriven' /\ SnapshotGood' /\ FrameIsCmd'
    BY <1>1 DEF TxBegin, Inductive, TypeOK, AtRest,
       MovesOnlyDriven, SnapshotGood, FrameIsCmd
  <2> QED BY <2>6, <2>7, <2>8 DEF Inductive, TypeOK
<1>2. CASE TxSnapshot
  <2> USE <1>2, TopAssumption
  <2>1. pc' \in {"forced", "send"}
    BY DEF TxSnapshot
  <2>3. PICK v \in {0, target} :
          snap' = [latched |-> zeroLatch, target |-> v, cmd |-> cmd]
    BY DEF TxSnapshot
  <2>4. /\ zeroLatch \in BOOLEAN /\ v \in Speeds
        /\ frame \in Speeds /\ target \in Speeds /\ cmd \in Speeds
    BY DEF Inductive, TypeOK, FlagsOK, SpeedsOK
  <2>2. /\ stale' = FALSE
        /\ UNCHANGED <<gvars, mvars, since>>
    BY DEF TxSnapshot
  <2>6. FlagsOK' /\ NamesOK'
    BY <2>1, <2>2 DEF Inductive, TypeOK, FlagsOK, NamesOK
  <2>7. SpeedsOK'
    BY <2>2, <2>3, <2>4, Zenon DEF SpeedsOK
  <2>8. AtRest' /\ MovesOnlyDriven'
    BY <2>2 DEF Inductive, AtRest, MovesOnlyDriven
  <2>9. SnapshotGood' /\ FrameIsCmd'
    <3>1. /\ snap'.latched = zeroLatch /\ snap'.target = v /\ snap'.cmd = cmd
          /\ zeroLatch => target = 0 /\ cmd = 0
          /\ target # 0 => driven
      BY <2>3 DEF Inductive, AtRest, MovesOnlyDriven
    <3>2. frame = cmd \/ (cmd = 0 /\ pc = "send")
      BY DEF Inductive, FrameIsCmd
    <3> QED BY <2>2, <2>3, <3>1, <3>2 DEF SnapshotGood, FrameIsCmd, TxSnapshot
  <2> QED BY <2>6, <2>7, <2>8, <2>9 DEF Inductive, TypeOK
<1>3. CASE TxForcedZero
  <2>6. FlagsOK' /\ NamesOK'
    BY <1>3, TopAssumption DEF TxForcedZero, Closed, Inductive, TypeOK, FlagsOK, NamesOK
  <2>7. SpeedsOK'
    BY <1>3, TopAssumption DEF TxForcedZero, Closed, Inductive, TypeOK, SpeedsOK
  <2>8. AtRest' /\ MovesOnlyDriven' /\ SnapshotGood' /\ FrameIsCmd'
    BY <1>3, TopAssumption DEF TxForcedZero, Closed, Inductive, TypeOK, AtRest,
       MovesOnlyDriven, SnapshotGood, FrameIsCmd
  <2> QED BY <2>6, <2>7, <2>8 DEF Inductive, TypeOK
<1>4. CASE TxForcedKept
  <2>6. FlagsOK' /\ NamesOK'
    BY <1>4 DEF TxForcedKept, Inductive, TypeOK, FlagsOK, NamesOK
  <2>7. SpeedsOK'
    BY <1>4 DEF TxForcedKept, Inductive, TypeOK, SpeedsOK
  <2>8. AtRest' /\ MovesOnlyDriven' /\ SnapshotGood' /\ FrameIsCmd'
    BY <1>4 DEF TxForcedKept, Inductive, TypeOK, AtRest,
       MovesOnlyDriven, SnapshotGood, FrameIsCmd
  <2> QED BY <2>6, <2>7, <2>8 DEF Inductive, TypeOK
<1>5. CASE TxSend
  <2>1. /\ NextSpeed \in Speeds
        /\ NextSpeed # 0 => ~zeroLatch /\ driven
        /\ zeroLatch => NextSpeed = 0
    BY <1>5, NextSpeedBounds DEF TxSend
  <2>2. /\ cmd' = NextSpeed /\ frame' = NextSpeed
        /\ pc' = "idle" /\ since' = FALSE /\ stale' = FALSE /\ snap' = NoSnap
        /\ UNCHANGED <<zeroLatch, epoch, source, driven, target, enabled, aged,
                       feedback, fault>>
    BY <1>5 DEF TxSend
  <2>6. FlagsOK' /\ NamesOK'
    BY <2>1, <2>2, TopAssumption DEF NoSnap, Inductive, TypeOK, FlagsOK, NamesOK
  <2>7. SpeedsOK'
    BY <2>1, <2>2, TopAssumption DEF NoSnap, Inductive, TypeOK, SpeedsOK
  <2>8. AtRest' /\ MovesOnlyDriven' /\ SnapshotGood' /\ FrameIsCmd'
    BY <2>1, <2>2, TopAssumption DEF NoSnap, Inductive, TypeOK, AtRest,
       MovesOnlyDriven, SnapshotGood, FrameIsCmd
  <2> QED BY <2>6, <2>7, <2>8 DEF Inductive, TypeOK
<1> QED BY <1>1, <1>2, <1>3, <1>4, <1>5 DEF TxTask

\* Every step keeps the invariant.
LEMMA MotorStepInductive ==
  Inductive /\ [Next]_vars => Inductive'
<1> SUFFICES ASSUME Inductive, [Next]_vars PROVE Inductive'
  OBVIOUS
<1>1. CASE Age \/ ReceiveFeedback \/ InvalidCommand
  <2>1. ASSUME Age PROVE FlagsOK' /\ NamesOK'
    BY <2>1 DEF Age, Inductive, TypeOK, FlagsOK, NamesOK
  <2>2. ASSUME ReceiveFeedback PROVE FlagsOK' /\ NamesOK'
    BY <2>2 DEF ReceiveFeedback, Inductive, TypeOK, FlagsOK, NamesOK
  <2>3. ASSUME InvalidCommand PROVE FlagsOK' /\ NamesOK'
    BY <2>3 DEF InvalidCommand, Inductive, TypeOK, FlagsOK, NamesOK
  <2>6. FlagsOK' /\ NamesOK'
    BY <1>1, <2>1, <2>2, <2>3
  <2>7. SpeedsOK'
    BY <1>1 DEF Age, ReceiveFeedback, InvalidCommand, Inductive, TypeOK, SpeedsOK
  <2>8. AtRest' /\ MovesOnlyDriven' /\ SnapshotGood' /\ FrameIsCmd'
    BY <1>1 DEF Age, ReceiveFeedback, InvalidCommand, Inductive, TypeOK, AtRest,
       MovesOnlyDriven, SnapshotGood, FrameIsCmd
  <2> QED BY <2>6, <2>7, <2>8 DEF Inductive, TypeOK
<1>2. CASE UNCHANGED vars
  <2>6. FlagsOK' /\ NamesOK'
    BY <1>2 DEF Inductive, TypeOK, FlagsOK, NamesOK
  <2>7. SpeedsOK'
    BY <1>2 DEF Inductive, TypeOK, SpeedsOK
  <2>8. AtRest' /\ MovesOnlyDriven' /\ SnapshotGood' /\ FrameIsCmd'
    BY <1>2 DEF Inductive, TypeOK, AtRest,
       MovesOnlyDriven, SnapshotGood, FrameIsCmd
  <2> QED BY <2>6, <2>7, <2>8 DEF Inductive, TypeOK
<1> QED BY <1>1, <1>2, CallersInductive, TxTaskInductive DEF Next

\* The state of the driver stays what lib/Motor/src/Motor.cpp relies on: a
\* closed zeroLatch leaves no token, target or slew behind, and the snapshot of the
\* TX task is either current or known to be stale.
THEOREM MotorInvariant == Spec => []Inductive
BY MotorInitInductive, MotorStepInductive, PTL DEF Spec

\* A step of the driver is a step of the interlock, or none.
LEMMA MotorStepImplements ==
  Inductive /\ [Next]_vars => [Interlock!Next]_(Interlock!ivars)
<1> SUFFICES ASSUME Inductive, Next
             PROVE  Interlock!Next \/ UNCHANGED gvars
  BY DEF Interlock!ivars
<1> USE DEF Interlock!Next, Interlock!Authorize, Interlock!Granted,
            Interlock!Denied, Interlock!CanAuthorize, Interlock!Drive,
            Interlock!Accepts, Interlock!HardZero, Interlock!Closed,
            Interlock!Frame, Interlock!Speeds
<1>1. ASSUME NEW t \in Tokens, NEW s \in Sources, AuthorizeMotionCommand(t, s)
      PROVE  Interlock!Next
  BY <1>1 DEF AuthorizeMotionCommand, Granted, Denied
<1>2. ASSUME NEW t \in Tokens, NEW v \in Speeds, SetSpeed(t, v)
      PROVE  Interlock!Next \/ UNCHANGED gvars
  <2>1. CASE driven' = TRUE
    BY <1>2, <2>1 DEF SetSpeed, Accepts
  <2>2. CASE driven' # TRUE
    BY <1>2, <2>2 DEF SetSpeed, Accepts, Inductive, TypeOK, FlagsOK
  <2> QED BY <2>1, <2>2
<1>3. CASE StopImmediately
  BY <1>3 DEF StopImmediately, Closed
<1>4. CASE TxForcedZero
  BY <1>4 DEF TxForcedZero, Closed
<1>5. CASE TxSend
  <2>1. /\ NextSpeed \in Speeds
        /\ NextSpeed # 0 => ~zeroLatch /\ driven
        /\ NextSpeed # 0 => NextSpeed - frame \in {-1, 0, 1}
    BY <1>5, NextSpeedBounds DEF TxSend
  <2> QED BY <1>5, <2>1 DEF TxSend
<1>6. ASSUME NEW t \in Tokens, RefreshMotionAuthorization(t)
      PROVE  UNCHANGED gvars
  BY <1>6 DEF RefreshMotionAuthorization
<1>7. CASE TxBegin \/ TxSnapshot \/ TxForcedKept
  BY <1>7 DEF TxBegin, TxSnapshot, TxForcedKept
<1>8. CASE Age \/ ReceiveFeedback \/ InvalidCommand
  BY <1>8 DEF Age, ReceiveFeedback, InvalidCommand
<1> QED BY <1>1, <1>2, <1>3, <1>4, <1>5, <1>6, <1>7, <1>8
    DEF Next, Callers, TxTask

\* The driver implements the interlock: no frame moves after a hard zero until
\* an epoch is opened and commanded anew, whatever the TX task had copied.
THEOREM MotorImplementsInterlock == Spec => ImplementsInterlock
<1>1. Init => Interlock!Init
  BY DEF Init, Interlock!Init
<1> QED BY <1>1, MotorInvariant, MotorStepImplements, PTL
    DEF Spec, ImplementsInterlock, Interlock!Spec

=============================================================================
