----------------------------- MODULE RoverMotor -----------------------------
(***************************************************************************)
(* lib/Motor: the hoverboard driver of the rover.  The main loop and the   *)
(* network task call it, the TX task on the other core sends a frame every *)
(* 20 ms and is the last to stop the wheels: lost feedback, a fault and a  *)
(* command too old are hard zeros of its own.                              *)
(*                                                                         *)
(* A step is one critical section of _mux.  The TX task takes its clock    *)
(* before it takes a snapshot, decides on the snapshot, decides again      *)
(* under the lock, and sends: other tasks run in between.  Callers may     *)
(* call in any order, which is more than the program does.  The two axes   *)
(* of a frame are one speed without direction.                             *)
(***************************************************************************)
EXTENDS Integers

CONSTANTS
  Tokens,    \* the variables of the program that hold an authorization
  NoToken,   \* no variable holds the current one
  Sources,   \* the names under which authority is asked for
  NoSource,  \* "none"
  Top        \* the highest speed, in steps of the slew

ASSUME TokenAssumption == NoToken \notin Tokens
ASSUME SourceAssumption == NoSource \notin Sources
ASSUME TopAssumption == Top \in Nat \ {0}

Speeds == 0..Top

VARIABLES
  zeroLatch, \* MotorCommandGuard: zeroLatchActive
  epoch,     \* the token equal to authorizationEpoch
  source,    \* _commandSource
  frame,     \* speed in the last frame sent
  driven,    \* history: a command that moves since the last hard zero
  target,    \* _targetSpeed, _targetSteer
  cmd,       \* _cmdSpeed, _cmdSteer: where the slew has got to
  enabled,   \* _enabled: a command was accepted since boot
  aged,      \* _lastSetMs is more than _commandTimeoutMs ago
  feedback,  \* the last frame of the hoverboard is recent
  fault,     \* _hardwareFault or _commandFault; nothing clears them
  pc,        \* the TX task
  since,     \* _lastSetMs was written since the TX task read its clock
  stale,     \* _commandGeneration changed since its snapshot
  snap       \* the snapshot, with the zeros decided on it

gvars == <<zeroLatch, epoch, source, driven, frame>>

mvars == <<target, cmd, enabled, aged, feedback, fault>>

tvars == <<pc, since, stale, snap>>

vars == <<gvars, mvars, tvars>>

NoSnap == [latched |-> FALSE, target |-> 0, cmd |-> 0]

Init ==
  /\ zeroLatch = TRUE /\ epoch = NoToken /\ source = NoSource
  /\ driven = FALSE /\ frame = 0
  /\ target = 0 /\ cmd = 0
  /\ enabled = FALSE /\ aged = FALSE
  /\ feedback = FALSE /\ fault = FALSE
  /\ pc = "idle" /\ since = FALSE /\ stale = FALSE /\ snap = NoSnap

\* _lastSetMs = millis(), with or without a new _commandGeneration.
Touch(generation) ==
  /\ aged' = FALSE
  /\ since' = (pc # "idle")
  /\ stale' = (stale \/ (generation /\ pc # "idle"))
  /\ UNCHANGED <<pc, snap>>

-----------------------------------------------------------------------------
(* The callers                                                             *)

\* A closed latch is anybody's, an open one belongs to the source that opened
\* it.  authorize() voids every older token.
Granted(t, s) ==
  /\ zeroLatch \/ source = s
  /\ zeroLatch' = FALSE
  /\ epoch' = t
  /\ source' = s
  /\ Touch(FALSE)

\* The caller stores the zero it is given over its token.
Denied(t, s) ==
  /\ ~zeroLatch /\ source # s
  /\ epoch' = IF epoch = t THEN NoToken ELSE epoch
  /\ UNCHANGED <<zeroLatch, source, aged, tvars>>

AuthorizeMotionCommand(t, s) ==
  /\ Granted(t, s) \/ Denied(t, s)
  /\ UNCHANGED <<driven, frame, target, cmd, enabled, feedback, fault>>

\* MotorCommandGuard::apply.
Accepts(t) == ~zeroLatch /\ epoch = t

\* MotorCommandGuard::hardZero, and the source that goes with the epoch.  One
\* that finds the latch closed has no epoch to void.
Closed ==
  /\ zeroLatch' = TRUE
  /\ epoch' = NoToken
  /\ source' = NoSource
  /\ driven' = FALSE

\* setManualPercent and setLinearAngularSpeed.
SetSpeed(t, v) ==
  /\ Accepts(t)
  /\ driven' = (driven \/ v # 0)
  /\ target' = v
  /\ enabled' = TRUE
  /\ Touch(TRUE)
  /\ UNCHANGED <<zeroLatch, epoch, source, frame, cmd, feedback, fault>>

RefreshMotionAuthorization(t) ==
  /\ Accepts(t)
  /\ Touch(FALSE)
  /\ UNCHANGED <<gvars, target, cmd, enabled, feedback, fault>>

\* Mutant: a stop keeps the command generation.
StopKeepsGeneration ==
  /\ Closed
  /\ frame' = IF zeroLatch THEN frame ELSE 0
  /\ target' = 0 /\ cmd' = 0
  /\ Touch(FALSE)
  /\ UNCHANGED <<enabled, feedback, fault>>

\* The zero frame goes out in the critical section that closes the epoch.
StopImmediately ==
  /\ Closed
  /\ frame' = IF zeroLatch THEN frame ELSE 0
  /\ target' = 0 /\ cmd' = 0
  /\ Touch(TRUE)
  /\ UNCHANGED <<enabled, feedback, fault>>

-----------------------------------------------------------------------------
(* The TX task                                                             *)

\* Why the TX task stops the wheels.  The clock it compares with was read
\* before a command that came since: the unsigned difference then wraps, unless
\* both fall in one millisecond.
Silent(tgt) == enabled /\ (tgt # 0 \/ cmd # 0) /\ ~feedback
Expired(wraps) == enabled /\ (aged \/ (since /\ wraps))

\* Mutant: the age of the command is not looked at.
MustStopOnFault(tgt, wraps) == Silent(tgt) \/ fault

MustStop(tgt, wraps) == Silent(tgt) \/ fault \/ Expired(wraps)

TxBegin ==
  /\ pc = "idle"
  /\ pc' = "begun"
  /\ since' = FALSE
  /\ UNCHANGED <<gvars, mvars, stale, snap>>

TxSnapshot ==
  /\ pc = "begun"
  /\ \E wraps \in BOOLEAN :
       LET forced == MustStop(target, wraps) IN
       /\ pc' = IF forced THEN "forced" ELSE "send"
       /\ snap' = [latched |-> zeroLatch,
                   target |-> IF forced THEN 0 ELSE target, cmd |-> cmd]
  /\ stale' = FALSE
  /\ UNCHANGED <<gvars, mvars, since>>

\* Decided again under the lock, with the clock of the first decision.
TxForcedZero ==
  /\ pc = "forced"
  /\ ~zeroLatch
  /\ \E wraps \in BOOLEAN : MustStop(target, wraps)
  /\ Closed
  /\ target' = 0 /\ cmd' = 0
  /\ pc' = "send"
  /\ stale' = FALSE
  /\ snap' = [latched |-> TRUE, target |-> 0, cmd |-> 0]
  /\ UNCHANGED <<frame, enabled, aged, feedback, fault, since>>

\* A command that came since saves the wheels.
TxForcedKept ==
  /\ pc = "forced"
  /\ zeroLatch \/ \E wraps \in BOOLEAN : ~MustStop(target, wraps)
  /\ pc' = "send"
  /\ UNCHANGED <<gvars, mvars, since, stale, snap>>

\* slewToward, one step a frame.
Slew(from, to) ==
  IF to > from THEN from + 1 ELSE IF to < from THEN from - 1 ELSE from

Slewed == IF snap.latched THEN 0 ELSE Slew(snap.cmd, snap.target)

\* Mutant: the snapshot is sent whatever happened since.
NextSpeedOfSnapshot == IF zeroLatch THEN 0 ELSE Slewed

\* The speed a frame carries: the slew of the snapshot, unless the driver was
\* stopped or commanded since the snapshot.
NextSpeed ==
  IF zeroLatch THEN 0
  ELSE IF stale THEN cmd ELSE Slewed

TxSend ==
  /\ pc = "send"
  /\ cmd' = NextSpeed
  /\ frame' = NextSpeed
  /\ pc' = "idle"
  /\ since' = FALSE /\ stale' = FALSE /\ snap' = NoSnap
  /\ UNCHANGED <<zeroLatch, epoch, source, driven, target, enabled, aged,
                 feedback, fault>>

-----------------------------------------------------------------------------
(* The hoverboard and time                                                 *)

Age ==
  /\ aged' = TRUE
  /\ UNCHANGED <<gvars, target, cmd, enabled, feedback, fault, tvars>>

\* receiveFeedback: a frame arrives, perhaps with a reading out of range, or
\* none does for too long.
ReceiveFeedback ==
  /\ feedback' \in BOOLEAN
  /\ fault' \in {fault, fault \/ feedback'}
  /\ UNCHANGED <<gvars, target, cmd, enabled, aged, tvars>>

\* A speed that is not finite; StopImmediately follows in the code.
InvalidCommand ==
  /\ fault' = TRUE
  /\ UNCHANGED <<gvars, target, cmd, enabled, aged, feedback, tvars>>

-----------------------------------------------------------------------------
Callers ==
  \/ \E t \in Tokens, s \in Sources : AuthorizeMotionCommand(t, s)
  \/ \E t \in Tokens, v \in Speeds : SetSpeed(t, v)
  \/ \E t \in Tokens : RefreshMotionAuthorization(t)
  \/ StopImmediately

TxTask == TxBegin \/ TxSnapshot \/ TxForcedZero \/ TxForcedKept \/ TxSend

Next == Callers \/ TxTask \/ Age \/ ReceiveFeedback \/ InvalidCommand

Spec == Init /\ [][Next]_vars

\* The TX task runs every 20 ms on its own core, at a priority above the rest.
FairSpec == Spec /\ WF_vars(TxTask)

-----------------------------------------------------------------------------
(* Properties                                                              *)

FlagsOK ==
  /\ zeroLatch \in BOOLEAN /\ driven \in BOOLEAN
  /\ enabled \in BOOLEAN /\ aged \in BOOLEAN
  /\ feedback \in BOOLEAN /\ fault \in BOOLEAN
  /\ since \in BOOLEAN /\ stale \in BOOLEAN

NamesOK ==
  /\ epoch \in Tokens \cup {NoToken}
  /\ source \in Sources \cup {NoSource}
  /\ pc \in {"idle", "begun", "forced", "send"}

SpeedsOK ==
  /\ frame \in Speeds /\ target \in Speeds /\ cmd \in Speeds
  /\ snap \in [latched : BOOLEAN, target : Speeds, cmd : Speeds]

TypeOK == FlagsOK /\ NamesOK /\ SpeedsOK

\* A closed zeroLatch means that nothing is left of the epoch it closed, for any
\* task to find.
AtRest ==
  zeroLatch => /\ epoch = NoToken /\ source = NoSource
           /\ target = 0 /\ cmd = 0 /\ ~driven

\* Nobody moves the wheels without a command accepted since the last zero.
MovesOnlyDriven == target # 0 \/ cmd # 0 => driven

\* What the TX task may do with its snapshot: as long as no command came since,
\* it agrees with what the driver holds.
SnapshotGood ==
  /\ pc \in {"forced", "send"} /\ ~stale =>
       /\ snap.cmd = cmd
       /\ snap.target # 0 => driven
  /\ snap.latched => snap.target = 0 /\ snap.cmd = 0

\* The last frame and the slew agree, except between the hard zero that the TX
\* task decides and the zero frame it then sends.
FrameIsCmd ==
  frame = cmd \/ (cmd = 0 /\ pc = "send" /\ snap.latched)

\* The inductive invariant of the driver (lib/Motor/src/Motor.cpp loop and
\* stopImmediately).
Inductive ==
  TypeOK /\ AtRest /\ MovesOnlyDriven /\ SnapshotGood /\ FrameIsCmd

\* The driver keeps the promises of MotorInterlock: whatever the TX task had
\* in its snapshot when the driver was stopped, and however soon another task
\* opens a new epoch, no frame moves before that epoch's first command, and
\* none skips a step of the slew (Motor.cpp:361 to 388).
Interlock == INSTANCE MotorInterlock
  WITH latch <- zeroLatch, holder <- epoch, wire <- frame
ImplementsInterlock == Interlock!Spec

\* A command too old stops the wheels: the TX task does not rely on any other
\* task to notice (Motor.cpp:301).
SilenceStopsWheels == (aged /\ enabled) ~> (frame = 0 \/ ~aged)

\* What the comment at Motor.cpp:315 says: a command that raced with the
\* snapshot cancels a stale timeout decision, so a hard zero of the TX task has
\* a reason that still stands.
ZeroHasReason == [][TxForcedZero => fault \/ Silent(target) \/ aged]_vars

=============================================================================
