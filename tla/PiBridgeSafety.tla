--------------------------- MODULE PiBridgeSafety ---------------------------
(***************************************************************************)
(* The class SafetyMachine of rtk_firmware/lib/PiBridgeCore: one operator  *)
(* per method.  The object is a record m; a method that changes it is an   *)
(* operator from the old record to the new one, and the condition under    *)
(* which it answers AckResult::OK is an operator named ...OK.  A method    *)
(* runs inside one critical section of pi_bridge.cpp, so a module that     *)
(* uses these operators applies each of them in one step.                  *)
(*                                                                         *)
(* Data the properties cannot tell apart is abstracted:                    *)
(*  - target and applied stand for the (left, right) pairs of wheel        *)
(*    percentages, as one number;                                          *)
(*  - ref_ms is the reference of the command watchdog, i.e. _last_cmd_ms   *)
(*    once a command was accepted since ARM and _armed_ms before that;     *)
(*  - hz is TRUE when _hard_zero_generation differs from the generation    *)
(*    the motor task observed last (the counter is only ever compared for  *)
(*    equality, and hardZero never leaves it unchanged);                   *)
(*  - of the motion limits only the command timeout is kept.               *)
(*                                                                         *)
(* An operator marked "Mutant of X" is X with a plausible mistake; a run   *)
(* that uses it in the place of X must fail.                               *)
(***************************************************************************)
EXTENDS Integers

CONSTANTS
  ClockMod,          \* number of values of millis(): 2^32 in the firmware
  HeartbeatTimeout,  \* kHeartbeatTimeoutMs
  HardCmdTimeout,    \* kHardMaxCommandTimeoutMs
  RampRate           \* largest change of the applied percentage per clock unit

ASSUME ClockModAssumption == ClockMod \in Nat \ {0}
ASSUME HeartbeatTimeoutAssumption == HeartbeatTimeout \in Nat \ {0}
ASSUME HardCmdTimeoutAssumption == HardCmdTimeout \in Nat \ {0}
ASSUME RampRateAssumption == RampRate \in Nat \ {0}

EspStates == {"BOOT", "DISCONNECTED", "DISARMED", "ARMED", "FAULT", "ESTOP"}

FaultCodes == {"NONE", "CMD_VEL_TIMEOUT", "MOTOR_FEEDBACK_LOST",
               "MOTOR_CONTROLLER_FAULT"}

ControlModes == {"INACTIVE", "MANUAL", "AUTO"}

Millis == 0 .. ClockMod - 1

\* uint32 arithmetic on time stamps.
NextMilli(t) == IF t = ClockMod - 1 THEN 0 ELSE t + 1

Age(now, then) == IF now >= then THEN now - then ELSE now - then + ClockMod

\* MotorHealth as tick reads it: a controller fault counts before the age of
\* the feedback.  ARM and the resets read one more fact, passed to them as
\* at_rest: fresh feedback, no controller fault, wheels and output at zero.
MotorHealth == {"ok", "lost", "controller_fault"}

\* The type of the object.  It is stated field by field, which the provers
\* handle better than membership in a set of records.
SafetyMachine(m) ==
  /\ DOMAIN m = {"state", "fault", "handshake", "estop", "mode", "target",
                 "applied", "last_ramp_ms", "ref_ms", "last_heartbeat_ms",
                 "timeout", "limit", "last_nonce", "hz"}
  /\ m.state \in EspStates /\ m.fault \in FaultCodes
  /\ m.handshake \in BOOLEAN /\ m.estop \in BOOLEAN
  /\ m.mode \in ControlModes
  /\ m.target \in Int /\ m.applied \in Int
  /\ m.last_ramp_ms \in Millis /\ m.ref_ms \in Millis
  /\ m.last_heartbeat_ms \in Millis
  /\ m.timeout \in 1 .. HardCmdTimeout /\ m.limit \in 1 .. HardCmdTimeout
  /\ m.last_nonce \in Nat
  /\ m.hz \in BOOLEAN

\* The object as its constructor leaves it.
NewMachine ==
  [state |-> "BOOT", fault |-> "NONE", handshake |-> FALSE, estop |-> FALSE,
   mode |-> "INACTIVE", target |-> 0, applied |-> 0, last_ramp_ms |-> 0,
   ref_ms |-> 0, last_heartbeat_ms |-> 0, timeout |-> HardCmdTimeout,
   limit |-> HardCmdTimeout, last_nonce |-> 0, hz |-> TRUE]

HardZero(m) ==
  [m EXCEPT !.target = 0, !.applied = 0, !.last_ramp_ms = 0, !.hz = TRUE]

Latched(m) == m.estop \/ m.fault # "NONE"

-----------------------------------------------------------------------------
(* Session                                                                 *)

CompleteBoot(m) ==
  [HardZero(m) EXCEPT !.handshake = FALSE, !.estop = FALSE, !.fault = "NONE",
     !.state = "DISCONNECTED", !.mode = "INACTIVE", !.ref_ms = 0,
     !.last_heartbeat_ms = 0]

\* Mutant of AcceptHello: a new session starts with a clean slate.
AcceptHelloClearsFault(m, now) ==
  [HardZero(m) EXCEPT !.handshake = TRUE, !.last_heartbeat_ms = now,
     !.ref_ms = 0, !.mode = "INACTIVE", !.fault = "NONE",
     !.state = IF m.estop THEN @ ELSE "DISARMED"]

\* The last ARM nonce survives: a replayed ARM of the previous session must
\* not regain authority.
AcceptHello(m, now) ==
  [HardZero(m) EXCEPT !.handshake = TRUE, !.last_heartbeat_ms = now,
     !.ref_ms = 0, !.mode = "INACTIVE",
     !.state = IF Latched(m) THEN @ ELSE "DISARMED"]

\* Mutant of NoteHeartbeat: a heartbeat keeps the last command alive.
NoteHeartbeatFeedsCommand(m, now) ==
  IF m.handshake THEN [m EXCEPT !.last_heartbeat_ms = now, !.ref_ms = now]
                 ELSE m

NoteHeartbeat(m, now) ==
  IF m.handshake THEN [m EXCEPT !.last_heartbeat_ms = now] ELSE m

ConnectionLost(m) ==
  [HardZero(m) EXCEPT !.handshake = FALSE, !.last_heartbeat_ms = 0,
     !.ref_ms = 0, !.mode = "INACTIVE",
     !.state = IF Latched(m) THEN @ ELSE "DISCONNECTED"]

-----------------------------------------------------------------------------
(* Commands                                                                *)

ArmOK(m, nonce, mode, at_rest) ==
  /\ m.handshake
  /\ ~m.estop
  /\ m.fault = "NONE"
  /\ m.state = "DISARMED"
  /\ nonce # 0 /\ nonce # m.last_nonce
  /\ mode \in {"MANUAL", "AUTO"}
  /\ at_rest
  /\ m.target = 0 /\ m.applied = 0

Arm(m, nonce, mode, at_rest, now) ==
  IF ArmOK(m, nonce, mode, at_rest)
  THEN [HardZero(m) EXCEPT !.last_nonce = nonce, !.mode = mode,
          !.timeout = m.limit, !.ref_ms = now, !.last_ramp_ms = now,
          !.state = "ARMED"]
  ELSE HardZero(m)

Disarm(m) ==
  [HardZero(m) EXCEPT !.ref_ms = 0, !.mode = "INACTIVE",
     !.state = IF m.handshake /\ @ = "ARMED" THEN "DISARMED" ELSE @]

\* Mutant of Stop: the ramp is left to bring the wheels to zero.
StopByRamp(m) == [m EXCEPT !.target = 0]

\* STOP removes motion and keeps the ARM authority.
Stop(m) == HardZero(m)

Estop(m) ==
  IF m.estop /\ m.state = "ESTOP"
  THEN HardZero(m)
  ELSE [HardZero(m) EXCEPT !.estop = TRUE, !.mode = "INACTIVE",
          !.state = "ESTOP"]

ResetEstopOK(m, at_rest) ==
  m.handshake /\ m.state = "ESTOP" /\ m.estop /\ m.fault = "NONE" /\ at_rest

ResetEstop(m, at_rest) ==
  IF ResetEstopOK(m, at_rest)
  THEN [HardZero(m) EXCEPT !.estop = FALSE, !.state = "DISARMED",
          !.mode = "INACTIVE"]
  ELSE HardZero(m)

ResetFaultOK(m, at_rest) == m.handshake /\ m.fault # "NONE" /\ at_rest

ResetFault(m, at_rest) ==
  IF ResetFaultOK(m, at_rest)
  THEN [HardZero(m) EXCEPT !.fault = "NONE",
          !.state = IF m.estop THEN @ ELSE "DISARMED",
          !.mode = IF m.estop THEN @ ELSE "INACTIVE"]
  ELSE HardZero(m)

\* A command whose sequence is newer than the last one of the arm epoch.
CommandVelocityOK(m, mode, timeout) ==
  /\ m.handshake
  /\ m.state = "ARMED"
  /\ mode \in {"MANUAL", "AUTO"} /\ mode = m.mode
  /\ timeout # 0

CommandVelocity(m, target, mode, timeout, now) ==
  IF CommandVelocityOK(m, mode, timeout)
  THEN [m EXCEPT !.target = target, !.ref_ms = now,
          !.timeout = IF timeout > m.limit THEN m.limit ELSE timeout]
  ELSE m

SetLimitsOK(m, timeout) ==
  m.handshake /\ m.state = "DISARMED" /\ timeout \in 1 .. HardCmdTimeout

SetLimits(m, timeout) ==
  IF SetLimitsOK(m, timeout) THEN [HardZero(m) EXCEPT !.limit = timeout]
                             ELSE HardZero(m)

-----------------------------------------------------------------------------
(* The periodic tick of the motor task                                     *)

Slew(current, goal, step) ==
  IF goal - current > step THEN current + step
  ELSE IF goal - current < -step THEN current - step
  ELSE goal

\* Mutant of UpdateRamp: the stamp that hardZero cleared counts as a time.
UpdateRampNoSentinel(m, now) ==
  [m EXCEPT !.last_ramp_ms = now,
     !.applied = Slew(@, m.target, RampRate * Age(now, m.last_ramp_ms))]

\* A stamp of zero means "no reference yet", as in the code.
UpdateRamp(m, now) ==
  IF m.last_ramp_ms = 0
  THEN [m EXCEPT !.last_ramp_ms = now]
  ELSE [m EXCEPT !.last_ramp_ms = now,
          !.applied = Slew(@, m.target, RampRate * Age(now, m.last_ramp_ms))]

EnterFault(m, code) ==
  IF Latched(m) THEN m
  ELSE [HardZero(m) EXCEPT !.fault = code, !.state = "FAULT",
          !.mode = "INACTIVE"]

\* Mutant of CmdVelOverdue: any sign of life of the Pi counts.
CmdVelOverdueByHeartbeat(m, now) == Age(now, m.last_heartbeat_ms) >= m.timeout

CmdVelOverdue(m, now) == Age(now, m.ref_ms) >= m.timeout

HeartbeatOverdue(m, now) ==
  m.handshake /\ Age(now, m.last_heartbeat_ms) >= HeartbeatTimeout

CheckConnection(m, now) ==
  IF HeartbeatOverdue(m, now) THEN ConnectionLost(m) ELSE m

\* Only an ARMED machine can fault, and a fault ends the tick: a lost
\* connection never masks an overdue command.
Tick(m, now, health) ==
  CASE m.state # "ARMED" -> CheckConnection(m, now)
    [] m.state = "ARMED" /\ health = "controller_fault"
         -> EnterFault(m, "MOTOR_CONTROLLER_FAULT")
    [] m.state = "ARMED" /\ health = "lost"
         -> EnterFault(m, "MOTOR_FEEDBACK_LOST")
    [] m.state = "ARMED" /\ health = "ok" /\ CmdVelOverdue(m, now)
         -> EnterFault(m, "CMD_VEL_TIMEOUT")
    [] m.state = "ARMED" /\ health = "ok" /\ ~CmdVelOverdue(m, now)
         -> CheckConnection(UpdateRamp(m, now), now)

-----------------------------------------------------------------------------
(* Queries                                                                 *)

MotionAllowed(m) ==
  m.handshake /\ m.state = "ARMED" /\ m.fault = "NONE" /\ ~m.estop

\* The percentage the snapshot hands to the motor task.
AppliedPercent(m) == IF MotionAllowed(m) THEN m.applied ELSE 0

RelayAllowed(m) ==
  m.handshake /\ ~Latched(m) /\ m.state \in {"DISARMED", "ARMED"}

\* What every method preserves: the ESTOP latch is the ESTOP state, a fault is
\* shown by FAULT unless ESTOP hides it, motion and its mode need ARMED, and
\* ARMED or DISARMED need a session.
Consistent(m) ==
  /\ m.estop <=> m.state = "ESTOP"
  /\ m.state = "FAULT" => m.fault # "NONE"
  /\ m.fault # "NONE" => m.state \in {"FAULT", "ESTOP"}
  /\ m.mode # "INACTIVE" <=> m.state = "ARMED"
  /\ m.state \in {"ARMED", "DISARMED"} => m.handshake
  /\ m.state \in {"BOOT", "DISCONNECTED"} => ~m.handshake
  /\ m.target # 0 \/ m.applied # 0 => m.state = "ARMED"

=============================================================================
