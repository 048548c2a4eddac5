------------------------------ MODULE PiBridge ------------------------------
(***************************************************************************)
(* The two tasks of rtk_firmware/src/pi_bridge.cpp around one              *)
(* SafetyMachine: the Arduino loop task (core 1) decodes the frames of the *)
(* Raspberry Pi and executes them, the motor task (core 0) ticks the       *)
(* machine and owns the UART of the motor controller.  g_safety_mux makes  *)
(* every step below atomic; between two steps of one task the other runs.  *)
(*                                                                         *)
(* A frame whose sequence number is not newer than the last one changes    *)
(* nothing but counters (STOP, DISARM and ESTOP excepted, which ignore     *)
(* the check), so a frame of this module is one that passed the gate.      *)
(***************************************************************************)
EXTENDS PiBridgeSafety

CONSTANTS
  Frames,         \* the frames the Pi may send
  TaskWatchdog,   \* kMotorTaskWatchdogTimeoutMs
  MotorSkew,      \* longest delay of the motor task between clock and lock
  AckWait,        \* how long waitForHardZero waits: 25 ms in the firmware
  MaxSkew         \* longest delay of the loop task between two steps

ASSUME TaskWatchdogAssumption == TaskWatchdog \in Nat \ {0}
ASSUME MotorSkewAssumption == MotorSkew \in 1 .. TaskWatchdog
ASSUME AckWaitAssumption == AckWait \in Nat
ASSUME MaxSkewAssumption == MaxSkew \in Nat

\* No age of interest wraps: the clock is 49 days wide, the delays and timeouts
\* are milliseconds.
ASSUME ClockRangeAssumption ==
  /\ HardCmdTimeout + 2 * TaskWatchdog <= ClockMod
  /\ MaxSkew + 2 * TaskWatchdog < ClockMod

Frame ==
  [type : {"HELLO", "BAD_HELLO", "HEARTBEAT", "DISARM", "STOP", "ESTOP",
           "RESET_ESTOP", "RESET_FAULT"}]
    \cup [type : {"ARM"}, nonce : Nat, mode : ControlModes]
    \cup [type : {"CMD_VEL"}, target : Int, mode : ControlModes,
          timeout : Nat]
    \cup [type : {"RELAY"}, value : BOOLEAN]
    \cup [type : {"SET_LIMITS"}, timeout : Nat]

ASSUME FramesAssumption == Frames \subseteq Frame

VARIABLES
  now,        \* millis(), shared by both cores
  sm,         \* g_safety
  motor,      \* the motor task: its place and its local now_ms
  loop,       \* the loop task: its place, frame, local now_ms and telemetry
  acked,      \* g_motor_zero_ack_generation is the generation loop waits for
  out,        \* the percentage of the last UART frame to the motor controller
  relay,      \* an attachment or mount relay is on
  (* history *)
  since_auth, \* true time since the last accepted ARM or CMD_VEL (saturates)
  licensed    \* a CMD_VEL was accepted since the last command to stop

vars == <<now, sm, motor, loop, acked, out, relay, since_auth, licensed>>

\* since_auth counts up to here: beyond every deadline and delay.
SinceMax == HardCmdTimeout + MaxSkew + 2 * TaskWatchdog + 1

NoFrame == [type |-> "HEARTBEAT"]

LoopAt(pc) == [pc |-> pc, frame |-> NoFrame, now |-> 0, at_rest |-> FALSE]

\* The loop task in a step it entered just now.
LoopSince(pc) == [pc |-> pc, frame |-> NoFrame, now |-> now, at_rest |-> FALSE]

\* What the telemetry of ARM and the resets may say: the wheels are an
\* external matter, but at_zero needs a last UART frame that was zero.
MayBeAtRest == IF out = 0 THEN BOOLEAN ELSE {FALSE}

Init ==
  /\ now \in Millis
  /\ sm = NewMachine
  /\ motor = [pc |-> "poll", now |-> now]
  /\ loop = LoopAt("setup")
  /\ acked = FALSE
  /\ out = 0
  /\ relay = FALSE
  /\ since_auth = SinceMax
  /\ licensed = FALSE

-----------------------------------------------------------------------------
(* Time and the task watchdog                                              *)

MotorLag == Age(now, motor.now)

\* A handler takes no longer than its own wait plus MaxSkew at every step.
LoopDelay ==
  CASE loop.pc \in {"handle", "relays_off"} -> MaxSkew
    [] loop.pc = "wait" -> AckWait + MaxSkew
    [] OTHER -> ClockMod

Advance ==
  /\ MotorLag < IF motor.pc = "tick" THEN MotorSkew ELSE TaskWatchdog
  /\ Age(now, loop.now) < LoopDelay
  /\ now' = NextMilli(now)
  /\ since_auth' = IF since_auth < SinceMax THEN since_auth + 1 ELSE SinceMax
  /\ UNCHANGED <<sm, motor, loop, acked, out, relay, licensed>>

\* The motor task did not reset its watchdog in time: panic and reboot.
\* setup() drives the relays low and begin() sends a zero frame.
Panic ==
  /\ MotorLag = TaskWatchdog
  /\ sm' = NewMachine
  /\ motor' = [pc |-> "poll", now |-> now]
  /\ loop' = LoopAt("setup")
  /\ acked' = FALSE
  /\ out' = 0
  /\ relay' = FALSE
  /\ since_auth' = SinceMax
  /\ licensed' = FALSE
  /\ UNCHANGED now

-----------------------------------------------------------------------------
(* The motor task                                                          *)

\* pollFeedback, then millis(), then telemetry(), all outside the lock.
PollMotor ==
  /\ motor.pc = "poll"
  /\ motor' = [pc |-> "tick", now |-> now]
  /\ UNCHANGED <<now, sm, loop, acked, out, relay, since_auth, licensed>>

\* Mutant of TickWith: the limit on the rate of UART frames holds for the
\* zero frame too.
TickWithLazyZero(ticked) ==
  /\ sm' = [ticked EXCEPT !.hz = FALSE]
  /\ relay' = (relay /\ RelayAllowed(ticked))
  /\ licensed' = (licensed /\ ~ticked.hz)
  /\ out' \in {out, AppliedPercent(ticked)}
  /\ acked' = ((acked \/ sm.hz) /\ ~ticked.hz)

\* The critical section: tick, snapshot, relays, and the UART frame.  An
\* unseen generation forces a zero frame at once; otherwise setSafeOutput
\* sends at most every kSendPeriodMs, so it may skip this iteration.
TickWith(ticked) ==
  /\ sm' = [ticked EXCEPT !.hz = FALSE]
  /\ relay' = (relay /\ RelayAllowed(ticked))
  /\ licensed' = (licensed /\ ~ticked.hz)
  /\ \/ /\ sm.hz \/ ticked.hz
        /\ out' = 0
        /\ acked' = ~ticked.hz
     \/ /\ ~(sm.hz \/ ticked.hz)
        /\ out' \in {out, AppliedPercent(ticked)}
        /\ UNCHANGED acked

\* The motor feedback is free, so it does not matter that it is chosen here
\* and not with the clock sample.
TickMotor ==
  /\ motor.pc = "tick"
  /\ motor' = [motor EXCEPT !.pc = "poll"]
  /\ \E health \in MotorHealth :
       TickWith(Tick([sm EXCEPT !.hz = FALSE], motor.now, health))
  /\ UNCHANGED <<now, loop, since_auth>>

-----------------------------------------------------------------------------
(* The loop task                                                           *)

\* The last step of setup(): the motor task runs already.
FinishSetup ==
  /\ loop.pc = "setup"
  /\ sm' = CompleteBoot(sm)
  /\ loop' = LoopAt("idle")
  /\ UNCHANGED <<now, motor, acked, out, relay, since_auth, licensed>>

\* handleFrame reads the clock, and for ARM and the resets the telemetry,
\* before it takes the lock.  Both HELLO paths turn the relays off first.
Receive ==
  /\ loop.pc = "idle"
  /\ \E f \in Frames :
       /\ \E rest \in IF f.type \in {"ARM", "RESET_ESTOP", "RESET_FAULT"}
                      THEN MayBeAtRest ELSE {FALSE} :
            loop' = [pc |-> "handle", frame |-> f, now |-> now,
                     at_rest |-> rest]
       /\ relay' = (relay /\ f.type \notin {"HELLO", "BAD_HELLO"})
  /\ UNCHANGED <<now, sm, motor, acked, out, since_auth, licensed>>

Handling(type) == loop.pc = "handle" /\ loop.frame.type = type

\* Mutant of ZeroThen: the acknowledgement of an older zero counts.
ZeroThenStaleAck(machine, pc) ==
  /\ sm' = machine
  /\ loop' = LoopSince(pc)
  /\ licensed' = FALSE
  /\ UNCHANGED <<now, motor, acked, out, relay>>

\* A critical section that hard-zeros and then waits, at pc, for the motor
\* task to acknowledge the new generation.
ZeroThen(machine, pc) ==
  /\ sm' = machine
  /\ acked' = (acked /\ ~machine.hz)
  /\ loop' = LoopSince(pc)
  /\ licensed' = FALSE
  /\ UNCHANGED <<now, motor, out, relay>>

Hello ==
  /\ Handling("HELLO")
  /\ ZeroThen(AcceptHello(sm, loop.now), "wait")
  /\ UNCHANGED since_auth

RejectHello ==
  /\ Handling("BAD_HELLO")
  /\ ZeroThen(ConnectionLost(sm), "wait")
  /\ UNCHANGED since_auth

Heartbeat ==
  /\ Handling("HEARTBEAT")
  /\ sm' = NoteHeartbeat(sm, loop.now)
  /\ loop' = LoopAt("idle")
  /\ UNCHANGED <<now, motor, acked, out, relay, since_auth, licensed>>

HandleArm ==
  /\ Handling("ARM")
  /\ ZeroThen(Arm(sm, loop.frame.nonce, loop.frame.mode, loop.at_rest,
                  loop.now), "wait")
  /\ since_auth' =
       IF ArmOK(sm, loop.frame.nonce, loop.frame.mode, loop.at_rest)
       THEN Age(now, loop.now) ELSE since_auth

HandleDisarm ==
  /\ Handling("DISARM")
  /\ ZeroThen(Disarm(sm), "wait")
  /\ UNCHANGED since_auth

HandleStop ==
  /\ Handling("STOP")
  /\ ZeroThen(Stop(sm), "wait")
  /\ UNCHANGED since_auth

\* The relays go off in a critical section of their own, after the latch.
HandleEstop ==
  /\ Handling("ESTOP")
  /\ ZeroThen(Estop(sm), "relays_off")
  /\ UNCHANGED since_auth

EstopRelaysOff ==
  /\ loop.pc = "relays_off"
  /\ relay' = FALSE
  /\ loop' = LoopSince("wait")
  /\ UNCHANGED <<now, sm, motor, acked, out, since_auth, licensed>>

HandleResetEstop ==
  /\ Handling("RESET_ESTOP")
  /\ ZeroThen(ResetEstop(sm, loop.at_rest), "wait")
  /\ UNCHANGED since_auth

HandleResetFault ==
  /\ Handling("RESET_FAULT")
  /\ ZeroThen(ResetFault(sm, loop.at_rest), "wait")
  /\ UNCHANGED since_auth

HandleSetLimits ==
  /\ Handling("SET_LIMITS")
  /\ ZeroThen(SetLimits(sm, loop.frame.timeout), "wait")
  /\ UNCHANGED since_auth

HandleCmdVel ==
  /\ Handling("CMD_VEL")
  /\ sm' = CommandVelocity(sm, loop.frame.target, loop.frame.mode,
                           loop.frame.timeout, loop.now)
  /\ IF CommandVelocityOK(sm, loop.frame.mode, loop.frame.timeout)
     THEN since_auth' = Age(now, loop.now) /\ licensed' = TRUE
     ELSE UNCHANGED <<since_auth, licensed>>
  /\ loop' = LoopAt("idle")
  /\ UNCHANGED <<now, motor, acked, out, relay>>

\* relayCommand: checked and executed under one lock.
HandleRelay ==
  /\ Handling("RELAY")
  /\ relay' = IF RelayAllowed(sm) THEN loop.frame.value ELSE relay
  /\ loop' = LoopAt("idle")
  /\ UNCHANGED <<now, sm, motor, acked, out, since_auth, licensed>>

\* waitForHardZero: the acknowledgement arrived, ...
ZeroAcked ==
  /\ loop.pc = "wait"
  /\ acked
  /\ loop' = LoopAt("idle")
  /\ UNCHANGED <<now, sm, motor, acked, out, relay, since_auth, licensed>>

\* ... or AckWait passed without it and the loop task writes the zero frame
\* itself (the answer may arrive between the last check and the write).
ZeroFallback ==
  /\ loop.pc = "wait"
  /\ Age(now, loop.now) >= AckWait
  /\ out' = 0
  /\ acked' = TRUE
  /\ loop' = LoopAt("idle")
  /\ UNCHANGED <<now, sm, motor, relay, since_auth, licensed>>

EnforceRelaySafety ==
  /\ loop.pc = "idle"
  /\ relay' = (relay /\ RelayAllowed(sm))
  /\ UNCHANGED <<now, sm, motor, loop, acked, out, since_auth, licensed>>

-----------------------------------------------------------------------------

Motor == PollMotor \/ TickMotor

Handle ==
  \/ Hello \/ RejectHello \/ Heartbeat \/ HandleArm \/ HandleDisarm
  \/ HandleStop \/ HandleEstop \/ HandleResetEstop \/ HandleResetFault
  \/ HandleSetLimits \/ HandleCmdVel \/ HandleRelay

Loop ==
  \/ FinishSetup \/ Receive \/ Handle
  \/ EstopRelaysOff \/ ZeroAcked \/ ZeroFallback \/ EnforceRelaySafety

Next == Advance \/ Panic \/ Motor \/ Loop

Spec == Init /\ [][Next]_vars

\* Both tasks are scheduled for ever and time passes; the Pi promises nothing.
Fairness ==
  /\ WF_vars(Advance) /\ WF_vars(Panic)
  /\ WF_vars(PollMotor) /\ WF_vars(TickMotor)
  /\ WF_vars(FinishSetup) /\ WF_vars(Handle) /\ WF_vars(EstopRelaysOff)
  /\ WF_vars(ZeroAcked \/ ZeroFallback)

FairSpec == Spec /\ Fairness

-----------------------------------------------------------------------------
(* Safety                                                                  *)

\* Every variable has its type.
TypeOK ==
  /\ now \in Millis
  /\ SafetyMachine(sm)
  /\ motor \in [pc : {"poll", "tick"}, now : Millis]
  /\ loop \in [pc : {"setup", "idle", "handle", "relays_off", "wait"},
               frame : Frame, now : Millis, at_rest : BOOLEAN]
  /\ acked \in BOOLEAN
  /\ out \in Int
  /\ relay \in BOOLEAN
  /\ since_auth \in Nat
  /\ licensed \in BOOLEAN

\* The redundant fields of SafetyMachine never disagree, whatever the order
\* of frames, ticks and timeouts.
StateConsistent == Consistent(sm)

Zeroing == loop.pc \in {"wait", "relays_off"}

\* The motor controller was last told to move only while the machine is ARMED
\* without a latch and a CMD_VEL was accepted after the last STOP, DISARM,
\* ESTOP, ARM, reset or HELLO; the one exception is the window in which the
\* handler still waits for the zero, before it answers the Pi.  So once such
\* a frame is acknowledged the motors stay at zero until a new CMD_VEL.
MotionNeedsAuthority ==
  out # 0 /\ ~Zeroing => MotionAllowed(sm) /\ licensed

\* The motors never run on an old command, whatever the two tasks and the
\* link do, and whatever timeout the command asked for: the last accepted
\* command is younger than the configured limit, give or take the two delays
\* the task watchdog tolerates, one before the late clock sample of the motor
\* task and one after it.
MotionIsFresh == out # 0 => since_auth < sm.limit + 2 * TaskWatchdog

\* A relay is on only where relayAllowedMask permits it, except between the
\* two critical sections of the ESTOP handler.
RelaySafe == relay => RelayAllowed(sm) \/ loop.pc = "relays_off"

\* ARM succeeds only at rest: although the handler reads the telemetry before
\* it takes the lock, no UART frame that moves can slip between the two, and
\* the nonce differs from that of the last successful ARM.
ArmsAtRest ==
  [][sm.state # "ARMED" /\ sm'.state = "ARMED"
       => /\ out = 0 /\ out' = 0
          /\ sm'.last_nonce # sm.last_nonce
          /\ ~licensed']_vars

\* An ESTOP or fault latch is released only by an explicit reset frame, at
\* rest and with the relays off, into a state without authority; neither HELLO
\* nor a lost connection does it.  A reboot is the only other way out.
LatchReleasedAtRest ==
  [][Latched(sm) /\ ~Latched(sm')
       => /\ out' = 0 /\ ~relay'
          /\ \/ sm'.state = "BOOT"
             \/ /\ loop.frame.type \in {"RESET_ESTOP", "RESET_FAULT"}
                /\ sm'.state = "DISARMED" /\ out = 0]_vars

\* One tick never slews the applied percentage by more than the ramp allows
\* for the longest interval between two ticks, plus the delay of the handler
\* when the first interval starts at the clock sample of ARM; in particular not
\* when the tick's own sample is older than the stamp ARM left in
\* _last_ramp_ms.
SlewBounded ==
  [][sm'.applied # 0 =>
       LET step == sm'.applied - sm.applied
           most == RampRate * (TaskWatchdog + MaxSkew)
       IN  step <= most /\ -step <= most]_vars

\* The command watchdog fires before its deadline for one reason only: the time
\* stamp of the command is newer than the clock sample of the motor task, which
\* it takes before the lock, and the difference wraps (pi_bridge.cpp:835).
EarlyOnlyByRace ==
  [][sm.fault = "NONE" /\ sm'.fault = "CMD_VEL_TIMEOUT"
       => since_auth >= sm.timeout \/ since_auth < MotorLag]_vars

\* The command watchdog does not fire before the deadline of the command it
\* supervises: no CMD_VEL_TIMEOUT while the last accepted CMD_VEL is younger
\* than its timeout.
WatchdogNotEarly ==
  [][licensed /\ sm.fault = "NONE" /\ sm'.fault = "CMD_VEL_TIMEOUT"
       => since_auth >= sm.timeout]_vars

-----------------------------------------------------------------------------
(* What the safety invariants rest on                                      *)

\* The machine wants to move only after an accepted CMD_VEL, and a handler
\* that waits for the zero has revoked that.
MotionLicensed ==
  /\ sm.target # 0 \/ sm.applied # 0 => licensed
  /\ Zeroing => ~licensed

\* An acknowledged zero reached the motor controller and is still in force.
AckMeansZero == Zeroing /\ acked => out = 0

\* Until setup() is over the machine is in BOOT, whatever the motor task does.
BootUntilSetup == loop.pc = "setup" => sm.state = "BOOT"

\* No relay is on while a HELLO waits for the lock.
HelloRelaysOff ==
  loop.pc = "handle" /\ loop.frame.type \in {"HELLO", "BAD_HELLO"} => ~relay

\* The invariant that every step preserves: the stated invariants and the
\* facts they rest on, above all that the zero a handler asked for cannot be
\* undone before its acknowledgement is read.
Inductive ==
  /\ TypeOK /\ StateConsistent /\ MotionNeedsAuthority /\ RelaySafe
  /\ MotionLicensed /\ AckMeansZero /\ BootUntilSetup /\ HelloRelaysOff

\* How long ago the motor task may have judged the command that is applied
\* now, beyond its lag: it has polled since, or has not.
Polled == IF motor.pc = "tick" THEN TaskWatchdog ELSE 0

\* The longest an accepted command or ARM may be aged when it is judged, plus 1.
Window == IF HardCmdTimeout > MaxSkew THEN HardCmdTimeout ELSE MaxSkew + 1

\* Neither task is later than its watchdog or its skew allows.
TasksInTime ==
  /\ MotorLag <= TaskWatchdog
  /\ loop.pc = "handle" => Age(now, loop.now) <= MaxSkew

\* While ARMED the command watchdog measures true time, its timeout is within
\* the configured limit, and its reference is no newer than the frame in hand.
AuthorityTimed ==
  sm.state = "ARMED" =>
    /\ sm.timeout <= sm.limit
    /\ since_auth = Age(now, sm.ref_ms)
    /\ since_auth - MotorLag < Window + Polled
    /\ loop.pc = "handle" => Age(now, loop.now) <= since_auth

\* The ramp is referred to the last sample of the motor task or to the clock
\* sample of ARM; a reference newer than the motor task's sample comes with a
\* command reference newer than it, which the watchdog then refuses.
RampTimed ==
  sm.state = "ARMED" /\ sm.last_ramp_ms # 0 =>
    /\ Age(now, sm.last_ramp_ms) - MotorLag <= MaxSkew + Polled
    /\ Age(now, sm.last_ramp_ms) < MotorLag => since_auth < MotorLag

\* The motor controller runs on a command that was fresh when it was judged,
\* and while a handler waits for its zero the order for it still stands.
OutputTimed ==
  out # 0 => /\ since_auth - MotorLag < sm.limit + Polled
             /\ Zeroing => sm.hz

Timed == TasksInTime /\ AuthorityTimed /\ RampTimed /\ OutputTimed

\* All that the two tasks of pi_bridge.cpp keep between them: what one may hold
\* and do while the other is at each of its steps, and the ages that go with it.
TimedInductive == Inductive /\ Timed

-----------------------------------------------------------------------------
(* What the Pi may rely on                                                 *)

Authority == INSTANCE DriveAuthority WITH
  state <- sm.state, estop <- sm.estop, fault <- sm.fault # "NONE",
  nonce <- sm.last_nonce, asked <- Zeroing, wire <- out

\* The two tasks, with their lock, their hand-over of zeros, their watchdogs
\* and whatever delays they have, keep the promises of DriveAuthority: above all
\* that a frame that removes motion is answered with the motors at zero, also
\* when the handler gave up waiting and wrote the zero itself, and that no tick
\* in progress moves them afterwards (pi_bridge.cpp:167 to 183 and 838 to 860).
ImplementsAuthority == Authority!Spec

-----------------------------------------------------------------------------
(* Liveness                                                                *)

\* When no CMD_VEL arrives any more, the motors stop for good, whatever other
\* frames the Pi goes on sending and whatever the motor feedback says.
SilenceStopsMotors ==
  <>[](loop.frame.type # "CMD_VEL") => <>[](out = 0)

\* Every STOP reaches the motor controller as a zero frame, though the Pi may
\* go on sending commands and the motor task is free to be late: by its own
\* frame, or by the one the handler writes when the motor task is too slow.
StopReachesMotors == Handling("STOP") ~> out = 0

=============================================================================
