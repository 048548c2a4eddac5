--------------------------- MODULE PiBridgeProofs ---------------------------
(***************************************************************************)
(* Proofs about PiBridge, for every clock width, deadline, scheduling      *)
(* delay and set of frames.                                                *)
(***************************************************************************)
EXTENDS PiBridge, TLAPS

-----------------------------------------------------------------------------
(* The methods of SafetyMachine                                            *)

\* Clock arithmetic stays within the clock.
LEMMA ClockFacts ==
  ASSUME NEW s \in Millis, NEW t \in Millis
  PROVE  Age(s, t) \in Nat /\ NextMilli(t) \in Millis /\ 0 \in Millis
  BY ClockModAssumption DEF Age, NextMilli, Millis

\* The clock starts at 0.
LEMMA ZeroMilli == 0 \in Millis
  BY ClockModAssumption DEF Millis

\* A slew step yields an integer.
LEMMA SlewType ==
  ASSUME NEW a \in Int, NEW b \in Int, NEW c \in Int
  PROVE  Slew(a, b, c) \in Int
  BY DEF Slew

\* The object has its type and its fields agree.
Good(m) == SafetyMachine(m) /\ Consistent(m)

\* ... and it has just been hard-zeroed.
Zeroed(m) == Good(m) /\ m.hz = TRUE /\ m.target = 0 /\ m.applied = 0

\* hardZero touches the four motion fields only.
LEMMA HardZeroGood ==
  ASSUME NEW m, Good(m)
  PROVE  LET z == HardZero(m)
         IN  /\ Zeroed(z) /\ z.last_ramp_ms = 0
             /\ z.state = m.state /\ z.fault = m.fault
             /\ z.handshake = m.handshake /\ z.estop = m.estop
             /\ z.mode = m.mode /\ z.ref_ms = m.ref_ms
             /\ z.last_heartbeat_ms = m.last_heartbeat_ms
             /\ z.timeout = m.timeout /\ z.limit = m.limit
             /\ z.last_nonce = m.last_nonce
  BY ZeroMilli DEF Zeroed, Good, SafetyMachine, Consistent, HardZero

\* setup() leaves the machine quiet.
LEMMA BootGood ==
  ASSUME NEW m, Good(m)
  PROVE  Zeroed(CompleteBoot(m))
  BY HardZeroGood, ZeroMilli, ZenonT(40)
     DEF Zeroed, Good, SafetyMachine, Consistent, CompleteBoot, EspStates,
         FaultCodes, ControlModes

\* A HELLO leaves the machine quiet, whatever it finds latched.
LEMMA HelloGood ==
  ASSUME NEW m, Good(m), NEW t \in Millis
  PROVE  Zeroed(AcceptHello(m, t))
<1>1. CASE Latched(m)
  BY <1>1, HardZeroGood, ZeroMilli, ZenonT(40)
     DEF Zeroed, Good, SafetyMachine, Consistent, AcceptHello, Latched,
         EspStates, ControlModes
<1>2. CASE ~Latched(m)
  <2> DEFINE z == HardZero(m)
             n == AcceptHello(m, t)
  <2>1. Zeroed(z) /\ ~Latched(z)
    BY <1>2, HardZeroGood DEF Latched
  <2>2. n = [z EXCEPT !.handshake = TRUE, !.last_heartbeat_ms = t,
               !.ref_ms = 0, !.mode = "INACTIVE", !.state = "DISARMED"]
    BY <1>2 DEF AcceptHello
  <2> HIDE DEF z, n
  <2>3. SafetyMachine(n) /\ n.hz = TRUE /\ n.target = 0 /\ n.applied = 0
    BY <2>1, <2>2, ZeroMilli
       DEF Zeroed, Good, SafetyMachine, EspStates, ControlModes
  <2>4. Consistent(n)
    BY <2>1, <2>2 DEF Zeroed, Good, SafetyMachine, Consistent, Latched
  <2> QED BY <2>3, <2>4 DEF Zeroed, Good, n
<1> QED BY <1>1, <1>2

\* A heartbeat keeps the machine consistent.
LEMMA HeartbeatGood ==
  ASSUME NEW m, Good(m), NEW t \in Millis
  PROVE  Good(NoteHeartbeat(m, t))
  BY DEF Good, SafetyMachine, Consistent, NoteHeartbeat

\* A lost connection leaves the machine quiet.
LEMMA LostGood ==
  ASSUME NEW m, Good(m)
  PROVE  Zeroed(ConnectionLost(m))
<1>1. CASE Latched(m)
  BY <1>1, HardZeroGood, ZeroMilli, ZenonT(40)
     DEF Zeroed, Good, SafetyMachine, Consistent, ConnectionLost, Latched,
         EspStates, ControlModes
<1>2. CASE ~Latched(m)
  <2> DEFINE z == HardZero(m)
             n == ConnectionLost(m)
  <2>1. Zeroed(z) /\ ~Latched(z)
    BY <1>2, HardZeroGood DEF Latched
  <2>2. n = [z EXCEPT !.handshake = FALSE, !.last_heartbeat_ms = 0,
               !.ref_ms = 0, !.mode = "INACTIVE", !.state = "DISCONNECTED"]
    BY <1>2 DEF ConnectionLost
  <2> HIDE DEF z, n
  <2>3. SafetyMachine(n) /\ n.hz = TRUE /\ n.target = 0 /\ n.applied = 0
    BY <2>1, <2>2, ZeroMilli
       DEF Zeroed, Good, SafetyMachine, EspStates, ControlModes
  <2>4. Consistent(n)
    BY <2>1, <2>2 DEF Zeroed, Good, SafetyMachine, Consistent, Latched
  <2> QED BY <2>3, <2>4 DEF Zeroed, Good, n
<1> QED BY <1>1, <1>2

\* An ARM, accepted or not, leaves the machine at rest and hard-zeroed.
LEMMA ArmGood ==
  ASSUME NEW m, Good(m), NEW n \in Nat, NEW mode \in ControlModes,
         NEW r \in BOOLEAN, NEW t \in Millis
  PROVE  /\ Zeroed(Arm(m, n, mode, r, t))
         /\ RelayAllowed(m) => RelayAllowed(Arm(m, n, mode, r, t))
  BY ZeroMilli DEF Zeroed, Good, SafetyMachine, Consistent, HardZero, Arm,
                   ArmOK, EspStates, ControlModes, RelayAllowed, Latched

\* A DISARM zeroes the machine and forbids no relay.
LEMMA DisarmGood ==
  ASSUME NEW m, Good(m)
  PROVE  /\ Zeroed(Disarm(m))
         /\ RelayAllowed(m) => RelayAllowed(Disarm(m))
<1>1. CASE m.state = "ARMED"
  BY <1>1, ZeroMilli DEF Zeroed, Good, SafetyMachine, Consistent, HardZero,
                 Disarm, EspStates, ControlModes, RelayAllowed, Latched
<1>2. CASE m.state # "ARMED"
  BY <1>2, ZeroMilli DEF Zeroed, Good, SafetyMachine, Consistent, HardZero,
                 Disarm, EspStates, ControlModes, RelayAllowed, Latched
<1> QED BY <1>1, <1>2

\* A STOP zeroes the machine and forbids no relay.
LEMMA StopGood ==
  ASSUME NEW m, Good(m)
  PROVE  /\ Zeroed(Stop(m))
         /\ RelayAllowed(m) => RelayAllowed(Stop(m))
  BY HardZeroGood DEF Stop, HardZero, RelayAllowed, Latched, Good,
                      SafetyMachine

\* An ESTOP leaves the machine quiet.
LEMMA EstopGood ==
  ASSUME NEW m, Good(m)
  PROVE  Zeroed(Estop(m))
<1> DEFINE z == HardZero(m)
           n == Estop(m)
<1>1. CASE m.estop /\ m.state = "ESTOP"
  BY <1>1, HardZeroGood DEF Estop
<1>2. CASE ~(m.estop /\ m.state = "ESTOP")
  <2>1. Zeroed(z)
    BY HardZeroGood
  <2>2. n = [z EXCEPT !.estop = TRUE, !.mode = "INACTIVE",
               !.state = "ESTOP"]
    BY <1>2 DEF Estop
  <2> HIDE DEF z, n
  <2>3. SafetyMachine(n) /\ n.hz = TRUE /\ n.target = 0 /\ n.applied = 0
    BY <2>1, <2>2 DEF Zeroed, Good, SafetyMachine, EspStates, ControlModes
  <2>4. Consistent(n)
    BY <2>1, <2>2 DEF Zeroed, Good, SafetyMachine, Consistent
  <2> QED BY <2>3, <2>4 DEF Zeroed, Good, n
<1> QED BY <1>1, <1>2

\* RESET_ESTOP, accepted or not, leaves the machine quiet.
LEMMA ResetEstopGood ==
  ASSUME NEW m, Good(m), NEW r \in BOOLEAN
  PROVE  /\ Zeroed(ResetEstop(m, r))
         /\ RelayAllowed(m) => RelayAllowed(ResetEstop(m, r))
<1> DEFINE z == HardZero(m)
           n == ResetEstop(m, r)
<1>1. CASE ~ResetEstopOK(m, r)
  BY <1>1, HardZeroGood DEF ResetEstop, RelayAllowed, Latched
<1>2. CASE ResetEstopOK(m, r)
  <2>1. Zeroed(z) /\ z.handshake = TRUE /\ z.fault = "NONE"
    BY <1>2, HardZeroGood DEF ResetEstopOK, Good, SafetyMachine
  <2>2. n = [z EXCEPT !.estop = FALSE, !.state = "DISARMED",
               !.mode = "INACTIVE"]
    BY <1>2 DEF ResetEstop
  <2> HIDE DEF z, n
  <2>3. SafetyMachine(n) /\ n.hz = TRUE /\ n.target = 0 /\ n.applied = 0
    BY <2>1, <2>2 DEF Zeroed, Good, SafetyMachine, EspStates, ControlModes
  <2>4. Consistent(n) /\ RelayAllowed(n)
    BY <2>1, <2>2 DEF Zeroed, Good, SafetyMachine, Consistent, RelayAllowed,
                      Latched
  <2> QED BY <2>3, <2>4 DEF Zeroed, Good, n
<1> QED BY <1>1, <1>2

\* RESET_FAULT, accepted or not, leaves the machine quiet.
LEMMA ResetFaultGood ==
  ASSUME NEW m, Good(m), NEW r \in BOOLEAN
  PROVE  /\ Zeroed(ResetFault(m, r))
         /\ RelayAllowed(m) => RelayAllowed(ResetFault(m, r))
<1>1. CASE m.estop
  BY <1>1, ZeroMilli DEF Zeroed, Good, SafetyMachine, Consistent, HardZero,
                         ResetFault, ResetFaultOK, EspStates, ControlModes,
                         FaultCodes, RelayAllowed, Latched
<1>2. CASE ~m.estop
  BY <1>2, ZeroMilli DEF Zeroed, Good, SafetyMachine, Consistent, HardZero,
                         ResetFault, ResetFaultOK, EspStates, ControlModes,
                         FaultCodes, RelayAllowed, Latched
<1> QED BY <1>1, <1>2

\* SET_LIMITS, accepted or not, zeroes the machine and forbids no relay.
LEMMA SetLimitsGood ==
  ASSUME NEW m, Good(m), NEW t \in Nat
  PROVE  /\ Zeroed(SetLimits(m, t))
         /\ RelayAllowed(m) => RelayAllowed(SetLimits(m, t))
  BY ZeroMilli DEF Zeroed, Good, SafetyMachine, Consistent, HardZero,
                   SetLimits, SetLimitsOK, RelayAllowed, Latched

\* A velocity command keeps the machine consistent and what was allowed.
LEMMA CommandVelocityGood ==
  ASSUME NEW m, Good(m), NEW g \in Int, NEW mode \in ControlModes,
         NEW d \in Nat, NEW t \in Millis
  PROVE  LET n == CommandVelocity(m, g, mode, d, t)
         IN  /\ Good(n)
             /\ RelayAllowed(m) => RelayAllowed(n)
             /\ MotionAllowed(m) => MotionAllowed(n)
<1> DEFINE n == CommandVelocity(m, g, mode, d, t)
           cap == IF d > m.limit THEN m.limit ELSE d
<1>1. CASE ~CommandVelocityOK(m, mode, d)
  BY <1>1 DEF CommandVelocity
<1>2. CASE CommandVelocityOK(m, mode, d)
  <2>1. cap \in 1 .. HardCmdTimeout
    BY <1>2, HardCmdTimeoutAssumption
       DEF CommandVelocityOK, Good, SafetyMachine
  <2>2. n = [m EXCEPT !.target = g, !.ref_ms = t, !.timeout = cap]
    BY <1>2 DEF CommandVelocity
  <2>3. m.state = "ARMED"
    BY <1>2 DEF CommandVelocityOK
  <2> HIDE DEF n, cap
  <2>4. SafetyMachine(n)
    BY <2>1, <2>2 DEF Good, SafetyMachine
  <2>5. Consistent(n)
    BY <2>2, <2>3 DEF Good, SafetyMachine, Consistent
  <2>6. /\ RelayAllowed(m) => RelayAllowed(n)
        /\ MotionAllowed(m) => MotionAllowed(n)
    BY <2>2 DEF Good, SafetyMachine, RelayAllowed, MotionAllowed, Latched
  <2> QED BY <2>4, <2>5, <2>6 DEF Good, n
<1> QED BY <1>1, <1>2

\* The ramp of an ARMED machine keeps what was allowed, and a machine at rest
\* without a target stays at rest.
LEMMA RampGood ==
  ASSUME NEW m, Good(m), NEW t \in Millis, m.state = "ARMED"
  PROVE  LET n == UpdateRamp(m, t)
         IN  /\ Good(n)
             /\ n.hz = m.hz /\ n.state = "ARMED" /\ n.target = m.target
             /\ m.target = 0 /\ m.applied = 0 => n.applied = 0
             /\ RelayAllowed(m) => RelayAllowed(n)
             /\ MotionAllowed(m) => MotionAllowed(n)
<1> DEFINE d == RampRate * Age(t, m.last_ramp_ms)
<1>1. d \in Nat
  BY ClockFacts, RampRateAssumption DEF Good, SafetyMachine
<1>2. /\ Slew(m.applied, m.target, d) \in Int
      /\ m.target = 0 /\ m.applied = 0 => Slew(m.applied, m.target, d) = 0
  BY <1>1 DEF Slew, Good, SafetyMachine
<1> HIDE DEF d
<1>3. UpdateRamp(m, t) =
        IF m.last_ramp_ms = 0 THEN [m EXCEPT !.last_ramp_ms = t]
        ELSE [m EXCEPT !.last_ramp_ms = t,
                       !.applied = Slew(m.applied, m.target, d)]
  BY DEF UpdateRamp, d, Good, SafetyMachine
<1> QED
  BY <1>2, <1>3 DEF Good, SafetyMachine, Consistent, RelayAllowed,
                    MotionAllowed, Latched

\* Entering a fault leaves the machine quiet.
LEMMA FaultGood ==
  ASSUME NEW m, Good(m), NEW c \in FaultCodes \ {"NONE"}, m.state = "ARMED"
  PROVE  Zeroed(EnterFault(m, c))
<1> DEFINE z == HardZero(m)
           n == EnterFault(m, c)
<1>1. ~Latched(m)
  BY DEF Good, Consistent, Latched
<1>2. Zeroed(z) /\ z.state = "ARMED" /\ z.estop = m.estop /\ ~z.estop
  BY <1>1, HardZeroGood DEF Latched
<1>3. n = [z EXCEPT !.fault = c, !.state = "FAULT", !.mode = "INACTIVE"]
  BY <1>1 DEF EnterFault
<1> HIDE DEF z, n
<1>4. SafetyMachine(n) /\ n.hz = TRUE /\ n.target = 0 /\ n.applied = 0
  BY <1>2, <1>3 DEF Zeroed, Good, SafetyMachine, EspStates, ControlModes,
                    FaultCodes
<1>5. Consistent(n)
  BY <1>2, <1>3 DEF Zeroed, Good, SafetyMachine, Consistent
<1> QED BY <1>4, <1>5 DEF Zeroed, Good, n

\* The connection check either changes nothing or loses the connection.
LEMMA ConnectionGood ==
  ASSUME NEW m, Good(m), NEW t \in Millis
  PROVE  \/ CheckConnection(m, t) = m
         \/ CheckConnection(m, t) = ConnectionLost(m) /\ m.handshake
  BY DEF CheckConnection, HeartbeatOverdue

\* A tick either zeroes the machine, or leaves a quiet machine quiet and
\* keeps what was allowed.
LEMMA TickGood ==
  ASSUME NEW m, Good(m), NEW t \in Millis, NEW h \in MotorHealth
  PROVE  LET n == Tick(m, t, h)
         IN  /\ Good(n)
             /\ \/ Zeroed(n)
                \/ /\ n.hz = m.hz
                   /\ m.target = 0 /\ m.applied = 0
                        => n.target = 0 /\ n.applied = 0
                   /\ MotionAllowed(m) => MotionAllowed(n)
                   /\ RelayAllowed(m) => RelayAllowed(n)
             /\ m.state = "BOOT" => n.state = "BOOT"
<1>1. CASE m.state # "ARMED"
  <2>1. Tick(m, t, h) = CheckConnection(m, t)
    BY <1>1 DEF Tick
  <2>2. m.state = "BOOT" => ~m.handshake
    BY DEF Good, Consistent
  <2>3. CASE CheckConnection(m, t) = m
    BY <2>1, <2>3
  <2>4. CASE CheckConnection(m, t) = ConnectionLost(m) /\ m.handshake
    <3>1. Zeroed(ConnectionLost(m))
      BY LostGood
    <3> QED
      BY <2>1, <2>2, <2>4, <3>1 DEF Zeroed
  <2> QED BY <2>3, <2>4, ConnectionGood
<1>2. CASE m.state = "ARMED" /\ h = "controller_fault"
  BY <1>2, FaultGood DEF Tick, FaultCodes, Zeroed
<1>3. CASE m.state = "ARMED" /\ h = "lost"
  BY <1>3, FaultGood DEF Tick, FaultCodes, Zeroed
<1>4. CASE m.state = "ARMED" /\ h = "ok" /\ CmdVelOverdue(m, t)
  BY <1>4, FaultGood DEF Tick, FaultCodes, Zeroed
<1>5. CASE m.state = "ARMED" /\ h = "ok" /\ ~CmdVelOverdue(m, t)
  <2> DEFINE n == UpdateRamp(m, t)
  <2>1. Tick(m, t, h) = CheckConnection(n, t)
    BY <1>5 DEF Tick
  <2>2. Good(n)
    BY <1>5, RampGood
  <2>3. CASE CheckConnection(n, t) = ConnectionLost(n)
    BY <1>5, <2>1, <2>2, <2>3, LostGood DEF Zeroed
  <2>4. CASE CheckConnection(n, t) = n
    <3>1. /\ n.hz = m.hz /\ m.state = "ARMED"
          /\ m.target = 0 /\ m.applied = 0 => n.target = 0 /\ n.applied = 0
          /\ MotionAllowed(m) => MotionAllowed(n)
          /\ RelayAllowed(m) => RelayAllowed(n)
      BY <1>5, RampGood
    <3>2. Tick(m, t, h) = n
      BY <2>1, <2>4
    <3> QED BY <3>1, <3>2, <2>2
  <2> QED BY <2>2, <2>3, <2>4, ConnectionGood
<1> QED BY <1>1, <1>2, <1>3, <1>4, <1>5 DEF MotorHealth

\* A heartbeat changes nothing that the invariants read.
LEMMA HeartbeatKeeps ==
  ASSUME NEW m, Good(m), NEW t \in Millis
  PROVE  LET n == NoteHeartbeat(m, t)
         IN  /\ n.state = m.state /\ n.target = m.target
             /\ n.applied = m.applied
             /\ MotionAllowed(m) => MotionAllowed(n)
             /\ RelayAllowed(m) => RelayAllowed(n)
  BY DEF Good, SafetyMachine, NoteHeartbeat, MotionAllowed, RelayAllowed,
         Latched

\* Clearing hz, as the motor task does, changes nothing else.
LEMMA ObservedGood ==
  ASSUME NEW m, Good(m)
  PROVE  LET n == [m EXCEPT !.hz = FALSE]
         IN  /\ Good(n) /\ n.hz = FALSE
             /\ n.state = m.state /\ n.target = m.target
             /\ n.applied = m.applied
             /\ MotionAllowed(n) = MotionAllowed(m)
             /\ RelayAllowed(n) = RelayAllowed(m)
             /\ AppliedPercent(n) = AppliedPercent(m)
  BY DEF Good, SafetyMachine, Consistent, MotionAllowed, RelayAllowed,
         Latched, AppliedPercent

\* The machine of a fresh boot is quiet.
LEMMA NewMachineGood ==
  /\ Zeroed(NewMachine)
  /\ NewMachine.state = "BOOT"
  BY ZeroMilli, HardCmdTimeoutAssumption
     DEF Zeroed, Good, SafetyMachine, Consistent, NewMachine, EspStates,
         FaultCodes, ControlModes

-----------------------------------------------------------------------------
(* The two tasks                                                           *)

\* What is in flight is a frame.
LEMMA FrameFacts ==
  ASSUME NEW f \in Frame
  PROVE  /\ f.type = "ARM" => f.nonce \in Nat /\ f.mode \in ControlModes
         /\ f.type = "CMD_VEL" => /\ f.target \in Int /\ f.timeout \in Nat
                                  /\ f.mode \in ControlModes
         /\ f.type = "RELAY" => f.value \in BOOLEAN
         /\ f.type = "SET_LIMITS" => f.timeout \in Nat
  BY DEF Frame

\* The states of the loop task.
LoopTask == [pc : {"setup", "idle", "handle", "relays_off", "wait"},
             frame : Frame, now : Millis, at_rest : BOOLEAN]

\* The state of the communication task has its type.
LEMMA LoopAtFacts ==
  ASSUME NEW pc \in {"setup", "idle", "handle", "relays_off", "wait"}
  PROVE  /\ LoopAt(pc) \in LoopTask /\ LoopAt(pc).pc = pc
         /\ now \in Millis =>
              LoopSince(pc) \in LoopTask /\ LoopSince(pc).pc = pc
<1>1. NoFrame \in Frame
  BY DEF NoFrame, Frame
<1> QED BY <1>1, ZeroMilli DEF LoopTask, LoopAt, LoopSince

\* A handler that hard-zeros: the machine is quiet, the old acknowledgement no
\* longer counts, and the relays that stay on are still allowed.
LEMMA ZeroStep ==
  ASSUME Inductive, loop.pc = "handle",
         NEW m, Zeroed(m), NEW pc \in {"wait", "relays_off"},
         ZeroThen(m, pc),
         relay => RelayAllowed(m) \/ pc = "relays_off",
         since_auth' \in Nat
  PROVE  Inductive'
<1>1. /\ sm' = m /\ ~acked' /\ ~licensed' /\ loop'.pc = pc
      /\ UNCHANGED <<now, motor, out, relay>>
      /\ loop' \in LoopTask
  BY LoopAtFacts DEF ZeroThen, Zeroed, Inductive, TypeOK
<1>2. TypeOK'
  BY <1>1 DEF Inductive, TypeOK, LoopTask, Zeroed, Good, ZeroThen
<1>3. StateConsistent'
  BY <1>1 DEF StateConsistent, Zeroed, Good
<1>4. MotionNeedsAuthority' /\ RelaySafe'
  BY <1>1 DEF MotionNeedsAuthority, Zeroing, RelaySafe
<1>5. MotionLicensed' /\ AckMeansZero'
  BY <1>1 DEF MotionLicensed, AckMeansZero, Zeroed
<1>6. BootUntilSetup' /\ HelloRelaysOff'
  BY <1>1 DEF BootUntilSetup, HelloRelaysOff
<1> QED BY <1>2, <1>3, <1>4, <1>5, <1>6 DEF Inductive

\* The critical section of the motor task.
LEMMA TickStep ==
  ASSUME Inductive, TickMotor
  PROVE  Inductive'
<1> DEFINE seen == [sm EXCEPT !.hz = FALSE]
<1>1. PICK health \in MotorHealth : TickWith(Tick(seen, motor.now, health))
  BY DEF TickMotor
<1> DEFINE ticked == Tick(seen, motor.now, health)
<1>2. Good(sm) /\ motor.now \in Millis
  BY DEF Inductive, TypeOK, StateConsistent, Good
<1>3. /\ Good(seen) /\ seen.hz = FALSE
      /\ seen.state = sm.state /\ seen.target = sm.target
      /\ seen.applied = sm.applied
      /\ MotionAllowed(seen) = MotionAllowed(sm)
      /\ RelayAllowed(seen) = RelayAllowed(sm)
  BY <1>2, ObservedGood
<1> HIDE DEF seen
<1>4. /\ Good(ticked)
      /\ \/ Zeroed(ticked)
         \/ /\ ticked.hz = seen.hz
            /\ seen.target = 0 /\ seen.applied = 0
                 => ticked.target = 0 /\ ticked.applied = 0
            /\ MotionAllowed(seen) => MotionAllowed(ticked)
            /\ RelayAllowed(seen) => RelayAllowed(ticked)
      /\ seen.state = "BOOT" => ticked.state = "BOOT"
  BY <1>2, <1>3, TickGood
<1>5. TickWith(ticked)
  BY <1>1 DEF seen
<1> HIDE DEF ticked
<1>6. sm' = [ticked EXCEPT !.hz = FALSE]
  BY <1>5 DEF TickWith
<1>7. /\ Good(sm')
      /\ sm'.state = ticked.state /\ sm'.target = ticked.target
      /\ sm'.applied = ticked.applied
      /\ MotionAllowed(sm') = MotionAllowed(ticked)
      /\ RelayAllowed(sm') = RelayAllowed(ticked)
  BY <1>4, <1>6, ObservedGood
<1>8. /\ UNCHANGED <<now, loop, since_auth>>
      /\ motor' = [motor EXCEPT !.pc = "poll"]
  BY DEF TickMotor
<1>9. AppliedPercent(ticked) \in Int /\ ticked.hz \in BOOLEAN
  BY <1>4 DEF Good, SafetyMachine, AppliedPercent
<1>10. TypeOK'
  <2>0. out \in Int /\ acked \in BOOLEAN
    BY DEF Inductive, TypeOK
  <2>1. out' \in Int
    BY <1>5, <1>9, <2>0 DEF TickWith
  <2>4. acked' \in BOOLEAN
    BY <1>5, <2>0 DEF TickWith
  <2>2. motor' \in [pc : {"poll", "tick"}, now : Millis]
    BY <1>8 DEF Inductive, TypeOK
  <2>3. relay' \in BOOLEAN /\ licensed' \in BOOLEAN
    BY <1>5 DEF TickWith, Inductive, TypeOK
  <2> QED BY <1>7, <1>8, <2>1, <2>2, <2>3, <2>4
          DEF Inductive, TypeOK, Good
<1>11. StateConsistent'
  BY <1>7 DEF StateConsistent, Good
<1>12. MotionLicensed'
  <2>1. Zeroing' => ~licensed'
    BY <1>5, <1>8 DEF TickWith, Inductive, MotionLicensed, Zeroing
  <2>2. CASE Zeroed(ticked)
    BY <2>1, <2>2, <1>7 DEF MotionLicensed, Zeroed
  <2>3. CASE ~Zeroed(ticked)
    BY <2>1, <2>3, <1>3, <1>4, <1>5, <1>7
       DEF MotionLicensed, Inductive, TickWith
  <2> QED BY <2>2, <2>3
<1>13. \/ out' = 0
       \/ /\ ~ticked.hz /\ out' \in {out, AppliedPercent(ticked)}
          /\ acked' = acked
  BY <1>5 DEF TickWith
<1>14. AppliedPercent(ticked) # 0 =>
          MotionAllowed(ticked) /\ ticked.applied # 0
  BY DEF AppliedPercent
<1>15. MotionNeedsAuthority'
  <2> SUFFICES ASSUME out' # 0, ~Zeroing' PROVE MotionAllowed(sm') /\ licensed'
    BY DEF MotionNeedsAuthority
  <2>0. ~ticked.hz /\ ~Zeroing
    BY <1>8, <1>13 DEF Zeroing
  <2>1. ~ticked.hz /\ ~Zeroing /\ licensed' = licensed /\ ~Zeroed(ticked)
    BY <2>0, <1>5 DEF TickWith, Zeroed, Inductive, TypeOK
  <2>2. CASE out' = out
    BY <2>1, <2>2, <1>3, <1>4, <1>7 DEF Inductive, MotionNeedsAuthority
  <2>3. CASE out' = AppliedPercent(ticked)
    BY <2>1, <2>3, <1>3, <1>4, <1>7, <1>14 DEF Inductive, MotionLicensed
  <2> QED BY <1>13, <2>2, <2>3
<1>16. AckMeansZero'
  <2> SUFFICES ASSUME Zeroing', acked', out' # 0 PROVE FALSE
    BY DEF AckMeansZero
  <2>1. Zeroing /\ acked /\ ~ticked.hz /\ out' \in {out, AppliedPercent(ticked)}
    BY <1>8, <1>13 DEF Zeroing
  <2>2. out = 0 /\ sm.target = 0 /\ sm.applied = 0
    BY <2>1 DEF Inductive, AckMeansZero, MotionLicensed
  <2>3. ticked.applied = 0
    BY <2>1, <2>2, <1>3, <1>4 DEF Zeroed
  <2> QED BY <2>1, <2>2, <2>3, <1>14
<1>17. RelaySafe' /\ HelloRelaysOff'
  BY <1>5, <1>7, <1>8 DEF TickWith, RelaySafe, Inductive, HelloRelaysOff
<1>18. BootUntilSetup'
  BY <1>3, <1>4, <1>7, <1>8 DEF Inductive, BootUntilSetup
<1> QED
  BY <1>10, <1>11, <1>12, <1>15, <1>16, <1>17, <1>18 DEF Inductive

\* The first state satisfies the invariant.
LEMMA InitStep ==
  ASSUME Init
  PROVE  Inductive
<1>1. TypeOK
  <2>1. SinceMax \in Nat
    BY TaskWatchdogAssumption, HardCmdTimeoutAssumption, MaxSkewAssumption
       DEF SinceMax
  <2>2. loop \in LoopTask
    BY LoopAtFacts DEF Init
  <2>3. SafetyMachine(sm)
    BY NewMachineGood DEF Init, Zeroed, Good
  <2>4. motor \in [pc : {"poll", "tick"}, now : Millis] /\ now \in Millis
    BY DEF Init
  <2>5. /\ acked \in BOOLEAN /\ relay \in BOOLEAN /\ licensed \in BOOLEAN
    BY Zenon DEF Init
  <2>6. out \in Int /\ since_auth \in Nat
    BY <2>1 DEF Init
  <2> QED BY <2>2, <2>3, <2>4, <2>5, <2>6 DEF TypeOK, LoopTask
<1>2. StateConsistent /\ BootUntilSetup
  BY NewMachineGood DEF Init, StateConsistent, BootUntilSetup, Zeroed, Good
<1>3. MotionNeedsAuthority /\ RelaySafe /\ MotionLicensed
  BY NewMachineGood
     DEF Init, MotionNeedsAuthority, RelaySafe, MotionLicensed, Zeroed,
         Zeroing, LoopAt
<1>4. AckMeansZero /\ HelloRelaysOff
  BY DEF Init, AckMeansZero, HelloRelaysOff
<1> QED BY <1>1, <1>2, <1>3, <1>4 DEF Inductive

\* A panic restarts the firmware into a state that satisfies the invariant.
LEMMA PanicStep ==
  ASSUME Inductive, Panic
  PROVE  Inductive'
<1>1. TypeOK'
  <2>1. SinceMax \in Nat
    BY TaskWatchdogAssumption, HardCmdTimeoutAssumption, MaxSkewAssumption
       DEF SinceMax
  <2>2. loop' \in LoopTask
    BY LoopAtFacts DEF Panic
  <2>3. SafetyMachine(sm')
    BY NewMachineGood DEF Panic, Zeroed, Good
  <2>4. motor' \in [pc : {"poll", "tick"}, now : Millis] /\ now' \in Millis
    BY DEF Panic, Inductive, TypeOK
  <2>5. /\ acked' \in BOOLEAN /\ relay' \in BOOLEAN /\ licensed' \in BOOLEAN
    BY Zenon DEF Panic
  <2>6. out' \in Int /\ since_auth' \in Nat
    BY <2>1 DEF Panic
  <2> QED BY <2>2, <2>3, <2>4, <2>5, <2>6 DEF TypeOK, LoopTask
<1>2. StateConsistent' /\ BootUntilSetup'
  BY NewMachineGood DEF Panic, StateConsistent, BootUntilSetup, Zeroed, Good
<1>3. MotionNeedsAuthority' /\ RelaySafe' /\ MotionLicensed'
  BY NewMachineGood
     DEF Panic, MotionNeedsAuthority, RelaySafe, MotionLicensed, Zeroed,
         Zeroing, LoopAt
<1>4. AckMeansZero' /\ HelloRelaysOff'
  BY DEF Panic, AckMeansZero, HelloRelaysOff
<1> QED BY <1>1, <1>2, <1>3, <1>4 DEF Inductive

\* Steps that leave the machine, the output and the license alone: time, the
\* clock sample of the motor task, and the frame and wait steps of the loop.
LEMMA QuietStep ==
  ASSUME Inductive,
         Advance \/ PollMotor \/ Receive \/ EnforceRelaySafety \/ ZeroAcked
           \/ EstopRelaysOff \/ UNCHANGED vars
  PROVE  Inductive'
<1>1. CASE Advance
  <2>1. now' \in Millis /\ since_auth' \in Nat
    BY <1>1, ClockFacts, TaskWatchdogAssumption, HardCmdTimeoutAssumption,
       MaxSkewAssumption
       DEF Advance, Inductive, TypeOK, SinceMax
  <2> QED BY <1>1, <2>1
          DEF Advance, Inductive, TypeOK, StateConsistent,
              MotionNeedsAuthority, RelaySafe, MotionLicensed, AckMeansZero,
              BootUntilSetup, HelloRelaysOff, Zeroing
<1>2. CASE PollMotor
  BY <1>2 DEF PollMotor, Inductive, TypeOK, StateConsistent,
              MotionNeedsAuthority, RelaySafe, MotionLicensed, AckMeansZero,
              BootUntilSetup, HelloRelaysOff, Zeroing
<1>3. CASE Receive
  <2>1. PICK f \in Frames, rest \in BOOLEAN :
          /\ loop' = [pc |-> "handle", frame |-> f, now |-> now,
                      at_rest |-> rest]
          /\ relay' = (relay /\ f.type \notin {"HELLO", "BAD_HELLO"})
    BY <1>3 DEF Receive, MayBeAtRest
  <2>2. loop' \in LoopTask /\ f \in Frame
    BY <2>1, FramesAssumption DEF Inductive, TypeOK, LoopTask
  <2>3. loop.pc = "idle" /\ loop'.pc = "handle" /\ loop'.frame = f
        /\ UNCHANGED <<now, sm, motor, acked, out, since_auth, licensed>>
    BY <1>3, <2>1 DEF Receive
  <2>4. TypeOK' /\ StateConsistent'
    BY <2>1, <2>2, <2>3
       DEF Inductive, TypeOK, LoopTask, StateConsistent
  <2>5. MotionNeedsAuthority' /\ RelaySafe' /\ MotionLicensed'
        /\ AckMeansZero' /\ BootUntilSetup'
    BY <2>1, <2>3
       DEF Inductive, MotionNeedsAuthority, RelaySafe, MotionLicensed,
           AckMeansZero, BootUntilSetup, Zeroing
  <2>6. HelloRelaysOff'
    BY <2>1, <2>3 DEF HelloRelaysOff
  <2> QED BY <2>4, <2>5, <2>6 DEF Inductive
<1>4. CASE EnforceRelaySafety
  BY <1>4 DEF EnforceRelaySafety, Inductive, TypeOK, StateConsistent,
              MotionNeedsAuthority, RelaySafe, MotionLicensed, AckMeansZero,
              BootUntilSetup, HelloRelaysOff, Zeroing
<1>5. CASE ZeroAcked
  <2>1. loop' \in LoopTask /\ loop'.pc = "idle" /\ loop.pc = "wait" /\ acked
        /\ UNCHANGED <<now, sm, motor, acked, out, relay, since_auth, licensed>>
    BY <1>5, LoopAtFacts DEF ZeroAcked
  <2> QED BY <2>1 DEF Inductive, TypeOK, LoopTask, StateConsistent,
              MotionNeedsAuthority, RelaySafe, MotionLicensed, AckMeansZero,
              BootUntilSetup, HelloRelaysOff, Zeroing
<1>6. CASE EstopRelaysOff
  <2>1. loop' \in LoopTask /\ loop'.pc = "wait" /\ loop.pc = "relays_off"
        /\ relay' = FALSE
        /\ UNCHANGED <<now, sm, motor, acked, out, since_auth, licensed>>
    BY <1>6, LoopAtFacts DEF EstopRelaysOff, Inductive, TypeOK
  <2> QED BY <2>1 DEF Inductive, TypeOK, LoopTask, StateConsistent,
              MotionNeedsAuthority, RelaySafe, MotionLicensed, AckMeansZero,
              BootUntilSetup, HelloRelaysOff, Zeroing
<1>7. CASE UNCHANGED vars
  BY <1>7 DEF vars, Inductive, TypeOK, StateConsistent,
              MotionNeedsAuthority, RelaySafe, MotionLicensed, AckMeansZero,
              BootUntilSetup, HelloRelaysOff, Zeroing
<1> QED BY <1>1, <1>2, <1>3, <1>4, <1>5, <1>6, <1>7

\* Steps of the loop task that return it to the next frame.
LEMMA ReturnStep ==
  ASSUME Inductive,
         FinishSetup \/ Heartbeat \/ HandleCmdVel \/ HandleRelay
           \/ ZeroFallback
  PROVE  Inductive'
<1>1. Good(sm) /\ loop.now \in Millis /\ loop.frame \in Frame /\ now \in Millis
  BY DEF Inductive, TypeOK, StateConsistent, Good
<1>2. LoopAt("idle") \in LoopTask /\ LoopAt("idle").pc = "idle"
  BY LoopAtFacts
<1>3. CASE FinishSetup
  <2>1. Zeroed(sm') /\ loop'.pc = "idle" /\ loop' \in LoopTask
        /\ UNCHANGED <<now, motor, acked, out, relay, since_auth, licensed>>
    BY <1>1, <1>2, <1>3, BootGood DEF FinishSetup
  <2>2. sm.state = "BOOT" /\ loop.pc = "setup"
    BY <1>3 DEF FinishSetup, Inductive, BootUntilSetup
  <2>3. out = 0 /\ ~relay
    BY <2>2 DEF Inductive, MotionNeedsAuthority, RelaySafe, MotionAllowed,
                RelayAllowed, Zeroing
  <2>4. TypeOK' /\ StateConsistent'
    BY <2>1 DEF Inductive, TypeOK, LoopTask, StateConsistent, Zeroed, Good
  <2> QED BY <2>1, <2>3, <2>4
          DEF Inductive, MotionNeedsAuthority, RelaySafe, MotionLicensed,
              AckMeansZero, BootUntilSetup, HelloRelaysOff, Zeroing, Zeroed
<1>4. CASE Heartbeat
  <2>1. /\ loop.pc = "handle" /\ loop'.pc = "idle" /\ loop' \in LoopTask
        /\ UNCHANGED <<now, motor, acked, out, relay, since_auth, licensed>>
        /\ sm' = NoteHeartbeat(sm, loop.now)
    BY <1>2, <1>4 DEF Heartbeat, Handling
  <2>2. /\ Good(sm')
        /\ sm'.state = sm.state /\ sm'.target = sm.target
        /\ sm'.applied = sm.applied
        /\ MotionAllowed(sm) => MotionAllowed(sm')
        /\ RelayAllowed(sm) => RelayAllowed(sm')
    BY <1>1, <2>1, HeartbeatGood, HeartbeatKeeps
  <2>3. TypeOK' /\ StateConsistent'
    BY <2>1, <2>2 DEF Inductive, TypeOK, LoopTask, StateConsistent, Good
  <2> QED BY <2>1, <2>2, <2>3
          DEF Inductive, MotionNeedsAuthority, RelaySafe, MotionLicensed,
              AckMeansZero, BootUntilSetup, HelloRelaysOff, Zeroing
<1>5. CASE HandleCmdVel
  <2> DEFINE f == loop.frame
  <2>1. /\ loop.pc = "handle" /\ f.type = "CMD_VEL"
        /\ loop'.pc = "idle" /\ loop' \in LoopTask
        /\ UNCHANGED <<now, motor, acked, out, relay>>
        /\ sm' = CommandVelocity(sm, f.target, f.mode, f.timeout, loop.now)
    BY <1>2, <1>5 DEF HandleCmdVel, Handling
  <2>2. /\ Good(sm')
        /\ MotionAllowed(sm) => MotionAllowed(sm')
        /\ RelayAllowed(sm) => RelayAllowed(sm')
    BY <1>1, <2>1, FrameFacts, CommandVelocityGood
  <2>3. \/ licensed' = TRUE /\ since_auth' \in Nat
        \/ sm' = sm /\ licensed' = licensed /\ since_auth' = since_auth
    BY <1>1, <1>5, ClockFacts DEF HandleCmdVel, CommandVelocity
  <2>4. TypeOK' /\ StateConsistent'
    BY <2>1, <2>2, <2>3
       DEF Inductive, TypeOK, LoopTask, StateConsistent, Good
  <2> QED BY <2>1, <2>2, <2>3, <2>4
          DEF Inductive, MotionNeedsAuthority, RelaySafe, MotionLicensed,
              AckMeansZero, BootUntilSetup, HelloRelaysOff, Zeroing
<1>6. CASE HandleRelay
  <2>1. /\ loop.pc = "handle" /\ loop'.pc = "idle" /\ loop' \in LoopTask
        /\ relay' \in BOOLEAN
        /\ relay' => RelayAllowed(sm) \/ relay
        /\ UNCHANGED <<now, sm, motor, acked, out, since_auth, licensed>>
    BY <1>1, <1>2, <1>6, FrameFacts
       DEF HandleRelay, Handling, Inductive, TypeOK
  <2>2. TypeOK' /\ StateConsistent'
    BY <2>1 DEF Inductive, TypeOK, LoopTask, StateConsistent
  <2> QED BY <2>1, <2>2
          DEF Inductive, MotionNeedsAuthority, RelaySafe, MotionLicensed,
              AckMeansZero, BootUntilSetup, HelloRelaysOff, Zeroing
<1>7. CASE ZeroFallback
  <2>1. /\ loop.pc = "wait" /\ loop'.pc = "idle" /\ loop' \in LoopTask
        /\ out' = 0 /\ acked' = TRUE
        /\ UNCHANGED <<now, sm, motor, relay, since_auth, licensed>>
    BY <1>2, <1>7 DEF ZeroFallback
  <2> QED BY <2>1
          DEF Inductive, TypeOK, LoopTask, StateConsistent,
              MotionNeedsAuthority, RelaySafe, MotionLicensed,
              AckMeansZero, BootUntilSetup, HelloRelaysOff, Zeroing
<1> QED BY <1>3, <1>4, <1>5, <1>6, <1>7

\* The handlers that hard-zero.
LEMMA HandlerStep ==
  ASSUME Inductive,
         Hello \/ RejectHello \/ HandleArm \/ HandleDisarm \/ HandleStop
           \/ HandleEstop \/ HandleResetEstop \/ HandleResetFault
           \/ HandleSetLimits
  PROVE  Inductive'
<1> DEFINE f == loop.frame
<1>1. /\ Good(sm) /\ loop.now \in Millis /\ f \in Frame
      /\ loop.at_rest \in BOOLEAN /\ now \in Millis /\ since_auth \in Nat
  BY DEF Inductive, TypeOK, StateConsistent, Good
<1>2. loop.pc = "handle"
  BY DEF Hello, RejectHello, HandleArm, HandleDisarm, HandleStop, HandleEstop,
         HandleResetEstop, HandleResetFault, HandleSetLimits, Handling
<1>3. relay => RelayAllowed(sm)
  BY <1>2 DEF Inductive, RelaySafe
<1>4. CASE Hello
  <2>1. ~relay
    BY <1>4 DEF Hello, Handling, Inductive, HelloRelaysOff
  <2> QED BY <1>1, <1>2, <1>4, <2>1, HelloGood, ZeroStep DEF Hello
<1>5. CASE RejectHello
  <2>1. ~relay
    BY <1>5 DEF RejectHello, Handling, Inductive, HelloRelaysOff
  <2> QED BY <1>1, <1>2, <1>5, <2>1, LostGood, ZeroStep DEF RejectHello
<1>6. CASE HandleArm
  <2> DEFINE m == Arm(sm, f.nonce, f.mode, loop.at_rest, loop.now)
  <2>1. f.nonce \in Nat /\ f.mode \in ControlModes
    BY <1>1, <1>6, FrameFacts DEF HandleArm, Handling
  <2>2. Zeroed(m) /\ (relay => RelayAllowed(m))
    BY <1>1, <1>3, <2>1, ArmGood
  <2>3. ZeroThen(m, "wait")
    BY <1>6 DEF HandleArm
  <2>4. since_auth' \in Nat
    BY <1>1, <1>6, ClockFacts DEF HandleArm
  <2> HIDE DEF m
  <2> QED BY <1>2, <2>2, <2>3, <2>4, ZeroStep
<1>7. CASE HandleDisarm
  BY <1>1, <1>2, <1>3, <1>7, DisarmGood, ZeroStep DEF HandleDisarm
<1>8. CASE HandleStop
  BY <1>1, <1>2, <1>3, <1>8, StopGood, ZeroStep DEF HandleStop
<1>9. CASE HandleEstop
  BY <1>1, <1>2, <1>9, EstopGood, ZeroStep DEF HandleEstop
<1>10. CASE HandleResetEstop
  BY <1>1, <1>2, <1>3, <1>10, ResetEstopGood, ZeroStep DEF HandleResetEstop
<1>11. CASE HandleResetFault
  BY <1>1, <1>2, <1>3, <1>11, ResetFaultGood, ZeroStep DEF HandleResetFault
<1>12. CASE HandleSetLimits
  <2>1. f.timeout \in Nat
    BY <1>1, <1>12, FrameFacts DEF HandleSetLimits, Handling
  <2> QED BY <1>1, <1>2, <1>3, <1>12, <2>1, SetLimitsGood, ZeroStep
          DEF HandleSetLimits
<1> QED BY <1>4, <1>5, <1>6, <1>7, <1>8, <1>9, <1>10, <1>11, <1>12

\* Every step preserves the inductive invariant.
LEMMA NextStep ==
  ASSUME Inductive, [Next]_vars
  PROVE  Inductive'
<1> SUFFICES ASSUME Next PROVE Inductive'
  BY QuietStep
<1> QED
  BY PanicStep, TickStep, QuietStep, ReturnStep, HandlerStep
     DEF Next, Motor, Loop, Handle

\* Whatever the widths, deadlines, delays and frames, the two tasks of the
\* firmware keep the inductive invariant.
THEOREM InductiveInvariant == Spec => []Inductive
  BY InitStep, NextStep, PTL DEF Spec

\* Every variable of the firmware model keeps its type.
THEOREM TypeCorrect == Spec => []TypeOK
<1>1. Inductive => TypeOK
  BY DEF Inductive
<1> QED BY <1>1, InductiveInvariant, PTL

\* The redundant fields of SafetyMachine never disagree.
THEOREM MachineConsistent == Spec => []StateConsistent
<1>1. Inductive => StateConsistent
  BY DEF Inductive
<1> QED BY <1>1, InductiveInvariant, PTL

\* The motor controller is told to move only with authority and after a
\* CMD_VEL newer than the last acknowledged command to stop.
THEOREM AuthorityHolds == Spec => []MotionNeedsAuthority
<1>1. Inductive => MotionNeedsAuthority
  BY DEF Inductive
<1> QED BY <1>1, InductiveInvariant, PTL

\* A relay is on only where relayAllowedMask permits it, the two critical
\* sections of the ESTOP handler excepted.
THEOREM RelaysHold == Spec => []RelaySafe
<1>1. Inductive => RelaySafe
  BY DEF Inductive
<1> QED BY <1>1, InductiveInvariant, PTL

-----------------------------------------------------------------------------
(* What a step may never do                                                *)

\* Releases no latch.
KeepsLatch(m, n) == Latched(m) => Latched(n)

\* Gives no authority.
NeverArms(m, n) == m.state # "ARMED" => n.state # "ARMED"

\* HELLO, a lost connection, ESTOP and the plain zero commands neither release
\* a latch nor arm.
LEMMA ZeroesAreTame ==
  ASSUME NEW m, Good(m), NEW t \in Millis, NEW d \in Nat
  PROVE  /\ KeepsLatch(m, HardZero(m)) /\ NeverArms(m, HardZero(m))
         /\ KeepsLatch(m, AcceptHello(m, t)) /\ NeverArms(m, AcceptHello(m, t))
         /\ KeepsLatch(m, ConnectionLost(m)) /\ NeverArms(m, ConnectionLost(m))
         /\ KeepsLatch(m, Disarm(m)) /\ NeverArms(m, Disarm(m))
         /\ KeepsLatch(m, Estop(m)) /\ NeverArms(m, Estop(m))
         /\ KeepsLatch(m, SetLimits(m, d)) /\ NeverArms(m, SetLimits(m, d))
<1> DEFINE z == HardZero(m)
<1>1. /\ z.state = m.state /\ z.fault = m.fault /\ z.estop = m.estop
      /\ SafetyMachine(z)
  BY HardZeroGood DEF Zeroed, Good
<1>2. KeepsLatch(m, z) /\ NeverArms(m, z)
  BY <1>1 DEF KeepsLatch, NeverArms, Latched
<1>3. /\ KeepsLatch(m, AcceptHello(m, t))
      /\ NeverArms(m, AcceptHello(m, t))
  <2>1. /\ AcceptHello(m, t).fault = z.fault
        /\ AcceptHello(m, t).estop = z.estop
        /\ AcceptHello(m, t).state \in {z.state, "DISARMED"}
    BY <1>1 DEF AcceptHello, SafetyMachine
  <2> QED BY <1>1, <2>1 DEF KeepsLatch, NeverArms, Latched
<1>4. /\ KeepsLatch(m, ConnectionLost(m))
      /\ NeverArms(m, ConnectionLost(m))
  <2>1. /\ ConnectionLost(m).fault = z.fault
        /\ ConnectionLost(m).estop = z.estop
        /\ ConnectionLost(m).state \in {z.state, "DISCONNECTED"}
    BY <1>1 DEF ConnectionLost, SafetyMachine
  <2> QED BY <1>1, <2>1 DEF KeepsLatch, NeverArms, Latched
<1>5. KeepsLatch(m, Disarm(m)) /\ NeverArms(m, Disarm(m))
  <2>1. /\ Disarm(m).fault = z.fault /\ Disarm(m).estop = z.estop
        /\ Disarm(m).state \in {z.state, "DISARMED"}
    BY <1>1 DEF Disarm, SafetyMachine
  <2> QED BY <1>1, <2>1 DEF KeepsLatch, NeverArms, Latched
<1>6. KeepsLatch(m, Estop(m)) /\ NeverArms(m, Estop(m))
  <2>1. CASE m.estop /\ m.state = "ESTOP"
    BY <2>1, <1>2 DEF Estop
  <2>2. CASE ~(m.estop /\ m.state = "ESTOP")
    <3>1. Estop(m).estop = TRUE /\ Estop(m).state = "ESTOP"
      BY <1>1, <2>2 DEF Estop, SafetyMachine
    <3> QED BY <3>1 DEF KeepsLatch, NeverArms, Latched
  <2> QED BY <2>1, <2>2
<1>7. KeepsLatch(m, SetLimits(m, d)) /\ NeverArms(m, SetLimits(m, d))
  <2>1. /\ SetLimits(m, d).fault = z.fault /\ SetLimits(m, d).estop = z.estop
        /\ SetLimits(m, d).state = z.state
    BY <1>1 DEF SetLimits, SafetyMachine
  <2> QED BY <1>1, <2>1 DEF KeepsLatch, NeverArms, Latched
<1> QED BY <1>2, <1>3, <1>4, <1>5, <1>6, <1>7

LEMMA MotionIsTame ==
  ASSUME NEW m, Good(m), NEW t \in Millis, NEW g, NEW mode, NEW d
  PROVE  LET n == CommandVelocity(m, g, mode, d, t)
             h == NoteHeartbeat(m, t)
         IN  /\ KeepsLatch(m, n) /\ NeverArms(m, n)
             /\ KeepsLatch(m, h) /\ NeverArms(m, h)
  BY DEF Good, SafetyMachine, CommandVelocity, NoteHeartbeat, KeepsLatch,
         NeverArms, Latched

LEMMA TickIsTame ==
  ASSUME NEW m, Good(m), NEW t \in Millis, NEW h \in MotorHealth
  PROVE  LET n == Tick([m EXCEPT !.hz = FALSE], t, h)
         IN  KeepsLatch(m, n) /\ NeverArms(m, n)
<1> DEFINE s == [m EXCEPT !.hz = FALSE]
<1>1. /\ Good(s) /\ s.state = m.state /\ s.estop = m.estop
      /\ s.fault = m.fault
  BY ObservedGood DEF Good, SafetyMachine
<1> HIDE DEF s
<1>2. CASE m.state # "ARMED"
  <2>1. Tick(s, t, h) = CheckConnection(s, t)
    BY <1>1, <1>2 DEF Tick
  <2>2. KeepsLatch(s, ConnectionLost(s)) /\ NeverArms(s, ConnectionLost(s))
    BY <1>1, ZeroesAreTame
  <2>3. KeepsLatch(s, Tick(s, t, h)) /\ NeverArms(s, Tick(s, t, h))
    BY <1>1, <2>1, <2>2, ConnectionGood DEF KeepsLatch, NeverArms
  <2> QED BY <1>1, <2>3 DEF KeepsLatch, NeverArms, Latched, s
<1>3. CASE m.state = "ARMED"
  <2>1. ~Latched(m)
    BY <1>3 DEF Good, Consistent, Latched
  <2> QED BY <1>3, <2>1 DEF KeepsLatch, NeverArms
<1> QED BY <1>2, <1>3

LEMMA ArmIsTame ==
  ASSUME NEW m, Good(m), NEW n, NEW mode, NEW r, NEW t
  PROVE  /\ KeepsLatch(m, Arm(m, n, mode, r, t))
         /\ \/ NeverArms(m, Arm(m, n, mode, r, t))
            \/ Arm(m, n, mode, r, t).last_nonce = n /\ n # m.last_nonce
<1>1. CASE ArmOK(m, n, mode, r)
  <2>1. ~Latched(m) /\ n # m.last_nonce
    BY <1>1 DEF ArmOK, Latched
  <2>2. SafetyMachine(HardZero(m))
    BY HardZeroGood DEF Zeroed, Good
  <2>3. Arm(m, n, mode, r, t).last_nonce = n
    BY <1>1, <2>2 DEF Arm, SafetyMachine
  <2> QED BY <2>1, <2>3 DEF KeepsLatch
<1>2. CASE ~ArmOK(m, n, mode, r)
  <2>1. Arm(m, n, mode, r, t) = HardZero(m)
    BY <1>2 DEF Arm
  <2>2. KeepsLatch(m, HardZero(m)) /\ NeverArms(m, HardZero(m))
    BY ZeroesAreTame, ZeroMilli
  <2> QED BY <2>1, <2>2
<1> QED BY <1>1, <1>2

LEMMA ResetsAreTame ==
  ASSUME NEW m, Good(m), NEW r
  PROVE  LET e == ResetEstop(m, r)
             f == ResetFault(m, r)
         IN  /\ NeverArms(m, e) /\ NeverArms(m, f)
             /\ KeepsLatch(m, e) \/ e.state = "DISARMED"
             /\ KeepsLatch(m, f) \/ f.state = "DISARMED"
<1> DEFINE z == HardZero(m)
<1>1. /\ z.state = m.state /\ z.fault = m.fault /\ z.estop = m.estop
      /\ SafetyMachine(z)
  BY HardZeroGood DEF Zeroed, Good
<1>2. \/ ResetEstop(m, r) = z
      \/ ResetEstop(m, r).state = "DISARMED"
  BY <1>1 DEF ResetEstop, SafetyMachine
<1>3. \/ ResetFault(m, r) = z
      \/ ResetFault(m, r).state = "DISARMED"
      \/ ResetFault(m, r).state = z.state /\ ResetFault(m, r).estop = TRUE
  BY <1>1 DEF ResetFault, SafetyMachine
<1>4. KeepsLatch(m, z) /\ NeverArms(m, z)
  BY <1>1 DEF KeepsLatch, NeverArms, Latched
<1> QED BY <1>1, <1>2, <1>3, <1>4 DEF KeepsLatch, NeverArms, Latched

\* A step of the specification either arms nothing and releases no latch, or
\* is one of the steps the properties name.
LEMMA StepKinds ==
  ASSUME Inductive, Next
  PROVE  \/ KeepsLatch(sm, sm') /\ NeverArms(sm, sm')
         \/ Panic
         \/ HandleArm /\ KeepsLatch(sm, sm')
              /\ sm'.last_nonce # sm.last_nonce
         \/ /\ HandleResetEstop \/ HandleResetFault
            /\ NeverArms(sm, sm') /\ sm'.state = "DISARMED"
<1> DEFINE f == loop.frame
<1>1. /\ Good(sm) /\ loop.now \in Millis /\ f \in Frame /\ motor.now \in Millis
  BY DEF Inductive, TypeOK, StateConsistent, Good
<1>2. ASSUME sm' = sm PROVE KeepsLatch(sm, sm') /\ NeverArms(sm, sm')
  BY <1>2 DEF KeepsLatch, NeverArms
<1>3. CASE Advance \/ PollMotor \/ Receive \/ EnforceRelaySafety
             \/ ZeroAcked \/ ZeroFallback \/ EstopRelaysOff \/ HandleRelay
  <2>1. sm' = sm
    BY <1>3 DEF Advance, PollMotor, Receive, EnforceRelaySafety, ZeroAcked,
                ZeroFallback, EstopRelaysOff, HandleRelay
  <2> QED BY <2>1, <1>2
<1>4. CASE TickMotor
  <2>1. PICK h \in MotorHealth :
          TickWith(Tick([sm EXCEPT !.hz = FALSE], motor.now, h))
    BY <1>4 DEF TickMotor
  <2> DEFINE n == Tick([sm EXCEPT !.hz = FALSE], motor.now, h)
  <2>2. KeepsLatch(sm, n) /\ NeverArms(sm, n)
    BY <1>1, TickIsTame
  <2>3. SafetyMachine(n)
    BY <1>1, ObservedGood, TickGood DEF Good
  <2>4. TickWith(n)
    BY <2>1
  <2> HIDE DEF n
  <2>5. sm'.state = n.state /\ sm'.fault = n.fault /\ sm'.estop = n.estop
    BY <2>3, <2>4 DEF TickWith, SafetyMachine
  <2> QED BY <2>2, <2>5 DEF KeepsLatch, NeverArms, Latched
<1>5. CASE FinishSetup
  <2>1. sm.state = "BOOT"
    BY <1>5 DEF FinishSetup, Inductive, BootUntilSetup
  <2>2. ~Latched(sm)
    BY <2>1, <1>1 DEF Good, Consistent, Latched
  <2>3. sm'.state = "DISCONNECTED"
    BY <1>1, <1>5, HardZeroGood
       DEF FinishSetup, CompleteBoot, Zeroed, Good, SafetyMachine
  <2> QED BY <2>2, <2>3 DEF KeepsLatch, NeverArms
<1>6. CASE Hello \/ RejectHello \/ HandleDisarm \/ HandleStop \/ HandleEstop
  BY <1>1, <1>6, ZeroesAreTame, 0 \in Nat
     DEF Hello, RejectHello, HandleDisarm, HandleStop, HandleEstop, ZeroThen,
         Stop
<1>7. CASE HandleSetLimits
  <2>1. f.timeout \in Nat
    BY <1>1, <1>7, FrameFacts DEF HandleSetLimits, Handling
  <2>2. sm' = SetLimits(sm, f.timeout)
    BY <1>7 DEF HandleSetLimits, ZeroThen
  <2> QED BY <1>1, <2>1, <2>2, ZeroesAreTame
<1>8. CASE Heartbeat \/ HandleCmdVel
  BY <1>1, <1>8, MotionIsTame DEF Heartbeat, HandleCmdVel
<1>9. CASE HandleArm
  <2>1. sm' = Arm(sm, f.nonce, f.mode, loop.at_rest, loop.now)
    BY <1>9 DEF HandleArm, ZeroThen
  <2> QED BY <1>1, <1>9, <2>1, ArmIsTame
<1>10. CASE HandleResetEstop \/ HandleResetFault
  <2>1. \/ sm' = ResetEstop(sm, loop.at_rest)
        \/ sm' = ResetFault(sm, loop.at_rest)
    BY <1>10 DEF HandleResetEstop, HandleResetFault, ZeroThen
  <2> QED BY <1>1, <1>10, <2>1, ResetsAreTame
<1> QED
  BY <1>3, <1>4, <1>5, <1>6, <1>7, <1>8, <1>9, <1>10
     DEF Next, Motor, Loop, Handle

\* ARM succeeds only with the motors at zero and with a fresh nonce, however
\* long its handler waited for the lock after it read the telemetry.
THEOREM ArmingAtRest == Spec => ArmsAtRest
<1> DEFINE A == sm.state # "ARMED" /\ sm'.state = "ARMED"
                  => /\ out = 0 /\ out' = 0
                     /\ sm'.last_nonce # sm.last_nonce
                     /\ ~licensed'
<1>1. ASSUME Inductive, [Next]_vars PROVE [A]_vars
  <2> SUFFICES ASSUME Next, sm.state # "ARMED", sm'.state = "ARMED"
               PROVE  /\ out = 0 /\ out' = 0
                      /\ sm'.last_nonce # sm.last_nonce
                      /\ ~licensed'
    BY <1>1
  <2>1. ~Panic
    BY NewMachineGood DEF Panic
  <2>2. HandleArm /\ sm'.last_nonce # sm.last_nonce
    BY <1>1, <2>1, StepKinds DEF NeverArms
  <2>3. loop.pc = "handle" /\ out' = out /\ ~licensed'
    BY <2>2 DEF HandleArm, Handling, ZeroThen
  <2>4. out = 0
    BY <1>1, <2>3
       DEF Inductive, MotionNeedsAuthority, MotionAllowed, Zeroing
  <2> QED BY <2>2, <2>3, <2>4
<1> QED BY <1>1, InductiveInvariant, PTL DEF Spec, ArmsAtRest

\* A latch is released only by a reset frame with the motors at zero and the
\* relays off, or by a reboot.
THEOREM LatchesReleasedAtRest == Spec => LatchReleasedAtRest
<1> DEFINE A == Latched(sm) /\ ~Latched(sm')
                  => /\ out' = 0 /\ ~relay'
                     /\ \/ sm'.state = "BOOT"
                        \/ /\ loop.frame.type \in {"RESET_ESTOP", "RESET_FAULT"}
                           /\ sm'.state = "DISARMED" /\ out = 0
<1>1. ASSUME Inductive, [Next]_vars PROVE [A]_vars
  <2> SUFFICES ASSUME Next, Latched(sm), ~Latched(sm')
               PROVE  /\ out' = 0 /\ ~relay'
                      /\ \/ sm'.state = "BOOT"
                         \/ /\ loop.frame.type \in {"RESET_ESTOP", "RESET_FAULT"}
                            /\ sm'.state = "DISARMED" /\ out = 0
    BY <1>1
  <2>1. CASE Panic
    BY <2>1, NewMachineGood DEF Panic
  <2>2. CASE ~Panic
    <3>1. /\ HandleResetEstop \/ HandleResetFault
          /\ sm'.state = "DISARMED"
      BY <1>1, <2>2, StepKinds DEF KeepsLatch
    <3>2. /\ loop.pc = "handle" /\ out' = out /\ relay' = relay
          /\ loop.frame.type \in {"RESET_ESTOP", "RESET_FAULT"}
      BY <3>1 DEF HandleResetEstop, HandleResetFault, Handling, ZeroThen
    <3>3. out = 0 /\ ~relay
      BY <1>1, <3>2
         DEF Inductive, MotionNeedsAuthority, MotionAllowed, RelaySafe,
             RelayAllowed, Latched, Zeroing
    <3> QED BY <3>1, <3>2, <3>3
  <2> QED BY <2>1, <2>2
<1> QED BY <1>1, InductiveInvariant, PTL DEF Spec, LatchReleasedAtRest

-----------------------------------------------------------------------------
(* What the timed properties rest on                                       *)

\* The age of a stamp: none yet, one more, and seen from an earlier sample.
LEMMA AgeFacts ==
  ASSUME NEW n \in Millis, NEW s \in Millis, NEW m \in Millis
  PROVE  /\ Age(n, s) \in 0..ClockMod - 1
         /\ Age(n, n) = 0
         /\ NextMilli(n) \in Millis
         /\ Age(n, s) + 1 < ClockMod => Age(NextMilli(n), s) = Age(n, s) + 1
         /\ Age(m, s) = IF Age(n, s) >= Age(n, m) THEN Age(n, s) - Age(n, m)
                        ELSE Age(n, s) - Age(n, m) + ClockMod
  BY ClockModAssumption DEF Age, NextMilli, Millis

\* The bounds on the constants that the proofs below use.
LEMMA Ranges ==
  /\ ClockMod \in Nat /\ HardCmdTimeout \in Nat /\ TaskWatchdog \in Nat
  /\ MaxSkew \in Nat /\ SinceMax \in Nat /\ Window \in Nat /\ RampRate \in Nat
  /\ HardCmdTimeout <= Window /\ MaxSkew < Window /\ TaskWatchdog >= 1
  /\ Window + 2 * TaskWatchdog <= ClockMod
  /\ Window + 2 * TaskWatchdog <= SinceMax
  /\ MotorSkew \in Nat /\ MotorSkew <= TaskWatchdog
  /\ MaxSkew + 2 * TaskWatchdog < ClockMod
  BY ClockModAssumption, HardCmdTimeoutAssumption, TaskWatchdogAssumption,
     MaxSkewAssumption, MotorSkewAssumption, ClockRangeAssumption,
     RampRateAssumption
     DEF Window, SinceMax

\* The part of the type the timed properties need.
LEMMA TimedTypes ==
  ASSUME TypeOK
  PROVE  /\ now \in Millis /\ motor.now \in Millis /\ loop.now \in Millis
         /\ sm.ref_ms \in Millis /\ sm.last_ramp_ms \in Millis
         /\ sm.limit \in 1..HardCmdTimeout /\ sm.timeout \in 1..HardCmdTimeout
         /\ sm.hz \in BOOLEAN /\ sm.applied \in Int /\ sm.target \in Int
         /\ since_auth \in Nat /\ Polled \in {0, TaskWatchdog}
         /\ motor.pc \in {"poll", "tick"}
         /\ motor = [pc |-> motor.pc, now |-> motor.now]
  BY DEF TypeOK, SafetyMachine, Polled

\* What a method that commands a stop leaves of the timed fields: nothing of
\* the ramp, and as long as it stays ARMED the reference it had.
Stops(m, n) ==
  /\ n.hz = TRUE /\ n.last_ramp_ms = 0 /\ n.applied = 0
  /\ n.state = "ARMED" => /\ m.state = "ARMED" /\ n.ref_ms = m.ref_ms
                          /\ n.timeout = m.timeout
  /\ n.limit = m.limit \/ m.state # "ARMED"

\* Every method that commands a stop, ARM excepted when it succeeds.
LEMMA MethodsStop ==
  ASSUME NEW m, Good(m), NEW t, NEW d, NEW r, NEW k, NEW mode,
         NEW c \in FaultCodes
  PROVE  /\ Stops(m, HardZero(m)) /\ Stops(m, AcceptHello(m, t))
         /\ Stops(m, ConnectionLost(m)) /\ Stops(m, Disarm(m))
         /\ Stops(m, Estop(m)) /\ Stops(m, ResetEstop(m, r))
         /\ Stops(m, ResetFault(m, r)) /\ Stops(m, SetLimits(m, d))
         /\ Stops(m, CompleteBoot(m))
         /\ ~Latched(m) => Stops(m, EnterFault(m, c))
         /\ ~ArmOK(m, k, mode, r) => Stops(m, Arm(m, k, mode, r, t))
<1> DEFINE z == HardZero(m)
<1>1. /\ z.hz = TRUE /\ z.last_ramp_ms = 0 /\ z.applied = 0
      /\ z.state = m.state /\ z.ref_ms = m.ref_ms /\ z.limit = m.limit
      /\ z.timeout = m.timeout /\ z.mode = m.mode /\ DOMAIN z = DOMAIN m
  BY DEF Good, SafetyMachine, HardZero
<1>2. /\ Latched(m) => m.state # "ARMED"
      /\ m.state = "ARMED" => m.handshake /\ ~m.estop
  BY DEF Good, Consistent, Latched
<1>3. DOMAIN z = {"state", "fault", "handshake", "estop", "mode", "target",
                  "applied", "last_ramp_ms", "ref_ms", "last_heartbeat_ms",
                  "timeout", "limit", "last_nonce", "hz"}
  BY <1>1 DEF Good, SafetyMachine
<1> HIDE DEF z
<1>4. Stops(m, z)
  BY <1>1 DEF Stops
<1>5. Stops(m, AcceptHello(m, t))
  BY <1>1, <1>2, <1>3 DEF AcceptHello, Stops, z
<1>6. Stops(m, ConnectionLost(m))
  BY <1>1, <1>2, <1>3 DEF ConnectionLost, Stops, z
<1>7. Stops(m, Disarm(m))
  BY <1>1, <1>2, <1>3 DEF Disarm, Stops, z
<1>8. Stops(m, Estop(m))
  BY <1>1, <1>2, <1>3, <1>4 DEF Estop, Stops, z
<1>9. Stops(m, ResetEstop(m, r))
  BY <1>1, <1>2, <1>3, <1>4 DEF ResetEstop, Stops, z
<1>10. Stops(m, ResetFault(m, r))
  BY <1>1, <1>2, <1>3, <1>4 DEF ResetFault, Stops, z
<1>11. Stops(m, SetLimits(m, d))
  BY <1>1, <1>2, <1>3, <1>4 DEF SetLimits, SetLimitsOK, Stops, z
<1>12. Stops(m, CompleteBoot(m))
  BY <1>1, <1>2, <1>3 DEF CompleteBoot, Stops, z
<1>13. ~Latched(m) => Stops(m, EnterFault(m, c))
  BY <1>1, <1>2, <1>3 DEF EnterFault, Stops, z
<1>14. ~ArmOK(m, k, mode, r) => Stops(m, Arm(m, k, mode, r, t))
  BY <1>4 DEF Arm, z
<1> QED
  BY <1>4, <1>5, <1>6, <1>7, <1>8, <1>9, <1>10, <1>11, <1>12, <1>13, <1>14
     DEF z

\* What a tick does: it ends the authority, finds none, or moves the ramp
\* because the command is not overdue.
LEMMA TickTimed ==
  ASSUME NEW m, Good(m), NEW t \in Millis, NEW h \in MotorHealth
  PROVE  LET n == Tick(m, t, h)
         IN  \/ Stops(m, n) /\ n.state # "ARMED"
             \/ m.state # "ARMED" /\ n.state # "ARMED" /\ n.applied = 0
             \/ m.state = "ARMED" /\ ~CmdVelOverdue(m, t) /\ n = UpdateRamp(m, t)
<1> DEFINE n == Tick(m, t, h)
<1>1. m.state # "ARMED" => m.applied = 0
  BY DEF Good, Consistent
<1>2. CASE m.state # "ARMED"
  <2>1. n = m \/ n = ConnectionLost(m)
    BY <1>2 DEF Tick, CheckConnection
  <2>2. Stops(m, ConnectionLost(m))
    BY MethodsStop DEF FaultCodes
  <2> QED
    BY <1>1, <1>2, <2>1, <2>2 DEF Stops
<1>3. CASE m.state = "ARMED" /\ (h # "ok" \/ CmdVelOverdue(m, t))
  <2>1. PICK c \in FaultCodes \ {"NONE"} : n = EnterFault(m, c)
    BY <1>3 DEF Tick, MotorHealth, FaultCodes
  <2>2. ~Latched(m)
    BY <1>3 DEF Good, Consistent, Latched
  <2>3. n.state = "FAULT"
    BY <2>1, <2>2, HardZeroGood DEF EnterFault, Zeroed, Good, SafetyMachine
  <2> QED
    BY <2>1, <2>2, <2>3, MethodsStop
<1>4. CASE m.state = "ARMED" /\ h = "ok" /\ ~CmdVelOverdue(m, t)
  <2> DEFINE u == UpdateRamp(m, t)
  <2>1. n = u \/ (n = ConnectionLost(u) /\ u.handshake)
    BY <1>4 DEF Tick, CheckConnection, HeartbeatOverdue
  <2>2. Good(u) /\ u.state = "ARMED"
    BY <1>4, RampGood
  <2>3. CASE n = ConnectionLost(u)
    <3>1. ~Latched(u)
      BY <2>2 DEF Good, Consistent, Latched
    <3>2. /\ n.state = "DISCONNECTED" /\ n.hz = TRUE /\ n.last_ramp_ms = 0
          /\ n.applied = 0 /\ n.limit = u.limit
      BY <2>2, <2>3, <3>1, HardZeroGood DEF ConnectionLost, HardZero, Good, SafetyMachine
    <3>3. u.limit = m.limit
      BY DEF UpdateRamp, Good, SafetyMachine
    <3> QED
      BY <3>2, <3>3 DEF Stops
  <2>4. CASE n = u
    BY <1>4, <2>4
  <2> QED
    BY <2>1, <2>3, <2>4
<1> QED
  BY <1>2, <1>3, <1>4 DEF MotorHealth

\* What the ramp does in a tick: it is referred to the sample of the tick, and
\* the rest of the machine stays.
LEMMA RampTimes ==
  ASSUME NEW m, Good(m), NEW t \in Millis, m.state = "ARMED"
  PROVE  LET n == UpdateRamp(m, t)
             most == RampRate * Age(t, m.last_ramp_ms)
         IN  /\ n.last_ramp_ms = t /\ n.ref_ms = m.ref_ms
             /\ n.timeout = m.timeout /\ n.limit = m.limit
             /\ n.state = "ARMED" /\ n.hz = m.hz
             /\ n.applied \in Int
             /\ n.applied = m.applied
                  \/ /\ m.last_ramp_ms # 0
                     /\ n.applied - m.applied <= most
                     /\ m.applied - n.applied <= most
<1> DEFINE n == UpdateRamp(m, t)
           most == RampRate * Age(t, m.last_ramp_ms)
<1>1. CASE m.last_ramp_ms = 0
  BY <1>1 DEF UpdateRamp, Good, SafetyMachine
<1>2. CASE m.last_ramp_ms # 0
  <2>1. /\ n.last_ramp_ms = t /\ n.ref_ms = m.ref_ms
        /\ n.timeout = m.timeout /\ n.limit = m.limit
        /\ n.state = "ARMED" /\ n.hz = m.hz
        /\ n.applied = Slew(m.applied, m.target, most)
    BY <1>2 DEF UpdateRamp, Good, SafetyMachine
  <2>2. Age(t, m.last_ramp_ms) \in Nat
    BY ClockFacts DEF Good, SafetyMachine
  <2>3. most \in Nat
    BY <2>2, Ranges
  <2> HIDE DEF most
  <2>4. Slew(m.applied, m.target, most) \in Int
        /\ Slew(m.applied, m.target, most) - m.applied <= most
        /\ m.applied - Slew(m.applied, m.target, most) <= most
    BY <2>3 DEF Slew, Good, SafetyMachine
  <2> QED
    BY <1>2, <2>1, <2>4 DEF most
<1> QED
  BY <1>1, <1>2

\* Time passes in step with the ages, and none of them wraps.
LEMMA AdvanceTimed ==
  ASSUME Inductive, Timed, Advance
  PROVE  Timed'
<1>1. /\ TypeOK /\ TasksInTime /\ AuthorityTimed /\ RampTimed /\ OutputTimed
  BY DEF Inductive, Timed
<1>2. /\ UNCHANGED <<sm, motor, loop, acked, out>>
      /\ now' = NextMilli(now)
      /\ since_auth' = IF since_auth < SinceMax THEN since_auth + 1 ELSE SinceMax
      /\ MotorLag < TaskWatchdog
      /\ loop.pc = "handle" => Age(now, loop.now) < MaxSkew
  <2>1. MotorLag < IF motor.pc = "tick" THEN MotorSkew ELSE TaskWatchdog
    BY DEF Advance
  <2>2. MotorLag \in Nat
    BY <1>1, TimedTypes, ClockFacts DEF MotorLag
  <2>3. MotorLag < TaskWatchdog
    BY <2>1, <2>2, Ranges
  <2>4. Age(now, loop.now) < LoopDelay
    BY DEF Advance
  <2>5. loop.pc = "handle" => Age(now, loop.now) < MaxSkew
    BY <2>4 DEF LoopDelay
  <2> QED
    BY <2>3, <2>5 DEF Advance
<1> DEFINE lag == Age(now, motor.now)
           hand == Age(now, loop.now)
           ref == Age(now, sm.ref_ms)
           ramp == Age(now, sm.last_ramp_ms)
<1>3. lag \in Nat /\ hand \in Nat /\ ref \in Nat /\ ramp \in Nat
  BY <1>1, TimedTypes, ClockFacts
<1>4. /\ lag + 1 < ClockMod => Age(now', motor.now) = lag + 1
      /\ hand + 1 < ClockMod => Age(now', loop.now) = hand + 1
      /\ ref + 1 < ClockMod => Age(now', sm.ref_ms) = ref + 1
      /\ ramp + 1 < ClockMod => Age(now', sm.last_ramp_ms) = ramp + 1
  BY <1>1, <1>2, TimedTypes, AgeFacts
<1>5. MotorLag = lag /\ MotorLag' = Age(now', motor.now) /\ Polled' = Polled
  BY <1>2 DEF MotorLag, Polled
<1> HIDE DEF lag, hand, ref, ramp
<1>6. MotorLag' = lag + 1 /\ lag < TaskWatchdog
  BY <1>2, <1>3, <1>4, <1>5, Ranges
<1>7. TasksInTime'
  <2>1. loop.pc = "handle" => hand < MaxSkew
    BY <1>2 DEF hand
  <2>2. loop.pc = "handle" => Age(now', loop.now) <= MaxSkew
    BY <1>3, <1>4, <2>1, Ranges
  <2> QED
    BY <1>2, <1>3, <1>6, <2>2, Ranges DEF TasksInTime
<1>8. sm.state = "ARMED" =>
        /\ sm.timeout <= sm.limit
        /\ since_auth = ref
        /\ since_auth - lag < Window + Polled
        /\ loop.pc = "handle" => hand <= since_auth
  BY <1>1, <1>5 DEF AuthorityTimed, ref, hand
<1>9. Polled \in Nat /\ Polled <= TaskWatchdog /\ since_auth \in Nat
  BY <1>1, TimedTypes, Ranges
<1>10. sm.state = "ARMED" =>
         since_auth' = since_auth + 1 /\ Age(now', sm.ref_ms) = ref + 1
  <2> SUFFICES ASSUME sm.state = "ARMED"
               PROVE  since_auth + 1 < ClockMod /\ since_auth < SinceMax
    BY <1>2, <1>4, <1>8
  <2> QED
    BY <1>3, <1>6, <1>8, <1>9, Ranges
<1>11. AuthorityTimed'
  <2>1. loop.pc = "handle" => hand < MaxSkew
    BY <1>2 DEF hand
  <2>2. loop.pc = "handle" => Age(now', loop.now) = hand + 1
    BY <1>3, <1>4, <2>1, Ranges
  <2> SUFFICES ASSUME sm.state = "ARMED"
               PROVE  /\ sm.timeout <= sm.limit
                      /\ since_auth' = Age(now', sm.ref_ms)
                      /\ since_auth' - MotorLag' < Window + Polled
                      /\ loop.pc = "handle" => Age(now', loop.now) <= since_auth'
    BY <1>2, <1>5 DEF AuthorityTimed
  <2> QED
    BY <1>3, <1>6, <1>8, <1>9, <1>10, <2>2, Ranges
<1>12. RampTimed'
  <2> SUFFICES ASSUME sm.state = "ARMED", sm.last_ramp_ms # 0
               PROVE  /\ Age(now', sm.last_ramp_ms) - MotorLag' <= MaxSkew + Polled
                      /\ Age(now', sm.last_ramp_ms) < MotorLag'
                           => since_auth' < MotorLag'
    BY <1>2, <1>5 DEF RampTimed
  <2>1. ramp - lag <= MaxSkew + Polled /\ (ramp < lag => since_auth < lag)
    BY <1>1, <1>5 DEF RampTimed, ramp
  <2>2. Age(now', sm.last_ramp_ms) = ramp + 1
    BY <1>3, <1>4, <1>6, <1>9, <2>1, Ranges
  <2> QED
    BY <1>3, <1>6, <1>9, <1>10, <2>1, <2>2
<1>13. OutputTimed'
  <2> SUFFICES ASSUME out # 0
               PROVE  /\ since_auth' - MotorLag' < sm.limit + Polled
                      /\ Zeroing => sm.hz
    BY <1>2, <1>5 DEF OutputTimed, Zeroing
  <2>1. since_auth - lag < sm.limit + Polled /\ (Zeroing => sm.hz)
    BY <1>1, <1>5 DEF OutputTimed
  <2>2. since_auth' <= since_auth + 1
    BY <1>2, <1>9, Ranges
  <2>3. sm.limit \in Nat /\ since_auth' \in Nat
    BY <1>1, <1>2, <1>9, TimedTypes, Ranges
  <2> QED
    BY <1>3, <1>6, <1>9, <2>1, <2>2, <2>3
<1> QED
  BY <1>7, <1>11, <1>12, <1>13 DEF Timed

\* A new clock sample of the motor task.
LEMMA PollTimed ==
  ASSUME Inductive, Timed, PollMotor
  PROVE  Timed'
<1>1. /\ TypeOK /\ TasksInTime /\ AuthorityTimed /\ RampTimed /\ OutputTimed
  BY DEF Inductive, Timed
<1>2. /\ UNCHANGED <<now, sm, loop, acked, out, since_auth>>
      /\ motor.pc = "poll" /\ motor' = [pc |-> "tick", now |-> now]
  BY DEF PollMotor
<1>3. MotorLag' = 0
  BY <1>1, <1>2, TimedTypes, AgeFacts DEF MotorLag
<1>4. Polled = 0 /\ Polled' = TaskWatchdog
  BY <1>2 DEF Polled
<1>5. /\ MotorLag \in Nat /\ MotorLag <= TaskWatchdog
      /\ Age(now, sm.last_ramp_ms) \in Nat /\ since_auth \in Nat
      /\ sm.limit \in Nat
  BY <1>1, TimedTypes, ClockFacts, Ranges DEF MotorLag, TasksInTime
<1>6. TasksInTime'
  BY <1>1, <1>2, <1>3, Ranges DEF TasksInTime
<1>7. AuthorityTimed'
  BY <1>1, <1>2, <1>3, <1>4, <1>5, Ranges DEF AuthorityTimed
<1>8. RampTimed'
  BY <1>1, <1>2, <1>3, <1>4, <1>5, Ranges DEF RampTimed
<1>9. OutputTimed'
  BY <1>1, <1>2, <1>3, <1>4, <1>5, Ranges DEF OutputTimed, Zeroing
<1> QED
  BY <1>6, <1>7, <1>8, <1>9 DEF Timed

\* What a step may do to the machine without touching what is timed.
SameTimes ==
  /\ sm'.state = sm.state /\ sm'.ref_ms = sm.ref_ms
  /\ sm'.last_ramp_ms = sm.last_ramp_ms
  /\ sm'.timeout = sm.timeout /\ sm'.limit = sm.limit /\ sm'.hz = sm.hz

\* Steps of the loop task that leave the times alone.
LEMMA QuietTimed ==
  ASSUME Inductive, Timed, SameTimes,
         UNCHANGED <<now, motor, since_auth>>,
         out' \in {out, 0},
         loop'.pc = "handle" => loop' = loop \/ loop'.now = now,
         Zeroing' => Zeroing
  PROVE  Timed'
<1>1. /\ TypeOK /\ TasksInTime /\ AuthorityTimed /\ RampTimed /\ OutputTimed
  BY DEF Inductive, Timed
<1>2. MotorLag' = MotorLag /\ Polled' = Polled
  BY DEF MotorLag, Polled
<1>3. loop'.pc = "handle" =>
        \/ loop.pc = "handle" /\ Age(now', loop'.now) = Age(now, loop.now)
        \/ Age(now', loop'.now) = 0
  BY <1>1, TimedTypes, AgeFacts
<1>4. since_auth \in Nat
  BY <1>1, TimedTypes
<1>5. TasksInTime'
  BY <1>1, <1>2, <1>3, Ranges DEF TasksInTime
<1>6. AuthorityTimed'
  BY <1>1, <1>2, <1>3, <1>4 DEF AuthorityTimed, SameTimes
<1>7. RampTimed'
  BY <1>1, <1>2 DEF RampTimed, SameTimes
<1>8. OutputTimed'
  BY <1>1, <1>2 DEF OutputTimed, SameTimes
<1> QED
  BY <1>5, <1>6, <1>7, <1>8 DEF Timed

\* A handler that commands a stop.
LEMMA StopTimed ==
  ASSUME Inductive, Timed, loop.pc \in {"handle", "setup"},
         NEW m, Stops(sm, m), sm' = m,
         UNCHANGED <<now, motor, since_auth, out>>,
         loop'.pc # "handle"
  PROVE  Timed'
<1>1. /\ TypeOK /\ TasksInTime /\ AuthorityTimed /\ RampTimed /\ OutputTimed
      /\ MotionNeedsAuthority
  BY DEF Inductive, Timed
<1>2. MotorLag' = MotorLag /\ Polled' = Polled
  BY DEF MotorLag, Polled
<1>3. TasksInTime'
  BY <1>1, <1>2 DEF TasksInTime
<1>4. AuthorityTimed'
  <2>1. sm'.state = "ARMED" => sm'.limit = sm.limit
    BY DEF Stops
  <2> QED
    BY <1>1, <1>2, <2>1 DEF AuthorityTimed, Stops
<1>5. RampTimed'
  BY DEF RampTimed, Stops
<1>6. OutputTimed'
  <2>1. out # 0 => sm.state = "ARMED"
    BY <1>1 DEF MotionNeedsAuthority, MotionAllowed, Zeroing
  <2>2. out # 0 => sm'.limit = sm.limit
    BY <2>1 DEF Stops
  <2> QED
    BY <1>1, <1>2, <2>2 DEF OutputTimed, Stops
<1> QED
  BY <1>3, <1>4, <1>5, <1>6 DEF Timed

\* An ARM that succeeds.
LEMMA ArmTimed ==
  ASSUME Inductive, Timed, HandleArm,
         ArmOK(sm, loop.frame.nonce, loop.frame.mode, loop.at_rest)
  PROVE  Timed'
<1>1. /\ TypeOK /\ StateConsistent /\ TasksInTime /\ MotionNeedsAuthority
  BY DEF Inductive, Timed
<1>2. /\ loop.pc = "handle" /\ loop'.pc = "wait"
      /\ UNCHANGED <<now, motor, out>>
      /\ since_auth' = Age(now, loop.now)
  BY DEF HandleArm, Handling, ZeroThen, LoopSince
<1>3. /\ sm'.ref_ms = loop.now /\ sm'.last_ramp_ms = loop.now
      /\ sm'.timeout = sm'.limit /\ sm'.limit = sm.limit
  BY <1>1 DEF HandleArm, ZeroThen, Arm, HardZero, TypeOK, SafetyMachine
<1>4. out = 0
  BY <1>1, <1>2 DEF MotionNeedsAuthority, MotionAllowed, Zeroing, ArmOK
<1>5. MotorLag' = MotorLag /\ Polled' = Polled
  BY <1>2 DEF MotorLag, Polled
<1>6. /\ MotorLag \in Nat /\ Polled \in Nat
      /\ Age(now, loop.now) \in Nat /\ Age(now, loop.now) <= MaxSkew
      /\ sm.limit \in Nat
  BY <1>1, <1>2, TimedTypes, ClockFacts, Ranges DEF MotorLag, TasksInTime
<1>7. TasksInTime'
  BY <1>1, <1>2, <1>5 DEF TasksInTime
<1>8. AuthorityTimed'
  BY <1>2, <1>3, <1>5, <1>6, Ranges DEF AuthorityTimed
<1>9. RampTimed'
  BY <1>2, <1>3, <1>5, <1>6, Ranges DEF RampTimed
<1>10. OutputTimed'
  BY <1>2, <1>4 DEF OutputTimed
<1> QED
  BY <1>7, <1>8, <1>9, <1>10 DEF Timed

\* A CMD_VEL that is accepted: its clock sample is no older than the reference
\* it replaces.
LEMMA VelocityTimed ==
  ASSUME Inductive, Timed, HandleCmdVel,
         CommandVelocityOK(sm, loop.frame.mode, loop.frame.timeout)
  PROVE  Timed'
<1>1. /\ TypeOK /\ TasksInTime /\ AuthorityTimed /\ RampTimed /\ OutputTimed
      /\ MotionNeedsAuthority
  BY DEF Inductive, Timed
<1>2. /\ loop.pc = "handle" /\ loop'.pc = "idle"
      /\ UNCHANGED <<now, motor, out>>
      /\ since_auth' = Age(now, loop.now)
      /\ loop.frame.type = "CMD_VEL"
  BY DEF HandleCmdVel, Handling, LoopAt
<1>3. loop.frame.timeout \in Nat
  BY <1>1, <1>2, FrameFacts DEF TypeOK
<1>4. /\ sm'.ref_ms = loop.now /\ sm'.last_ramp_ms = sm.last_ramp_ms
      /\ sm'.limit = sm.limit /\ sm'.hz = sm.hz
      /\ sm'.timeout = IF loop.frame.timeout > sm.limit THEN sm.limit
                       ELSE loop.frame.timeout
  BY <1>1 DEF HandleCmdVel, CommandVelocity, TypeOK, SafetyMachine
<1>5. sm.state = "ARMED" /\ ~Zeroing'
  BY <1>2 DEF CommandVelocityOK, Zeroing
<1>6. MotorLag' = MotorLag /\ Polled' = Polled
  BY <1>2 DEF MotorLag, Polled
<1>7. /\ MotorLag \in Nat /\ Polled \in Nat
      /\ Age(now, loop.now) \in Nat /\ Age(now, loop.now) <= MaxSkew
      /\ Age(now, loop.now) <= since_auth
      /\ since_auth \in Nat /\ sm.limit \in Nat
      /\ Age(now, sm.last_ramp_ms) \in Nat
  BY <1>1, <1>2, <1>5, TimedTypes, ClockFacts, Ranges
     DEF MotorLag, TasksInTime, AuthorityTimed
<1>8. TasksInTime'
  BY <1>1, <1>2, <1>6 DEF TasksInTime
<1>9. AuthorityTimed'
  <2>1. sm'.timeout <= sm'.limit
    BY <1>3, <1>4, <1>7
  <2> QED
    BY <1>2, <1>4, <1>6, <1>7, <2>1, Ranges DEF AuthorityTimed
<1>10. RampTimed'
  BY <1>1, <1>2, <1>4, <1>5, <1>6, <1>7 DEF RampTimed
<1>11. OutputTimed'
  BY <1>1, <1>2, <1>4, <1>5, <1>6, <1>7 DEF OutputTimed
<1> QED
  BY <1>8, <1>9, <1>10, <1>11 DEF Timed

\* What a tick leaves, by what it found: an authority it ends, none, or a
\* command that is fresh by the clock sample of the tick.
Judged(n) ==
  \/ n.hz = TRUE /\ n.state # "ARMED" /\ n.applied = 0
  \/ sm.state # "ARMED" /\ n.state # "ARMED" /\ n.applied = 0
  \/ /\ sm.state = "ARMED" /\ n.state = "ARMED"
     /\ MotorLag <= since_auth /\ since_auth - MotorLag < sm.timeout
     /\ n.last_ramp_ms = motor.now /\ n.ref_ms = sm.ref_ms
     /\ n.timeout = sm.timeout /\ n.limit = sm.limit
     /\ n.applied = sm.applied
          \/ LET most == RampRate * Age(motor.now, sm.last_ramp_ms)
             IN  /\ sm.last_ramp_ms # 0
                 /\ n.applied - sm.applied <= most
                 /\ sm.applied - n.applied <= most

\* A command reference newer than the clock sample looks overdue, so a tick
\* moves only on a command older than its sample.
LEMMA TickIsJudged ==
  ASSUME Inductive, Timed, TickMotor
  PROVE  \E n : Good(n) /\ Judged(n) /\ TickWith(n)
<1> DEFINE seen == [sm EXCEPT !.hz = FALSE]
<1>1. PICK h \in MotorHealth : TickWith(Tick(seen, motor.now, h))
  BY DEF TickMotor
<1> DEFINE n == Tick(seen, motor.now, h)
<1>2. /\ TypeOK /\ StateConsistent /\ TasksInTime /\ AuthorityTimed /\ Good(sm)
      /\ motor.now \in Millis
  BY DEF Inductive, Timed, TypeOK, StateConsistent, Good
<1>3. /\ Good(seen) /\ seen.state = sm.state /\ seen.applied = sm.applied
      /\ seen.ref_ms = sm.ref_ms /\ seen.last_ramp_ms = sm.last_ramp_ms
      /\ seen.timeout = sm.timeout /\ seen.limit = sm.limit
  BY <1>2, ObservedGood DEF Good, SafetyMachine
<1> HIDE DEF seen
<1>4. Good(n)
  BY <1>2, <1>3, TickGood
<1>5. \/ Stops(seen, n) /\ n.state # "ARMED"
      \/ sm.state # "ARMED" /\ n.state # "ARMED" /\ n.applied = 0
      \/ /\ sm.state = "ARMED" /\ ~CmdVelOverdue(seen, motor.now)
         /\ n = UpdateRamp(seen, motor.now)
  BY <1>2, <1>3, TickTimed
<1> HIDE DEF n
<1>6. CASE Stops(seen, n) /\ n.state # "ARMED"
  BY <1>1, <1>4, <1>6 DEF Judged, Stops, n, seen
<1>7. CASE sm.state # "ARMED" /\ n.state # "ARMED" /\ n.applied = 0
  BY <1>1, <1>4, <1>7 DEF Judged, n, seen
<1>8. CASE /\ sm.state = "ARMED" /\ ~CmdVelOverdue(seen, motor.now)
           /\ n = UpdateRamp(seen, motor.now)
  <2>1. /\ Age(motor.now, sm.ref_ms) \in Nat /\ since_auth \in Nat
        /\ MotorLag \in Nat /\ MotorLag <= TaskWatchdog
        /\ sm.timeout \in Nat /\ sm.timeout <= HardCmdTimeout
    BY <1>2, TimedTypes, ClockFacts, Ranges DEF MotorLag, TasksInTime
  <2>2. Age(motor.now, sm.ref_ms) < sm.timeout
    BY <1>3, <1>8, <2>1 DEF CmdVelOverdue
  <2>3. since_auth = Age(now, sm.ref_ms)
    BY <1>2, <1>8 DEF AuthorityTimed
  <2>4. Age(motor.now, sm.ref_ms) = IF since_auth >= MotorLag
                                    THEN since_auth - MotorLag
                                    ELSE since_auth - MotorLag + ClockMod
    BY <1>2, <2>3, TimedTypes, AgeFacts DEF MotorLag
  <2>5. MotorLag <= since_auth /\ since_auth - MotorLag < sm.timeout
    <3>1. ClockMod \in Nat /\ HardCmdTimeout \in Nat /\ TaskWatchdog \in Nat
          /\ HardCmdTimeout + TaskWatchdog <= ClockMod
      BY Ranges
    <3> QED
      BY <2>1, <2>2, <2>4, <3>1
  <2>6. LET most == RampRate * Age(motor.now, sm.last_ramp_ms)
        IN  /\ n.last_ramp_ms = motor.now /\ n.ref_ms = sm.ref_ms
            /\ n.timeout = sm.timeout /\ n.limit = sm.limit
            /\ n.state = "ARMED"
            /\ n.applied = sm.applied
                 \/ /\ sm.last_ramp_ms # 0
                    /\ n.applied - sm.applied <= most
                    /\ sm.applied - n.applied <= most
    BY <1>2, <1>3, <1>8, RampTimes
  <2>7. Judged(n)
    BY <1>8, <2>5, <2>6 DEF Judged
  <2> QED
    BY <1>1, <1>4, <2>7 DEF n, seen
<1> QED
  BY <1>5, <1>6, <1>7, <1>8

\* A tick keeps the times.
LEMMA TickKeepsTimes ==
  ASSUME Inductive, Timed, TickMotor, Inductive'
  PROVE  Timed'
<1>1. PICK n : Good(n) /\ Judged(n) /\ TickWith(n)
  BY TickIsJudged
<1>2. /\ TypeOK /\ TasksInTime /\ AuthorityTimed /\ RampTimed /\ OutputTimed
      /\ MotionNeedsAuthority /\ MotionLicensed
  BY DEF Inductive, Timed
<1>3. /\ UNCHANGED <<now, loop, since_auth>>
      /\ motor.pc = "tick" /\ motor' = [motor EXCEPT !.pc = "poll"]
  BY DEF TickMotor
<1>4. motor'.pc = "poll" /\ motor'.now = motor.now
  BY <1>2, <1>3, TimedTypes
<1>5. MotorLag' = MotorLag /\ Polled' = 0 /\ Polled = TaskWatchdog
  BY <1>3, <1>4 DEF MotorLag, Polled
<1>6. /\ MotorLag \in Nat /\ since_auth \in Nat /\ sm.timeout \in Nat
      /\ sm.limit \in Nat /\ sm.timeout <= HardCmdTimeout
  BY <1>2, TimedTypes, ClockFacts, Ranges DEF MotorLag
<1>7. /\ sm'.state = n.state /\ sm'.ref_ms = n.ref_ms
      /\ sm'.last_ramp_ms = n.last_ramp_ms /\ sm'.timeout = n.timeout
      /\ sm'.limit = n.limit /\ sm'.hz = FALSE
  BY <1>1 DEF TickWith, Good, SafetyMachine
<1>8. TasksInTime'
  BY <1>2, <1>3, <1>5 DEF TasksInTime
<1>9. sm'.state = "ARMED" =>
        /\ sm.state = "ARMED"
        /\ MotorLag <= since_auth /\ since_auth - MotorLag < sm.timeout
        /\ sm'.last_ramp_ms = motor.now /\ sm'.ref_ms = sm.ref_ms
        /\ sm'.timeout = sm.timeout /\ sm'.limit = sm.limit
  BY <1>1, <1>7 DEF Judged
<1>10. AuthorityTimed'
  <2> SUFFICES ASSUME sm'.state = "ARMED"
               PROVE  /\ sm'.timeout <= sm'.limit
                      /\ since_auth' = Age(now', sm'.ref_ms)
                      /\ since_auth' - MotorLag' < Window + Polled'
                      /\ loop'.pc = "handle"
                           => Age(now', loop'.now) <= since_auth'
    BY DEF AuthorityTimed
  <2>1. /\ sm.timeout <= sm.limit /\ since_auth = Age(now, sm.ref_ms)
        /\ loop.pc = "handle" => Age(now, loop.now) <= since_auth
    BY <1>2, <1>9 DEF AuthorityTimed
  <2>2. since_auth - MotorLag < Window
    BY <1>6, <1>9, Ranges
  <2> QED
    BY <1>3, <1>5, <1>9, <2>1, <2>2, Ranges
<1>11. RampTimed'
  <2> SUFFICES ASSUME sm'.state = "ARMED"
               PROVE  /\ Age(now', sm'.last_ramp_ms) - MotorLag'
                           <= MaxSkew + Polled'
                      /\ Age(now', sm'.last_ramp_ms) = MotorLag'
    BY <1>5, <1>6 DEF RampTimed
  <2>1. Age(now', sm'.last_ramp_ms) = MotorLag
    BY <1>3, <1>9 DEF MotorLag
  <2> QED
    BY <1>5, <1>6, <2>1, Ranges
<1>12. OutputTimed'
  <2> SUFFICES ASSUME out' # 0
               PROVE  /\ since_auth' - MotorLag' < sm'.limit + Polled'
                      /\ ~Zeroing'
    BY DEF OutputTimed
  <2>1. ~n.hz /\ ~sm.hz /\ out' \in {out, AppliedPercent(n)}
    BY <1>1 DEF TickWith
  <2>2. ~Zeroing'
    <3> SUFFICES ASSUME Zeroing PROVE FALSE
      BY <1>3 DEF Zeroing
    <3>1. out = 0
      BY <1>2, <2>1 DEF OutputTimed
    <3>2. AppliedPercent(n) # 0
      BY <2>1, <3>1
    <3>3. sm'.applied # 0
      BY <1>1, <3>2 DEF AppliedPercent, TickWith, Good, SafetyMachine
    <3>4. licensed'
      BY <3>3 DEF Inductive, MotionLicensed
    <3>5. licensed
      BY <1>1, <3>4 DEF TickWith
    <3> QED
      BY <1>2, <3>5 DEF MotionLicensed
  <2>3. MotionAllowed(sm')
    BY <2>2 DEF Inductive, MotionNeedsAuthority
  <2>4. sm'.state = "ARMED"
    BY <2>3 DEF MotionAllowed
  <2>5. sm.timeout <= sm.limit
    BY <1>2, <1>9, <2>4 DEF AuthorityTimed
  <2> QED
    BY <1>3, <1>5, <1>6, <1>9, <2>2, <2>4, <2>5
<1> QED
  BY <1>8, <1>10, <1>11, <1>12 DEF Timed

\* The times hold at boot and after a reboot.
LEMMA BootTimed ==
  ASSUME now \in Millis, sm = NewMachine, motor = [pc |-> "poll", now |-> now],
         loop = LoopAt("setup"), out = 0
  PROVE  Timed
<1>1. MotorLag = 0
  BY AgeFacts DEF MotorLag
<1>2. sm.state # "ARMED" /\ loop.pc # "handle"
  BY DEF NewMachine, LoopAt
<1> QED
  BY <1>1, <1>2, Ranges
     DEF Timed, TasksInTime, AuthorityTimed, RampTimed, OutputTimed

\* The handlers that command a stop, but for ARM.
LEMMA HandlersStop ==
  ASSUME Good(sm),
         Hello \/ RejectHello \/ HandleDisarm \/ HandleStop \/ HandleEstop
           \/ HandleResetEstop \/ HandleResetFault \/ HandleSetLimits
  PROVE  \E m, pc : /\ Stops(sm, m) /\ ZeroThen(m, pc)
                    /\ pc \in {"wait", "relays_off"}
<1>1. /\ Stops(sm, AcceptHello(sm, loop.now)) /\ Stops(sm, ConnectionLost(sm))
      /\ Stops(sm, Disarm(sm)) /\ Stops(sm, HardZero(sm)) /\ Stops(sm, Estop(sm))
      /\ Stops(sm, ResetEstop(sm, loop.at_rest))
      /\ Stops(sm, ResetFault(sm, loop.at_rest))
      /\ Stops(sm, SetLimits(sm, loop.frame.timeout))
  BY MethodsStop DEF FaultCodes
<1>2. CASE Hello
  BY <1>1, <1>2 DEF Hello
<1>3. CASE RejectHello
  BY <1>1, <1>3 DEF RejectHello
<1>4. CASE HandleDisarm
  BY <1>1, <1>4 DEF HandleDisarm
<1>5. CASE HandleStop
  BY <1>1, <1>5 DEF HandleStop, Stop
<1>6. CASE HandleEstop
  BY <1>1, <1>6 DEF HandleEstop
<1>7. CASE HandleResetEstop
  BY <1>1, <1>7 DEF HandleResetEstop
<1>8. CASE HandleResetFault
  BY <1>1, <1>8 DEF HandleResetFault
<1>9. CASE HandleSetLimits
  BY <1>1, <1>9 DEF HandleSetLimits
<1> QED
  BY <1>2, <1>3, <1>4, <1>5, <1>6, <1>7, <1>8, <1>9

\* The steps of the loop task keep the times.
LEMMA LoopKeepsTimes ==
  ASSUME Inductive, Timed, Loop
  PROVE  Timed'
<1>1. Good(sm) /\ TypeOK
  BY DEF Inductive, TypeOK, StateConsistent, Good
<1>2. CASE FinishSetup
  <2>1. Stops(sm, CompleteBoot(sm))
    BY <1>1, MethodsStop DEF FaultCodes
  <2> QED
    BY <1>2, <2>1, StopTimed DEF FinishSetup, LoopAt
<1>3. CASE Receive \/ EstopRelaysOff \/ ZeroAcked \/ ZeroFallback
             \/ EnforceRelaySafety
  <2>1. SameTimes
    BY <1>3 DEF SameTimes, Receive, EstopRelaysOff, ZeroAcked, ZeroFallback,
                EnforceRelaySafety
  <2>2. UNCHANGED <<now, motor, since_auth>> /\ out' \in {out, 0}
    BY <1>3 DEF Receive, EstopRelaysOff, ZeroAcked, ZeroFallback,
                EnforceRelaySafety
  <2>3. /\ loop'.pc = "handle" => loop' = loop \/ loop'.now = now
        /\ Zeroing' => Zeroing
    <3>1. CASE Receive
      BY <3>1 DEF Receive, Zeroing
    <3>2. CASE EstopRelaysOff \/ ZeroAcked \/ ZeroFallback
                 \/ EnforceRelaySafety
      BY <3>2 DEF EstopRelaysOff, ZeroAcked, ZeroFallback, EnforceRelaySafety,
                  LoopAt, LoopSince, Zeroing
    <3> QED
      BY <1>3, <3>1, <3>2
  <2> QED
    BY <2>1, <2>2, <2>3, QuietTimed
<1>4. CASE Heartbeat \/ HandleRelay
  <2>1. SameTimes
    BY <1>1, <1>4 DEF SameTimes, Heartbeat, HandleRelay, NoteHeartbeat, Good,
                      SafetyMachine
  <2> QED
    BY <1>4, <2>1, QuietTimed DEF Heartbeat, HandleRelay, LoopAt, Zeroing
<1>5. CASE Hello \/ RejectHello \/ HandleDisarm \/ HandleStop \/ HandleEstop
             \/ HandleResetEstop \/ HandleResetFault \/ HandleSetLimits
  <2>1. \E m, pc : /\ Stops(sm, m) /\ ZeroThen(m, pc)
                   /\ pc \in {"wait", "relays_off"}
    BY <1>1, <1>5, HandlersStop
  <2>2. loop.pc = "handle" /\ UNCHANGED since_auth
    BY <1>5 DEF Hello, RejectHello, HandleDisarm, HandleStop, HandleEstop,
                HandleResetEstop, HandleResetFault, HandleSetLimits, Handling
  <2>3. PICK m, pc : /\ Stops(sm, m) /\ ZeroThen(m, pc)
                     /\ pc \in {"wait", "relays_off"}
    BY <2>1
  <2> QED
    BY <2>2, <2>3, StopTimed DEF ZeroThen, LoopSince
<1>6. CASE HandleArm
  <2> DEFINE ok == ArmOK(sm, loop.frame.nonce, loop.frame.mode, loop.at_rest)
             m == Arm(sm, loop.frame.nonce, loop.frame.mode, loop.at_rest,
                      loop.now)
  <2>1. CASE ok
    BY <1>6, <2>1, ArmTimed
  <2>2. CASE ~ok
    <3>1. Stops(sm, m)
      BY <1>1, <2>2, MethodsStop DEF FaultCodes
    <3>2. /\ loop.pc = "handle" /\ UNCHANGED since_auth /\ ZeroThen(m, "wait")
      BY <1>6, <2>2 DEF HandleArm, Handling
    <3> HIDE DEF m
    <3> QED
      BY <3>1, <3>2, StopTimed DEF ZeroThen, LoopSince
  <2> QED
    BY <2>1, <2>2
<1>7. CASE HandleCmdVel
  <2> DEFINE ok == CommandVelocityOK(sm, loop.frame.mode, loop.frame.timeout)
  <2>1. CASE ok
    BY <1>7, <2>1, VelocityTimed
  <2>2. CASE ~ok
    <3>1. UNCHANGED <<sm, since_auth>>
      BY <1>7, <2>2 DEF HandleCmdVel, CommandVelocity
    <3>2. UNCHANGED <<now, motor, out>> /\ loop'.pc = "idle"
      BY <1>7 DEF HandleCmdVel, LoopAt
    <3> QED
      BY <3>1, <3>2, QuietTimed DEF SameTimes, Zeroing
  <2> QED
    BY <2>1, <2>2
<1> QED
  BY <1>2, <1>3, <1>4, <1>5, <1>6, <1>7 DEF Loop, Handle

\* The first state satisfies the timed invariant.
LEMMA InitTimed == Init => Inductive /\ Timed
  BY InitStep, BootTimed DEF Init

\* Every step keeps it.
LEMMA NextTimed == Inductive /\ Timed /\ [Next]_vars => (Inductive /\ Timed)'
<1> SUFFICES ASSUME Inductive, Timed, [Next]_vars
             PROVE  Inductive' /\ Timed'
  OBVIOUS
<1>1. Inductive'
  BY NextStep
<1>2. CASE Advance
  BY <1>1, <1>2, AdvanceTimed
<1>3. CASE Panic
  <2>1. /\ now' \in Millis /\ sm' = NewMachine
        /\ motor' = [pc |-> "poll", now |-> now'] /\ loop' = LoopAt("setup")
        /\ out' = 0
    BY <1>3 DEF Panic, Inductive, TypeOK
  <2>2. MotorLag' = 0
    BY <2>1, AgeFacts DEF MotorLag
  <2>3. sm'.state # "ARMED" /\ loop'.pc # "handle"
    BY <2>1 DEF NewMachine, LoopAt
  <2> QED
    BY <1>1, <2>1, <2>2, <2>3, Ranges
       DEF Timed, TasksInTime, AuthorityTimed, RampTimed, OutputTimed
<1>4. CASE PollMotor
  BY <1>1, <1>4, PollTimed
<1>5. CASE TickMotor
  BY <1>1, <1>5, TickKeepsTimes
<1>6. CASE Loop
  BY <1>1, <1>6, LoopKeepsTimes
<1>7. CASE UNCHANGED vars
  BY <1>1, <1>7, QuietTimed DEF vars, SameTimes, Zeroing
<1> QED
  BY <1>1, <1>2, <1>3, <1>4, <1>5, <1>6, <1>7 DEF Next, Motor

\* What the timed properties rest on holds, on top of the inductive invariant,
\* whatever the two tasks do.
THEOREM TimesHold == Spec => []TimedInductive
<1>1. Inductive /\ Timed => TimedInductive
  BY DEF TimedInductive
<1> QED
  BY <1>1, InitTimed, NextTimed, PTL DEF Spec

\* The motors never run on a command older than the configured limit and the
\* two delays the task watchdog tolerates.
THEOREM MotionStaysFresh == Spec => []MotionIsFresh
<1>1. Inductive /\ Timed => MotionIsFresh
  <2> SUFFICES ASSUME TypeOK, TasksInTime, OutputTimed, out # 0
               PROVE  since_auth < sm.limit + 2 * TaskWatchdog
    BY DEF Inductive, Timed, MotionIsFresh
  <2>1. /\ since_auth - MotorLag < sm.limit + Polled
        /\ MotorLag \in Nat /\ MotorLag <= TaskWatchdog
        /\ since_auth \in Nat /\ sm.limit \in Nat
        /\ Polled \in Nat /\ Polled <= TaskWatchdog
    BY TimedTypes, ClockFacts, Ranges DEF OutputTimed, TasksInTime, MotorLag
  <2> QED
    BY <2>1, Ranges
<1> QED
  BY <1>1, InitTimed, NextTimed, PTL DEF Spec

\* A rate times a time is no more than the rate times a longer time.
LEMMA RateTimes ==
  ASSUME NEW r \in Nat, NEW a \in Nat, NEW b \in Nat, a <= b
  PROVE  r * a <= r * b /\ r * a \in Nat /\ r * b \in Nat
<1>1. r * b = r * a + r * (b - a) /\ r * a \in Nat /\ r * (b - a) \in Nat
  OBVIOUS
<1> QED
  BY <1>1

\* Only a tick makes the applied percentage other than zero.
LEMMA OnlyTicksRamp ==
  ASSUME Inductive, Next, ~TickMotor, sm'.applied # 0
  PROVE  sm'.applied = sm.applied
<1>1. Good(sm) /\ TypeOK
  BY DEF Inductive, TypeOK, StateConsistent, Good
<1>2. CASE Advance \/ PollMotor \/ Receive \/ EstopRelaysOff \/ ZeroAcked
             \/ ZeroFallback \/ EnforceRelaySafety \/ HandleRelay
  BY <1>2 DEF Advance, PollMotor, Receive, EstopRelaysOff, ZeroAcked,
              ZeroFallback, EnforceRelaySafety, HandleRelay
<1>3. CASE Panic \/ FinishSetup
  <2>1. Stops(sm, CompleteBoot(sm))
    BY <1>1, MethodsStop DEF FaultCodes
  <2> QED
    BY <1>3, <2>1 DEF Panic, FinishSetup, NewMachine, Stops
<1>4. CASE Heartbeat \/ HandleCmdVel
  BY <1>1, <1>4 DEF Heartbeat, HandleCmdVel, NoteHeartbeat, CommandVelocity,
                    Good, SafetyMachine
<1>5. CASE Hello \/ RejectHello \/ HandleDisarm \/ HandleStop \/ HandleEstop
             \/ HandleResetEstop \/ HandleResetFault \/ HandleSetLimits
  <2>1. \E m, pc : Stops(sm, m) /\ ZeroThen(m, pc)
    BY <1>1, <1>5, HandlersStop
  <2> QED
    BY <2>1 DEF Stops, ZeroThen
<1>6. CASE HandleArm
  BY <1>1, <1>6 DEF HandleArm, ZeroThen, Arm, HardZero, Good, SafetyMachine
<1> QED
  BY <1>2, <1>3, <1>4, <1>5, <1>6 DEF Next, Motor, Loop, Handle

\* No tick slews the applied percentage further than the ramp allows for the
\* longest time between two references of the ramp.
THEOREM SlewStaysBounded == Spec => SlewBounded
<1> DEFINE most == RampRate * (TaskWatchdog + MaxSkew)
           A == sm'.applied # 0 =>
                  LET step == sm'.applied - sm.applied
                      most_ == RampRate * (TaskWatchdog + MaxSkew)
                  IN  step <= most_ /\ -step <= most_
<1>1. most \in Nat
  BY Ranges, RateTimes
<1>2. ASSUME Inductive, Timed, TickMotor, sm'.applied # 0
      PROVE  sm'.applied - sm.applied <= most /\ sm.applied - sm'.applied <= most
  <2>1. PICK n : Good(n) /\ Judged(n) /\ TickWith(n)
    BY <1>2, TickIsJudged
  <2>2. sm'.applied = n.applied
    BY <2>1 DEF TickWith, Good, SafetyMachine
  <2>3. /\ sm.state = "ARMED" /\ MotorLag <= since_auth
        /\ \/ n.applied = sm.applied
           \/ /\ sm.last_ramp_ms # 0
              /\ n.applied - sm.applied
                   <= RampRate * Age(motor.now, sm.last_ramp_ms)
              /\ sm.applied - n.applied
                   <= RampRate * Age(motor.now, sm.last_ramp_ms)
    BY <1>2, <2>1, <2>2 DEF Judged
  <2>4. n.applied \in Int /\ sm.applied \in Int
    BY <1>2, <2>1, TimedTypes DEF Good, SafetyMachine, Inductive
  <2>5. CASE n.applied = sm.applied
    BY <1>1, <2>2, <2>4, <2>5
  <2>6. CASE sm.last_ramp_ms # 0 /\ n.applied # sm.applied
    <3> DEFINE ramp == Age(now, sm.last_ramp_ms)
               age == Age(motor.now, sm.last_ramp_ms)
    <3>1. /\ ramp - MotorLag <= MaxSkew + TaskWatchdog
          /\ ramp < MotorLag => since_auth < MotorLag
      BY <1>2, <2>3, <2>6
         DEF Timed, RampTimed, Polled, TickMotor
    <3>2. /\ ramp \in Nat /\ age \in Nat /\ MotorLag \in Nat
          /\ since_auth \in Nat
          /\ age = IF ramp >= MotorLag THEN ramp - MotorLag
                   ELSE ramp - MotorLag + ClockMod
      BY <1>2, TimedTypes, AgeFacts, ClockFacts DEF Inductive, MotorLag
    <3>3. age <= TaskWatchdog + MaxSkew
      BY <2>3, <3>1, <3>2, Ranges
    <3>4. RampRate * age <= most /\ RampRate * age \in Nat
      BY <3>2, <3>3, Ranges, RateTimes
    <3> HIDE DEF most, age
    <3> QED
      BY <1>1, <2>2, <2>3, <2>4, <2>6, <3>4 DEF age
  <2> QED
    BY <2>3, <2>5, <2>6
<1>3. ASSUME Inductive, Timed, [Next]_vars PROVE [A]_vars
  <2> SUFFICES ASSUME Next, sm'.applied # 0
               PROVE  /\ sm'.applied - sm.applied <= most
                      /\ -(sm'.applied - sm.applied) <= most
    BY <1>3
  <2>1. Inductive'
    BY <1>3, NextStep
  <2>2. sm.applied \in Int /\ sm'.applied \in Int
    BY <1>3, <2>1 DEF Inductive, TypeOK, SafetyMachine
  <2> HIDE DEF most
  <2>3. CASE TickMotor
    BY <1>2, <1>3, <1>1, <2>2, <2>3
  <2>4. CASE ~TickMotor
    <3>1. sm'.applied = sm.applied
      BY <1>3, <2>4, OnlyTicksRamp
    <3> QED
      BY <1>1, <2>2, <3>1
  <2> QED
    BY <2>3, <2>4
<1> QED
  BY <1>3, InitTimed, NextTimed, PTL DEF Spec, SlewBounded


-----------------------------------------------------------------------------
(* What the Pi may rely on                                                 *)

\* What the Pi is told about the machine, its state, latches and nonce, is the
\* same in m and n.
SameShown(m, n) ==
  /\ n.state = m.state /\ n.estop = m.estop /\ n.fault = m.fault
  /\ n.last_nonce = m.last_nonce

\* A session begins or ends without an effect on a latch or the nonce.
LEMMA SessionShown ==
  ASSUME NEW m, Good(m), NEW t \in Millis
  PROVE  LET h == AcceptHello(m, t)
             c == ConnectionLost(m)
         IN  /\ h.estop = m.estop /\ h.fault = m.fault
             /\ h.last_nonce = m.last_nonce
             /\ h.state = IF Latched(m) THEN m.state ELSE "DISARMED"
             /\ c.estop = m.estop /\ c.fault = m.fault
             /\ c.last_nonce = m.last_nonce
             /\ c.state = IF Latched(m) THEN m.state ELSE "DISCONNECTED"
<1> DEFINE z == HardZero(m)
<1>1. SameShown(m, z) /\ SafetyMachine(z)
  BY HardZeroGood DEF Zeroed, Good, SameShown
<1> QED
  BY <1>1 DEF AcceptHello, ConnectionLost, SafetyMachine, SameShown

\* ARM gives authority or changes nothing the Pi is told.
LEMMA ArmShown ==
  ASSUME NEW m, Good(m), NEW n, NEW mode, NEW r, NEW t
  PROVE  LET a == Arm(m, n, mode, r, t)
         IN  IF ArmOK(m, n, mode, r)
             THEN /\ a.state = "ARMED" /\ a.estop = m.estop
                  /\ a.fault = m.fault /\ a.last_nonce = n
             ELSE SameShown(m, a)
<1> DEFINE z == HardZero(m)
<1>1. SameShown(m, z) /\ SafetyMachine(z)
  BY HardZeroGood DEF Zeroed, Good, SameShown
<1> QED BY <1>1 DEF Arm, SafetyMachine, SameShown

\* DISARM takes authority away, ESTOP latches.
LEMMA RevokeShown ==
  ASSUME NEW m, Good(m)
  PROVE  LET d == Disarm(m)
             e == Estop(m)
         IN  /\ d.estop = m.estop /\ d.fault = m.fault
             /\ d.last_nonce = m.last_nonce
             /\ d.state = IF m.state = "ARMED" THEN "DISARMED" ELSE m.state
             /\ e.estop = TRUE /\ e.fault = m.fault
             /\ e.last_nonce = m.last_nonce /\ e.state = "ESTOP"
<1> DEFINE z == HardZero(m)
<1>1. SameShown(m, z) /\ SafetyMachine(z) /\ z.handshake = m.handshake
  BY HardZeroGood DEF Zeroed, Good, SameShown
<1>2. m.state = "ARMED" => m.handshake
  BY DEF Good, Consistent
<1>3. m.estop \in BOOLEAN
  BY DEF Good, SafetyMachine
<1>4. /\ Disarm(m).estop = m.estop /\ Disarm(m).fault = m.fault
      /\ Disarm(m).last_nonce = m.last_nonce
      /\ Disarm(m).state = IF m.state = "ARMED" THEN "DISARMED" ELSE m.state
  BY <1>1, <1>2 DEF Disarm, SafetyMachine, SameShown
<1>5. /\ Estop(m).estop = TRUE /\ Estop(m).fault = m.fault
      /\ Estop(m).last_nonce = m.last_nonce /\ Estop(m).state = "ESTOP"
  BY <1>1, <1>3 DEF Estop, SafetyMachine, SameShown
<1> QED BY <1>4, <1>5

\* A reset releases its own latch or changes nothing the Pi is told.
LEMMA ResetShown ==
  ASSUME NEW m, Good(m), NEW r
  PROVE  LET e == ResetEstop(m, r)
             f == ResetFault(m, r)
         IN  /\ IF ResetEstopOK(m, r)
                THEN /\ e.estop = FALSE /\ e.fault = m.fault
                     /\ e.last_nonce = m.last_nonce /\ e.state = "DISARMED"
                ELSE SameShown(m, e)
             /\ IF ResetFaultOK(m, r)
                THEN /\ f.estop = m.estop /\ f.fault = "NONE"
                     /\ f.last_nonce = m.last_nonce
                     /\ f.state = IF m.estop THEN m.state ELSE "DISARMED"
                ELSE SameShown(m, f)
<1> DEFINE z == HardZero(m)
<1>1. SameShown(m, z) /\ SafetyMachine(z)
  BY HardZeroGood DEF Zeroed, Good, SameShown
<1>2. IF ResetEstopOK(m, r)
      THEN /\ ResetEstop(m, r).estop = FALSE
           /\ ResetEstop(m, r).fault = m.fault
           /\ ResetEstop(m, r).last_nonce = m.last_nonce
           /\ ResetEstop(m, r).state = "DISARMED"
      ELSE SameShown(m, ResetEstop(m, r))
  BY <1>1 DEF ResetEstop, SafetyMachine, SameShown
<1>3. IF ResetFaultOK(m, r)
      THEN /\ ResetFault(m, r).estop = m.estop
           /\ ResetFault(m, r).fault = "NONE"
           /\ ResetFault(m, r).last_nonce = m.last_nonce
           /\ ResetFault(m, r).state =
                IF m.estop THEN m.state ELSE "DISARMED"
      ELSE SameShown(m, ResetFault(m, r))
  BY <1>1 DEF ResetFault, SafetyMachine, SameShown
<1> QED BY <1>2, <1>3

\* STOP, SET_LIMITS, CMD_VEL and a heartbeat change nothing the Pi is told.
LEMMA PlainShown ==
  ASSUME NEW m, Good(m), NEW t \in Millis, NEW g, NEW mode, NEW d
  PROVE  /\ SameShown(m, Stop(m)) /\ SameShown(m, SetLimits(m, d))
         /\ SameShown(m, CommandVelocity(m, g, mode, d, t))
         /\ SameShown(m, NoteHeartbeat(m, t))
         /\ SameShown(m, [m EXCEPT !.hz = FALSE])
<1> DEFINE z == HardZero(m)
<1>1. SameShown(m, z) /\ SafetyMachine(z)
  BY HardZeroGood DEF Zeroed, Good, SameShown
<1>2. SameShown(m, Stop(m)) /\ SameShown(m, SetLimits(m, d))
  BY <1>1 DEF Stop, SetLimits, SafetyMachine, SameShown
<1> QED
  BY <1>2 DEF CommandVelocity, NoteHeartbeat, Good, SafetyMachine, SameShown

\* Nothing hard-zeroed and nothing the Pi is told changed, ...
TickedOn(m, n) == SameShown(m, n) /\ n.hz = FALSE

\* ... or a fault took the authority away, ...
TickFaulted(m, n) ==
  /\ n.hz = TRUE /\ n.estop = m.estop /\ n.last_nonce = m.last_nonce
  /\ m.state = "ARMED" /\ n.state = "FAULT" /\ n.fault # "NONE"

\* ... or the silence of the Pi did.
TickLost(m, n) ==
  /\ n.hz = TRUE /\ n.estop = m.estop /\ n.last_nonce = m.last_nonce
  /\ n.fault = m.fault
  /\ n.state = IF Latched(m) THEN m.state ELSE "DISCONNECTED"

\* The three ways a tick ends.
TickOutcome(m, n) == TickedOn(m, n) \/ TickFaulted(m, n) \/ TickLost(m, n)

\* The connection check of a tick that has not hard-zeroed so far.
LEMMA CheckOutcome ==
  ASSUME NEW m, Good(m), NEW s, Good(s), TickedOn(m, s), NEW t \in Millis
  PROVE  TickOutcome(m, CheckConnection(s, t))
<1>1. Latched(s) = Latched(m)
  BY DEF TickedOn, SameShown, Latched
<1>2. TickLost(s, ConnectionLost(s))
  BY SessionShown, LostGood DEF Zeroed, TickLost
<1>3. TickLost(m, ConnectionLost(s))
  BY <1>1, <1>2 DEF TickLost, TickedOn, SameShown
<1> QED BY <1>3, ConnectionGood DEF TickOutcome

\* A fault that an ARMED machine enters.
LEMMA FaultOutcome ==
  ASSUME NEW m, Good(m), NEW s, Good(s), TickedOn(m, s), s.state = "ARMED",
         NEW c \in FaultCodes \ {"NONE"}
  PROVE  TickOutcome(m, EnterFault(s, c))
<1> DEFINE z == HardZero(s)
<1>1. SameShown(m, z) /\ SafetyMachine(z) /\ z.hz = TRUE
  BY HardZeroGood DEF Zeroed, Good, SameShown, TickedOn
<1>2. ~Latched(s)
  BY DEF Good, Consistent, Latched
<1>3. EnterFault(s, c) = [z EXCEPT !.fault = c, !.state = "FAULT",
                            !.mode = "INACTIVE"]
  BY <1>2 DEF EnterFault
<1>4. m.state = "ARMED"
  BY DEF TickedOn, SameShown
<1> HIDE DEF z
<1> QED BY <1>1, <1>3, <1>4
        DEF TickOutcome, TickFaulted, SafetyMachine, SameShown

\* A tick in which nothing hard-zeros changes nothing the Pi is told; one that
\* hard-zeros enters a fault from ARMED, or loses the session.
LEMMA TickShown ==
  ASSUME NEW m, Good(m), NEW t \in Millis, NEW h \in MotorHealth
  PROVE  TickOutcome(m, Tick([m EXCEPT !.hz = FALSE], t, h))
<1> DEFINE s == [m EXCEPT !.hz = FALSE]
<1>1. Good(s) /\ TickedOn(m, s)
  BY DEF Good, SafetyMachine, Consistent, TickedOn, SameShown
<1> HIDE DEF s
<1>2. CASE s.state # "ARMED"
  BY <1>1, <1>2, CheckOutcome DEF Tick, s
<1>3. CASE s.state = "ARMED" /\ h = "controller_fault"
  <2>1. Tick(s, t, h) = EnterFault(s, "MOTOR_CONTROLLER_FAULT")
    BY <1>3 DEF Tick
  <2> QED BY <1>1, <1>3, <2>1, FaultOutcome DEF FaultCodes, s
<1>4. CASE s.state = "ARMED" /\ h = "lost"
  <2>1. Tick(s, t, h) = EnterFault(s, "MOTOR_FEEDBACK_LOST")
    BY <1>4 DEF Tick
  <2> QED BY <1>1, <1>4, <2>1, FaultOutcome DEF FaultCodes, s
<1>5. CASE s.state = "ARMED" /\ h = "ok" /\ CmdVelOverdue(s, t)
  <2>1. Tick(s, t, h) = EnterFault(s, "CMD_VEL_TIMEOUT")
    BY <1>5 DEF Tick
  <2> QED BY <1>1, <1>5, <2>1, FaultOutcome DEF FaultCodes, s
<1>6. CASE s.state = "ARMED" /\ h = "ok" /\ ~CmdVelOverdue(s, t)
  <2> DEFINE u == UpdateRamp(s, t)
  <2>1. Tick(s, t, h) = CheckConnection(u, t)
    BY <1>6 DEF Tick
  <2>2. Good(u) /\ u.hz = s.hz
    BY <1>1, <1>6, RampGood
  <2>3. TickedOn(m, u)
    BY <1>1, <2>2 DEF UpdateRamp, Good, SafetyMachine, TickedOn, SameShown
  <2> HIDE DEF u
  <2> QED BY <2>1, <2>2, <2>3, CheckOutcome DEF s
<1> QED BY <1>2, <1>3, <1>4, <1>5, <1>6 DEF MotorHealth


\* With a consistent machine relayAllowedMask is what the authority says of
\* relays, and motion wants what it says of motion.
LEMMA MaySwitchFacts ==
  ASSUME StateConsistent
  PROVE  /\ RelayAllowed(sm) = Authority!MaySwitch
         /\ MotionAllowed(sm) => sm.state = "ARMED" /\ ~Authority!Latched
         /\ Authority!Latched = Latched(sm)
  BY DEF StateConsistent, Consistent, RelayAllowed, MotionAllowed, Latched,
         Authority!MaySwitch, Authority!Latched

\* The critical section of a handler that hard-zeros asks for the zero.
LEMMA ZeroAsks ==
  ASSUME Inductive, loop.pc = "handle", NEW m,
         NEW pc \in {"wait", "relays_off"}, ZeroThen(m, pc)
  PROVE  Authority!Asks /\ sm' = m /\ (out # 0 => MotionAllowed(sm))
<1>1. /\ ~Zeroing /\ licensed' = FALSE /\ sm' = m
      /\ UNCHANGED <<out, relay>>
  BY DEF ZeroThen, Zeroing
<1>2. Zeroing' = TRUE
  BY LoopAtFacts DEF ZeroThen, Zeroing, Inductive, TypeOK
<1> QED
  BY <1>1, <1>2 DEF Authority!Asks, Inductive, MotionNeedsAuthority

\* A handler that changes nothing the Pi is told removes motion nevertheless.
LEMMA ZeroStops ==
  ASSUME Authority!Asks, SameShown(sm, sm')
  PROVE  Authority!Next
  BY DEF SameShown, Authority!Next, Authority!Removes, Authority!Stop

\* The handlers that hard-zero remove motion, and do what their frame is for.
LEMMA HandlerAuthority ==
  ASSUME Inductive,
         Hello \/ RejectHello \/ HandleArm \/ HandleDisarm \/ HandleStop
           \/ HandleEstop \/ HandleResetEstop \/ HandleResetFault
           \/ HandleSetLimits
  PROVE  Authority!Next
<1> DEFINE f == loop.frame
<1>1. /\ Good(sm) /\ loop.now \in Millis /\ f \in Frame
      /\ loop.at_rest \in BOOLEAN
  BY DEF Inductive, TypeOK, StateConsistent, Good
<1>2. loop.pc = "handle"
  BY DEF Hello, RejectHello, HandleArm, HandleDisarm, HandleStop, HandleEstop,
         HandleResetEstop, HandleResetFault, HandleSetLimits, Handling
<1>3. Authority!Latched = Latched(sm)
  BY MaySwitchFacts DEF Inductive
<1> USE DEF Authority!Next, Authority!Removes
<1>4. CASE Hello
  <2>1. Authority!Asks /\ sm' = AcceptHello(sm, loop.now)
    BY <1>2, <1>4, ZeroAsks DEF Hello
  <2>2. ~relay
    BY <1>4 DEF Hello, Handling, Inductive, HelloRelaysOff
  <2>3. Authority!Session("DISARMED")
    BY <1>1, <1>3, <2>1, <2>2, SessionShown DEF Authority!Session
  <2> QED BY <2>3
<1>5. CASE RejectHello
  <2>1. Authority!Asks /\ sm' = ConnectionLost(sm)
    BY <1>2, <1>5, ZeroAsks DEF RejectHello
  <2>2. ~relay
    BY <1>5 DEF RejectHello, Handling, Inductive, HelloRelaysOff
  <2>3. Authority!Session("DISCONNECTED")
    BY <1>1, <1>3, <2>1, <2>2, SessionShown DEF Authority!Session
  <2> QED BY <2>3
<1>6. CASE HandleArm
  <2> DEFINE ok == ArmOK(sm, f.nonce, f.mode, loop.at_rest)
  <2>1. /\ Authority!Asks /\ (out # 0 => MotionAllowed(sm))
        /\ sm' = Arm(sm, f.nonce, f.mode, loop.at_rest, loop.now)
    BY <1>2, <1>6, ZeroAsks DEF HandleArm
  <2>2. CASE ok
    <3>1. /\ sm.state = "DISARMED" /\ ~Latched(sm)
          /\ f.nonce # sm.last_nonce /\ out = 0
      BY <2>1, <2>2 DEF ArmOK, Latched, MotionAllowed
    <3>2. /\ sm'.state = "ARMED" /\ sm'.estop = sm.estop
          /\ sm'.fault = sm.fault /\ sm'.last_nonce = f.nonce
      BY <1>1, <2>1, <2>2, ArmShown
    <3>3. Authority!Arm
      BY <1>3, <2>1, <3>1, <3>2 DEF Authority!Arm
    <3> QED BY <3>3
  <2>3. CASE ~ok
    BY <1>1, <2>1, <2>3, ArmShown, ZeroStops
  <2> QED BY <2>2, <2>3
<1>7. CASE HandleDisarm
  <2>1. Authority!Asks /\ sm' = Disarm(sm)
    BY <1>2, <1>7, ZeroAsks DEF HandleDisarm
  <2>2. /\ sm'.estop = sm.estop /\ sm'.fault = sm.fault
        /\ sm'.last_nonce = sm.last_nonce
        /\ sm'.state = IF sm.state = "ARMED" THEN "DISARMED" ELSE sm.state
    BY <1>1, <2>1, RevokeShown
  <2>3. Authority!Disarm \/ Authority!Stop
    BY <2>1, <2>2 DEF Authority!Disarm, Authority!Stop
  <2> QED BY <2>3
<1>8. CASE HandleStop
  <2>1. Authority!Asks /\ sm' = Stop(sm)
    BY <1>2, <1>8, ZeroAsks DEF HandleStop
  <2>2. SameShown(sm, sm')
    BY <1>1, <2>1, PlainShown
  <2> QED BY <2>1, <2>2, ZeroStops
<1>9. CASE HandleEstop
  <2>1. Authority!Asks /\ sm' = Estop(sm)
    BY <1>2, <1>9, ZeroAsks DEF HandleEstop
  <2>2. Authority!Estop
    BY <1>1, <2>1, RevokeShown DEF Authority!Estop
  <2> QED BY <2>2
<1>10. CASE HandleResetEstop
  <2> DEFINE ok == ResetEstopOK(sm, loop.at_rest)
  <2>1. /\ Authority!Asks /\ (out # 0 => MotionAllowed(sm))
        /\ sm' = ResetEstop(sm, loop.at_rest)
    BY <1>2, <1>10, ZeroAsks DEF HandleResetEstop
  <2>2. CASE ok
    <3>1. sm.estop = TRUE /\ sm.fault = "NONE" /\ out = 0 /\ ~relay
      BY <1>1, <1>2, <2>1, <2>2
         DEF ResetEstopOK, Good, SafetyMachine, MotionAllowed, Inductive,
             RelaySafe, RelayAllowed, Latched
    <3>2. Authority!ResetEstop
      BY <1>1, <2>1, <2>2, <3>1, ResetShown DEF Authority!ResetEstop
    <3> QED BY <3>2
  <2>3. CASE ~ok
    BY <1>1, <2>1, <2>3, ResetShown, ZeroStops
  <2> QED BY <2>2, <2>3
<1>11. CASE HandleResetFault
  <2> DEFINE ok == ResetFaultOK(sm, loop.at_rest)
  <2>1. /\ Authority!Asks /\ (out # 0 => MotionAllowed(sm))
        /\ sm' = ResetFault(sm, loop.at_rest)
    BY <1>2, <1>11, ZeroAsks DEF HandleResetFault
  <2>2. CASE ok
    <3>1. sm.fault # "NONE" /\ out = 0 /\ ~relay
      BY <1>1, <1>2, <2>1, <2>2
         DEF ResetFaultOK, Good, SafetyMachine, MotionAllowed, Inductive,
             RelaySafe, RelayAllowed, Latched
    <3>2. Authority!ResetFault
      BY <1>1, <2>1, <2>2, <3>1, ResetShown DEF Authority!ResetFault
    <3> QED BY <3>2
  <2>3. CASE ~ok
    BY <1>1, <2>1, <2>3, ResetShown, ZeroStops
  <2> QED BY <2>2, <2>3
<1>12. CASE HandleSetLimits
  <2>1. Authority!Asks /\ sm' = SetLimits(sm, f.timeout)
    BY <1>2, <1>12, ZeroAsks DEF HandleSetLimits
  <2>2. SameShown(sm, sm')
    BY <1>1, <2>1, PlainShown
  <2> QED BY <2>1, <2>2, ZeroStops
<1> QED BY <1>4, <1>5, <1>6, <1>7, <1>8, <1>9, <1>10, <1>11, <1>12

\* A tick moves only on a licence that nobody has taken back, or rests, or
\* takes the authority away.
LEMMA TickAuthority ==
  ASSUME Inductive, Inductive', TickMotor
  PROVE  Authority!Next \/ UNCHANGED Authority!dvars
<1> USE DEF Authority!Next, Authority!Firmware
<1>1. PICK health \in MotorHealth :
        TickWith(Tick([sm EXCEPT !.hz = FALSE], motor.now, health))
  BY DEF TickMotor
<1> DEFINE n == Tick([sm EXCEPT !.hz = FALSE], motor.now, health)
<1>2. Good(sm) /\ motor.now \in Millis
  BY DEF Inductive, TypeOK, StateConsistent, Good
<1>3. TickOutcome(sm, n) /\ Good(n) /\ TickWith(n)
  BY <1>1, <1>2, TickShown, TickGood, ObservedGood
<1> HIDE DEF n
<1>4. /\ sm' = [n EXCEPT !.hz = FALSE] /\ SameShown(n, sm')
      /\ RelayAllowed(sm') = RelayAllowed(n)
      /\ sm'.applied = n.applied /\ Zeroing' = Zeroing
  BY <1>2, <1>3, PlainShown, ObservedGood DEF TickWith, TickMotor, Zeroing
<1>5. /\ relay \in BOOLEAN /\ licensed \in BOOLEAN
      /\ relay' = (relay /\ RelayAllowed(n))
      /\ licensed' = (licensed /\ ~n.hz)
  BY <1>3 DEF TickWith, Inductive, TypeOK
<1>6. CASE n.hz = TRUE
  <2>1. /\ out' = 0 /\ licensed' = FALSE
        /\ sm'.estop = sm.estop /\ sm'.last_nonce = sm.last_nonce
        /\ \/ /\ sm.state = "ARMED" /\ sm'.state = "FAULT"
              /\ sm'.fault # "NONE"
           \/ /\ sm'.fault = sm.fault
              /\ sm'.state = IF Latched(sm) THEN sm.state ELSE "DISCONNECTED"
    BY <1>3, <1>4, <1>5, <1>6
       DEF TickWith, TickOutcome, TickedOn, TickFaulted, TickLost, SameShown
  <2>2. ~RelayAllowed(sm')
    BY <2>1 DEF RelayAllowed, Latched, Inductive, StateConsistent, Consistent
  <2>3. relay' = FALSE
    BY <1>4, <1>5, <2>2
  <2>4. Authority!Off
    BY <1>4, <2>1, <2>3 DEF Authority!Off
  <2>5. Authority!Fail \/ Authority!Lose
    BY <2>1, <2>4, MaySwitchFacts
       DEF Authority!Fail, Authority!Lose, Inductive
  <2> QED BY <2>5
<1>7. CASE n.hz # TRUE
  <2>1. SameShown(sm, sm') /\ ~n.hz /\ licensed' = licensed
    BY <1>3, <1>4, <1>5, <1>7
       DEF TickOutcome, TickedOn, TickFaulted, TickLost, SameShown
  <2>2. RelayAllowed(sm') = RelayAllowed(sm)
    BY <2>1 DEF SameShown, RelayAllowed, Latched, Inductive, StateConsistent,
                Consistent
  <2>3. relay' = (relay /\ Authority!MaySwitch)
    BY <1>4, <1>5, <2>2, MaySwitchFacts DEF Inductive
  <2>4. out' = 0 \/ out' = out \/ (out' = AppliedPercent(n) /\ out' # 0)
    BY <1>3 DEF TickWith
  <2>5. CASE out' = 0
    BY <1>4, <2>1, <2>3, <2>5 DEF SameShown, Authority!Rest
  <2>6. CASE out' = out
    BY <1>4, <1>5, <2>1, <2>3, <2>6 DEF SameShown, Authority!Switch
  <2>7. CASE out' = AppliedPercent(n) /\ out' # 0
    <3>1. MotionAllowed(n) /\ n.applied # 0
      BY <2>7 DEF AppliedPercent
    <3>2. /\ licensed' /\ ~Zeroing'
      BY <1>4, <3>1 DEF Inductive, MotionLicensed
    <3>3. sm.state = "ARMED" /\ ~Latched(sm)
      BY <1>4, <2>1, <3>1 DEF MotionAllowed, SameShown, Latched
    <3>4. RelayAllowed(sm) = TRUE
      BY <3>3 DEF RelayAllowed, Inductive, StateConsistent, Consistent
    <3>5. relay' = relay /\ ~Authority!Latched
      BY <1>5, <2>3, <3>3, <3>4, MaySwitchFacts DEF Inductive
    <3>6. out' \in Int
      BY DEF Inductive, TypeOK
    <3>7. Authority!Move
      BY <1>4, <2>1, <3>2, <3>3, <3>5, <3>6 DEF SameShown, Authority!Move
    <3> QED BY <3>7
  <2> QED BY <2>4, <2>5, <2>6, <2>7
<1> QED BY <1>6, <1>7

\* The steps of the loop task that do not hard-zero, and the firmware's own.
LEMMA OtherAuthority ==
  ASSUME Inductive,
         Advance \/ Panic \/ PollMotor \/ FinishSetup \/ Receive \/ Heartbeat
           \/ HandleCmdVel \/ HandleRelay \/ EstopRelaysOff \/ ZeroAcked
           \/ ZeroFallback \/ EnforceRelaySafety
  PROVE  Authority!Next \/ UNCHANGED Authority!dvars
<1> USE DEF Authority!Next, Authority!Firmware, Authority!dvars
<1>1. /\ Good(sm) /\ loop.now \in Millis /\ loop.frame \in Frame
      /\ relay \in BOOLEAN /\ now \in Millis
  BY DEF Inductive, TypeOK, StateConsistent, Good
<1>2. /\ LoopAt("idle").pc = "idle" /\ LoopSince("wait").pc = "wait"
      /\ LoopAt("setup").pc = "setup"
  BY <1>1, LoopAtFacts
<1>3. CASE Advance
  BY <1>3 DEF Advance, Zeroing
<1>4. CASE Panic
  <2>1. Authority!Reboot
    BY <1>2, <1>4
       DEF Panic, Zeroing, NewMachine, Authority!Reboot, Authority!PoweredOn
  <2> QED BY <2>1
<1>5. CASE PollMotor
  BY <1>5 DEF PollMotor, Zeroing
<1>6. CASE FinishSetup
  <2>1. /\ sm.state = "BOOT" /\ sm.estop = FALSE /\ sm.fault = "NONE"
    BY <1>1, <1>6 DEF FinishSetup, Inductive, BootUntilSetup, Good, Consistent,
                      SafetyMachine
  <2>2. /\ sm'.state = "DISCONNECTED" /\ sm'.estop = FALSE
        /\ sm'.fault = "NONE" /\ sm'.last_nonce = sm.last_nonce
    <3> DEFINE z == HardZero(sm)
    <3>1. SafetyMachine(z) /\ z.last_nonce = sm.last_nonce
      BY <1>1, HardZeroGood DEF Zeroed, Good
    <3> HIDE DEF z
    <3>2. sm' = [z EXCEPT !.handshake = FALSE, !.estop = FALSE,
                   !.fault = "NONE", !.state = "DISCONNECTED",
                   !.mode = "INACTIVE", !.ref_ms = 0, !.last_heartbeat_ms = 0]
      BY <1>6 DEF FinishSetup, CompleteBoot, z
    <3> QED BY <3>1, <3>2 DEF SafetyMachine
  <2>3. /\ loop.pc = "setup" /\ loop'.pc = "idle"
        /\ UNCHANGED <<licensed, out, relay>>
    BY <1>2, <1>6 DEF FinishSetup
  <2>4. Authority!Boot
    <3>1. Zeroing' = Zeroing
      BY <2>3 DEF Zeroing
    <3>2. UNCHANGED (sm.fault # "NONE")
      BY <2>1, <2>2
    <3> QED BY <2>1, <2>2, <2>3, <3>1, <3>2 DEF Authority!Boot
  <2> QED BY <2>4
<1>7. CASE Receive
  <2>1. /\ loop.pc = "idle" /\ loop'.pc = "handle" /\ relay' \in BOOLEAN
        /\ relay' => relay
        /\ UNCHANGED <<sm, out, licensed>>
    BY <1>1, <1>7 DEF Receive
  <2>2. Authority!Switch
    BY <2>1 DEF Authority!Switch, Zeroing
  <2> QED BY <2>2
<1>8. CASE Heartbeat
  <2>1. /\ loop.pc = "handle" /\ loop'.pc = "idle"
        /\ UNCHANGED <<out, relay, licensed>>
        /\ SameShown(sm, sm')
    BY <1>1, <1>2, <1>8, PlainShown DEF Heartbeat, Handling
  <2> QED BY <2>1 DEF SameShown, Zeroing
<1>9. CASE HandleCmdVel
  <2>1. /\ loop.pc = "handle" /\ loop'.pc = "idle"
        /\ UNCHANGED <<out, relay>>
        /\ SameShown(sm, sm')
    BY <1>1, <1>2, <1>9, PlainShown DEF HandleCmdVel, Handling
  <2>2. CASE CommandVelocityOK(sm, loop.frame.mode, loop.frame.timeout)
    <3>1. licensed' = TRUE /\ sm.state = "ARMED"
      BY <1>9, <2>2 DEF HandleCmdVel, CommandVelocityOK
    <3>2. Authority!Accept
      BY <2>1, <3>1 DEF SameShown, Zeroing, Authority!Accept
    <3> QED BY <3>2
  <2>3. CASE ~CommandVelocityOK(sm, loop.frame.mode, loop.frame.timeout)
    <3>1. licensed' = licensed
      BY <1>9, <2>3 DEF HandleCmdVel
    <3> QED BY <2>1, <3>1 DEF SameShown, Zeroing
  <2> QED BY <2>2, <2>3
<1>10. CASE HandleRelay
  <2>1. /\ loop.pc = "handle" /\ loop'.pc = "idle"
        /\ relay' \in BOOLEAN /\ (relay' => RelayAllowed(sm) \/ relay)
        /\ UNCHANGED <<sm, out, licensed>>
    BY <1>1, <1>2, <1>10, FrameFacts DEF HandleRelay, Handling
  <2>2. Authority!Switch
    BY <2>1, MaySwitchFacts DEF Inductive, Zeroing, Authority!Switch
  <2> QED BY <2>2
<1>11. CASE EstopRelaysOff
  <2>1. /\ loop.pc = "relays_off" /\ loop'.pc = "wait" /\ relay' = FALSE
        /\ UNCHANGED <<sm, out, licensed>>
    BY <1>2, <1>11 DEF EstopRelaysOff
  <2>2. Zeroing' = Zeroing
    BY <2>1 DEF Zeroing
  <2>3. Authority!Switch
    BY <2>1, <2>2 DEF Authority!Switch
  <2> QED BY <2>3
<1>12. CASE ZeroAcked \/ ZeroFallback
  <2>1. /\ loop.pc = "wait" /\ loop'.pc = "idle" /\ out' = 0
        /\ UNCHANGED <<sm, relay, licensed>>
    BY <1>2, <1>12
       DEF ZeroAcked, ZeroFallback, Inductive, AckMeansZero, Zeroing
  <2>2. relay => Authority!MaySwitch
    BY <2>1, MaySwitchFacts DEF Inductive, RelaySafe
  <2>3. Authority!Answer
    BY <2>1, <2>2 DEF Zeroing, Authority!Answer
  <2> QED BY <2>3
<1>13. CASE EnforceRelaySafety
  <2>1. /\ relay' \in BOOLEAN /\ (relay' => relay)
        /\ UNCHANGED <<sm, loop, out, licensed>>
    BY <1>1, <1>13 DEF EnforceRelaySafety
  <2>2. Zeroing' = Zeroing
    BY <2>1 DEF Zeroing
  <2>3. Authority!Switch
    BY <2>1, <2>2 DEF Authority!Switch
  <2> QED BY <2>3
<1> QED BY <1>3, <1>4, <1>5, <1>6, <1>7, <1>8, <1>9, <1>10, <1>11, <1>12, <1>13

\* Every step of the firmware is a step of the authority, or none.
LEMMA StepImplementsAuthority ==
  ASSUME Inductive, Inductive', [Next]_vars
  PROVE  [Authority!Next]_(Authority!dvars)
<1>1. CASE UNCHANGED vars
  BY <1>1 DEF vars, Authority!dvars, Zeroing
<1>2. CASE Next
  BY <1>2, HandlerAuthority, TickAuthority, OtherAuthority
     DEF Next, Motor, Loop, Handle
<1> QED BY <1>1, <1>2

\* The two tasks of the firmware implement the authority the Pi relies on,
\* whatever the delays, deadlines and frames: what removes motion is answered
\* with the motors at rest, and they stay so until a later command.
THEOREM FirmwareImplementsAuthority == Spec => ImplementsAuthority
<1>1. Init => Authority!Init
  BY LoopAtFacts
     DEF Init, NewMachine, Zeroing, Authority!Init, Authority!PoweredOn
<1>2. Inductive /\ [Next]_vars => Inductive'
  BY NextStep
<1>3. Inductive /\ Inductive' /\ [Next]_vars
        => [Authority!Next]_(Authority!dvars)
  BY StepImplementsAuthority
<1> QED
  BY <1>1, <1>2, <1>3, InductiveInvariant, PTL
     DEF Spec, ImplementsAuthority, Authority!Spec

\* What the promises come to.
AuthorityInv ==
  /\ Authority!MovesWithAuthority /\ Authority!SwitchesWithAuthority
  /\ sm.state = "BOOT" => ~relay

\* The authority's steps keep what its promises come to.
LEMMA AuthorityStep ==
  ASSUME AuthorityInv, [Authority!Next]_(Authority!dvars)
  PROVE  AuthorityInv'
<1> USE DEF AuthorityInv, Authority!MovesWithAuthority,
            Authority!SwitchesWithAuthority, Authority!MaySwitch,
            Authority!Latched
<1>1. CASE UNCHANGED Authority!dvars
  BY <1>1 DEF Authority!dvars
<1>2. CASE Authority!Removes
  BY <1>2 DEF Authority!Removes, Authority!Asks, Authority!Stop,
              Authority!Disarm, Authority!Estop, Authority!Session,
              Authority!Arm, Authority!ResetEstop, Authority!ResetFault
<1>3. CASE Authority!Answer \/ Authority!Accept \/ Authority!Switch
  BY <1>3 DEF Authority!Answer, Authority!Accept, Authority!Switch
<1>4. CASE Authority!Boot
  BY <1>4 DEF Authority!Boot
<1>5. CASE Authority!Move
  BY <1>5 DEF Authority!Move
<1>6. CASE Authority!Rest
  BY <1>6 DEF Authority!Rest
<1>7. CASE Authority!Fail \/ Authority!Lose
  BY <1>7 DEF Authority!Fail, Authority!Lose, Authority!Off
<1>8. CASE Authority!Reboot
  BY <1>8 DEF Authority!Reboot, Authority!PoweredOn
<1> QED BY <1>1, <1>2, <1>3, <1>4, <1>5, <1>6, <1>7, <1>8
        DEF Authority!Next, Authority!Firmware

\* The promises by themselves suffice: the motors turn only with authority and
\* on a command newer than the last answered frame that removes motion, and
\* relays are on only with authority.
THEOREM AuthoritySuffices ==
  Authority!Spec =>
    [](Authority!MovesWithAuthority /\ Authority!SwitchesWithAuthority)
<1>1. Authority!Init => AuthorityInv
  BY DEF Authority!Init, Authority!PoweredOn, AuthorityInv,
         Authority!MovesWithAuthority, Authority!SwitchesWithAuthority
<1>2. AuthorityInv
        => Authority!MovesWithAuthority /\ Authority!SwitchesWithAuthority
  BY DEF AuthorityInv
<1> QED BY <1>1, <1>2, AuthorityStep, PTL DEF Authority!Spec

-----------------------------------------------------------------------------
(* When the command watchdog fires                                         *)

\* Only a tick enters a fault.
LEMMA OnlyTicksFault ==
  ASSUME Inductive, Next, ~TickMotor
  PROVE  sm'.fault \in {sm.fault, "NONE"}
<1>1. /\ Good(sm) /\ loop.now \in Millis /\ loop.frame \in Frame
      /\ loop.at_rest \in BOOLEAN
  BY DEF Inductive, TypeOK, StateConsistent, Good
<1>2. CASE Advance \/ PollMotor \/ Receive \/ EstopRelaysOff \/ ZeroAcked
             \/ ZeroFallback \/ EnforceRelaySafety \/ HandleRelay
  BY <1>2 DEF Advance, PollMotor, Receive, EstopRelaysOff, ZeroAcked,
              ZeroFallback, EnforceRelaySafety, HandleRelay
<1>3. CASE Panic
  BY <1>3 DEF Panic, NewMachine
<1>4. CASE FinishSetup
  <2> DEFINE z == HardZero(sm)
  <2>1. SafetyMachine(z)
    BY <1>1, HardZeroGood DEF Zeroed, Good
  <2>2. sm' = [z EXCEPT !.handshake = FALSE, !.estop = FALSE,
                 !.fault = "NONE", !.state = "DISCONNECTED",
                 !.mode = "INACTIVE", !.ref_ms = 0, !.last_heartbeat_ms = 0]
    BY <1>4 DEF FinishSetup, CompleteBoot
  <2> HIDE DEF z
  <2> QED BY <2>1, <2>2 DEF SafetyMachine
<1>5. CASE Heartbeat \/ HandleCmdVel
  BY <1>1, <1>5, PlainShown DEF Heartbeat, HandleCmdVel, SameShown
<1>6. CASE Hello \/ RejectHello
  BY <1>1, <1>6, SessionShown DEF Hello, RejectHello, ZeroThen
<1>7. CASE HandleArm
  BY <1>1, <1>7, ArmShown DEF HandleArm, ZeroThen, SameShown
<1>8. CASE HandleDisarm \/ HandleEstop
  BY <1>1, <1>8, RevokeShown DEF HandleDisarm, HandleEstop, ZeroThen
<1>9. CASE HandleStop \/ HandleSetLimits
  BY <1>1, <1>9, PlainShown
     DEF HandleStop, HandleSetLimits, ZeroThen, SameShown
<1>10. CASE HandleResetEstop
  <2>1. sm' = ResetEstop(sm, loop.at_rest)
    BY <1>10 DEF HandleResetEstop, ZeroThen
  <2> QED BY <1>1, <2>1, ResetShown DEF SameShown
<1>11. CASE HandleResetFault
  <2>1. sm' = ResetFault(sm, loop.at_rest)
    BY <1>11 DEF HandleResetFault, ZeroThen
  <2> QED BY <1>1, <2>1, ResetShown DEF SameShown
<1> QED
  BY <1>2, <1>3, <1>4, <1>5, <1>6, <1>7, <1>8, <1>9, <1>10, <1>11
     DEF Next, Motor, Loop, Handle

\* A machine without a fault that a tick leaves in CMD_VEL_TIMEOUT was ARMED,
\* and its reference was due at the clock sample of the tick.
LEMMA TimeoutIsDue ==
  ASSUME NEW m, Good(m), m.fault = "NONE", NEW t \in Millis,
         NEW h \in MotorHealth,
         Tick([m EXCEPT !.hz = FALSE], t, h).fault = "CMD_VEL_TIMEOUT"
  PROVE  m.state = "ARMED" /\ CmdVelOverdue(m, t)
<1> DEFINE s == [m EXCEPT !.hz = FALSE]
<1>1. /\ Good(s) /\ s.fault = "NONE" /\ s.state = m.state
      /\ CmdVelOverdue(s, t) = CmdVelOverdue(m, t)
  BY DEF Good, SafetyMachine, Consistent, CmdVelOverdue
<1> HIDE DEF s
<1>2. \A u : Good(u) /\ u.fault = "NONE" => CheckConnection(u, t).fault = "NONE"
  <2> SUFFICES ASSUME NEW u, Good(u), u.fault = "NONE"
               PROVE  CheckConnection(u, t).fault = "NONE"
    OBVIOUS
  <2> QED BY SessionShown DEF CheckConnection
<1>3. \A c \in FaultCodes : ~Latched(s) => EnterFault(s, c).fault = c
  BY <1>1, HardZeroGood DEF EnterFault, Zeroed, Good, SafetyMachine
<1>4. Latched(s) = s.estop /\ s.estop \in BOOLEAN
  BY <1>1 DEF Latched, Good, SafetyMachine
<1>5. CASE s.state # "ARMED"
  BY <1>1, <1>2, <1>5 DEF Tick, s
<1>6. CASE s.state = "ARMED" /\ h \in {"controller_fault", "lost"}
  BY <1>1, <1>3, <1>4, <1>6 DEF Tick, s, FaultCodes, Good, Consistent
<1>7. CASE s.state = "ARMED" /\ h = "ok" /\ ~CmdVelOverdue(s, t)
  <2> DEFINE u == UpdateRamp(s, t)
  <2>1. Tick(s, t, h) = CheckConnection(u, t)
    BY <1>7 DEF Tick
  <2>2. Good(u)
    BY <1>1, <1>7, RampGood
  <2>3. u.fault = "NONE"
    BY <1>1 DEF UpdateRamp, Good, SafetyMachine
  <2> HIDE DEF u
  <2> QED BY <1>2, <2>1, <2>2, <2>3 DEF s
<1>8. CASE s.state = "ARMED" /\ h = "ok" /\ CmdVelOverdue(s, t)
  BY <1>1, <1>8
<1> QED BY <1>5, <1>6, <1>7, <1>8 DEF MotorHealth

\* The command watchdog fires before its deadline only when the motor task's
\* clock sample is older than the command it judges (pi_bridge.cpp:835).
THEOREM WatchdogEarlyOnlyByRace == Spec => EarlyOnlyByRace
<1> DEFINE A == sm.fault = "NONE" /\ sm'.fault = "CMD_VEL_TIMEOUT"
                  => since_auth >= sm.timeout \/ since_auth < MotorLag
<1>1. ASSUME Inductive, Timed, [Next]_vars PROVE [A]_vars
  <2> SUFFICES ASSUME Next, sm.fault = "NONE", sm'.fault = "CMD_VEL_TIMEOUT"
               PROVE  since_auth >= sm.timeout \/ since_auth < MotorLag
    BY <1>1
  <2>1. TickMotor
    BY <1>1, OnlyTicksFault
  <2>2. PICK health \in MotorHealth :
          TickWith(Tick([sm EXCEPT !.hz = FALSE], motor.now, health))
    BY <2>1 DEF TickMotor
  <2> DEFINE n == Tick([sm EXCEPT !.hz = FALSE], motor.now, health)
  <2>3. Good(sm) /\ TypeOK /\ motor.now \in Millis
    BY <1>1 DEF Inductive, TypeOK, StateConsistent, Good
  <2>4. Good(n) /\ sm' = [n EXCEPT !.hz = FALSE]
    BY <2>2, <2>3, TickGood, ObservedGood DEF TickWith
  <2>5. n.fault = "CMD_VEL_TIMEOUT"
    <3> HIDE DEF n
    <3> QED BY <2>4 DEF Good, SafetyMachine
  <2>6. sm.state = "ARMED" /\ Age(motor.now, sm.ref_ms) >= sm.timeout
    BY <2>3, <2>5, TimeoutIsDue DEF CmdVelOverdue
  <2>7. since_auth = Age(now, sm.ref_ms)
    BY <1>1, <2>6 DEF Timed, AuthorityTimed
  <2>8. /\ now \in Millis /\ sm.ref_ms \in Millis /\ since_auth \in Nat
        /\ sm.timeout \in 1..HardCmdTimeout
    BY <2>3, TimedTypes
  <2>9. MotorLag \in Nat /\ sm.timeout \in Nat
    BY <2>3, <2>8, ClockFacts, Ranges DEF MotorLag
  <2>10. since_auth >= MotorLag
           => Age(motor.now, sm.ref_ms) = since_auth - MotorLag
    BY <2>3, <2>7, <2>8, AgeFacts DEF MotorLag
  <2> QED BY <2>6, <2>8, <2>9, <2>10
<1> QED
  BY <1>1, InitTimed, NextTimed, PTL DEF Spec, EarlyOnlyByRace
=============================================================================
