---------------------------- MODULE Esp32Bridge ----------------------------
(***************************************************************************)
(* The ROS 2 node module_robot_esp32_bridge/bridge_node.py: the six        *)
(* threads of its executor around _motion_lock and _tx_lock, the authority *)
(* to move that they share, and the serial link to the firmware.           *)
(*                                                                         *)
(* One step is what a thread does between two acquisitions of a lock.  A   *)
(* frame is written in one step when _tx_lock is free; a write that fails  *)
(* is not, because _disconnect then waits for _motion_lock while its       *)
(* caller holds _tx_lock.  _serial_lock and _pending_acks_lock protect     *)
(* single steps and never wait for another lock.                           *)
(*                                                                         *)
(* Time is abstracted: a command may go stale, and a wait or a liveness    *)
(* deadline may expire, at any moment.  The firmware is reduced to what    *)
(* its answers tell the bridge, see module PiBridge for the real one.      *)
(***************************************************************************)
EXTENDS Naturals, Sequences

CONSTANTS
  Calls,        \* the service calls clients may make
  Modes,        \* the modes an ARM may ask for
  MaxCalls,     \* bound on the number of calls to the services
  MaxTroubles,  \* bound on failed reads, writes and deadlines, on faults and
                \* on lost sessions of the firmware, together
  MaxWire,      \* bound on the frames in flight to the firmware
  MaxQueue,     \* bound on the frames in flight to the bridge
  SafetyStates  \* the states the safety node may publish

Threads == {"io", "control", "command", "heartbeat", "service", "zero"}

\* The threads that wait for a COMMAND_ACK.
Waiters == {"service", "zero"}

ZeroCalls == {"DISARM", "STOP", "ESTOP"}

ServiceCalls == {"ARM", "RESET", "RELAY"}

ASSUME CallsAssumption == Calls \subseteq ZeroCalls \cup ServiceCalls
ASSUME ModesAssumption == Modes \subseteq {"manual", "auto"}
ASSUME BoundsAssumption ==
  /\ {MaxCalls, MaxTroubles} \subseteq Nat
  /\ {MaxWire, MaxQueue} \subseteq Nat \ {0}
ASSUME SafetyStatesAssumption ==
  SafetyStates \subseteq {"DISCONNECTED", "DISARMED", "MANUAL", "AUTO",
                          "FAULT", "ESTOP"}

VARIABLES
  port,       \* self._serial is open
  handshake,  \* _handshake_complete
  safety,     \* _safety_state, as last published by the safety node
  status,     \* _last_status: its armed flag, and estop or fault_code # 0
  auth,       \* the authority that _motion_lock protects
  cancelled,  \* _motion_epoch changed since the ARM in flight took its copy
  motion,     \* owner of _motion_lock
  tx,         \* owner of _tx_lock
  th,         \* the threads
  pending,    \* _pending_acks, by the thread that waits
  batch,      \* frames of rx that _io_tick has read and not yet handled
  wire,       \* frames on the way to the firmware
  rx,         \* frames on the way to the bridge
  esp,        \* state of the firmware
  calls, troubles,        \* counters of the bounds
  revoked,    \* history: a DISARM, ESTOP or cancelling STOP since the last ARM
  commanded   \* history: a valid /cmd_vel_safe since ARM, STOP or revocation

session == <<port, handshake, safety, status>>
authority == <<auth, cancelled, commanded>>
locks == <<motion, tx>>
link == <<batch, wire, rx, esp>>
bounds == <<calls, troubles>>

vars == <<session, authority, locks, link, bounds, th, pending, revoked>>

NoAuth ==
  [arming |-> FALSE, in_progress |-> FALSE, mode |-> "none", ack |-> FALSE,
   esp_armed |-> FALSE, open |-> FALSE, cmd |-> "none", stop_sent |-> FALSE]

Idle == [pc |-> "idle", todo |-> <<>>, then |-> "idle", sent |-> FALSE]

Init ==
  /\ port = FALSE /\ handshake = FALSE
  /\ safety = "DISCONNECTED"
  /\ status = [armed |-> FALSE, latched |-> FALSE]
  /\ auth = NoAuth /\ cancelled = FALSE
  /\ motion = "none" /\ tx = "none"
  /\ th = [t \in Threads |-> Idle]
  /\ pending = [t \in Waiters |-> "none"]
  /\ batch = 0 /\ wire = <<>> /\ rx = <<>>
  /\ esp = "DISCONNECTED"
  /\ calls = 0 /\ troubles = 0
  /\ revoked = FALSE /\ commanded = FALSE

-----------------------------------------------------------------------------
(* Authority                                                               *)

\* Mutant: CommandGate.armed_confirmed survives.
ClearedButOpen == [NoAuth EXCEPT !.stop_sent = auth.stop_sent, !.open = auth.open]

\* _clear_arm_authority, in the hands of a thread that owns or may take
\* _motion_lock.  The epoch counter is only compared for equality.
Cleared == [NoAuth EXCEPT !.stop_sent = auth.stop_sent]

ClearAuthority ==
  /\ auth' = Cleared
  /\ cancelled' = TRUE
  /\ commanded' = FALSE

ExpectedState(mode) ==
  CASE mode = "manual" -> "MANUAL"
    [] mode = "auto" -> "AUTO"
    [] mode = "none" -> "no state"

\* _refresh_motion_gate.
GateOpens(a, state, st) ==
  /\ handshake /\ a.arming /\ a.ack /\ a.esp_armed
  /\ state = ExpectedState(a.mode)
  /\ ~st.latched

Refreshed(a, state, st) == [a EXCEPT !.open = GateOpens(a, state, st)]

CanLock(t) == motion \in {"none", t}

-----------------------------------------------------------------------------
(* Threads                                                                 *)

At(t, pc) == th[t].pc = pc

Frame(type, tag) == [type |-> type, tag |-> tag, moving |-> FALSE]

Plain(type) == Frame(type, "none")

\* Thread t goes on at pc, or sends the frames and then goes on at pc.
Go(t, pc) == [th EXCEPT ![t] = [Idle EXCEPT !.pc = pc]]

SendThen(t, frames, pc) ==
  IF frames = <<>> THEN Go(t, pc)
  ELSE [th EXCEPT ![t] = [pc |-> "send", todo |-> frames, then |-> pc,
                          sent |-> FALSE]]

\* The next frame of t is done with; when it was the last one t goes on, and a
\* handler that is over releases _motion_lock.
Continue(t, sent) ==
  LET rest == Tail(th[t].todo)
      next == IF rest = <<>> THEN th[t].then ELSE "send"
  IN  /\ th' = IF next = "send"
               THEN [th EXCEPT ![t].todo = rest, ![t].pc = "send"]
               ELSE [Go(t, next) EXCEPT ![t].sent = sent /\ next # "idle"]
      /\ motion' = IF next = "idle" /\ motion = t THEN "none" ELSE motion

Sent(t) ==
  LET frame == Head(th[t].todo)
  IN  /\ At(t, "send")
      /\ tx = "none" /\ port
      /\ Len(wire) < MaxWire
      /\ wire' = Append(wire, frame)
      /\ pending' = IF frame.tag = "none" THEN pending
                    ELSE [pending EXCEPT ![frame.tag] = "waiting"]
      /\ Continue(t, TRUE)
      /\ UNCHANGED <<session, authority, bounds, tx, batch, rx, esp, revoked>>

\* _write returns False when the port is closed.
NotSent(t) ==
  /\ At(t, "send")
  /\ tx = "none" /\ ~port
  /\ Continue(t, FALSE)
  /\ UNCHANGED <<session, authority, link, bounds, tx, pending, revoked>>

\* _disconnect up to _clear_arm_authority.
ClosePort ==
  /\ port' = FALSE /\ handshake' = FALSE /\ safety' = "DISCONNECTED"
  /\ troubles' = troubles + 1

\* A write raises or is short: the thread disconnects, still inside _tx_lock.
StartDisconnect(t) ==
  /\ tx = "none" /\ port /\ troubles < MaxTroubles
  /\ ClosePort
  /\ tx' = t
  /\ th' = [th EXCEPT ![t].pc = "disconnect"]
  /\ UNCHANGED <<authority, link, status, motion, pending, calls, revoked>>

WriteFails(t) == At(t, "send") /\ StartDisconnect(t)

\* The rest of _disconnect: it needs _motion_lock, wakes every waiter and
\* publishes DISCONNECTED.
FinishDisconnect(t) ==
  /\ At(t, "disconnect")
  /\ CanLock(t)
  /\ auth' = NoAuth /\ cancelled' = TRUE /\ commanded' = FALSE
  /\ status' = [status EXCEPT !.armed = FALSE]
  /\ pending' = [w \in Waiters |->
                   IF pending[w] = "waiting" THEN "woken" ELSE pending[w]]
  /\ tx' = IF tx = t THEN "none" ELSE tx
  /\ IF th[t].todo # <<>>
     THEN Continue(t, FALSE)
     ELSE th' = Go(t, "idle") /\ UNCHANGED motion
  /\ UNCHANGED <<link, bounds, port, handshake, safety, revoked>>

\* A handler that still has to clear the authority before it returns.
ClearAndReturn(t) ==
  /\ At(t, "clear")
  /\ CanLock(t)
  /\ ClearAuthority
  /\ motion' = "none"
  /\ th' = Go(t, "idle")
  /\ UNCHANGED <<session, link, bounds, tx, pending, revoked>>

-----------------------------------------------------------------------------
(* _io_tick                                                                *)

OpenSerial ==
  /\ At("io", "idle") /\ ~port /\ batch = 0
  /\ port' = TRUE /\ handshake' = FALSE /\ safety' = "DISCONNECTED"
  /\ rx' = <<>>
  /\ th' = Go("io", "opened")
  /\ UNCHANGED <<authority, locks, bounds, status, pending, batch, wire, esp,
                 revoked>>

\* A fresh port, an unsuccessful STATUS: clear the authority, send HELLO.
Reset(pc, next) ==
  /\ At("io", pc)
  /\ CanLock("io")
  /\ ClearAuthority
  /\ th' = SendThen("io", <<Plain("HELLO")>>, next)
  /\ UNCHANGED <<session, locks, link, bounds, pending, revoked>>

Opened == Reset("opened", "idle")

ReadBytes ==
  /\ At("io", "idle") /\ port /\ batch = 0
  /\ batch' \in 1 .. Len(rx)
  /\ UNCHANGED <<session, authority, locks, bounds, th, pending, wire, rx,
                 esp, revoked>>

\* A read error, a HELLO, CRC or liveness deadline, or a HELLO_ACK that does
\* not fit: _disconnect without _tx_lock.
ReadFails ==
  /\ At("io", "idle") /\ port /\ troubles < MaxTroubles
  /\ \/ batch = 0 /\ UNCHANGED <<batch, rx>>
     \/ /\ batch > 0 /\ Head(rx).type = "HELLO_ACK"
        /\ batch' = batch - 1 /\ rx' = Tail(rx)
  /\ ClosePort
  /\ th' = Go("io", "disconnect")
  /\ UNCHANGED <<authority, locks, status, pending, wire, esp, calls, revoked>>

RepeatHello ==
  /\ At("io", "idle") /\ port /\ ~handshake /\ batch = 0
  /\ th' = SendThen("io", <<Plain("HELLO")>>, "idle")
  /\ UNCHANGED <<session, authority, locks, link, bounds, pending, revoked>>

\* _handle_frame; the rest of a batch is handled although a frame of it may
\* have closed the port.
Handle(type) ==
  /\ At("io", "idle") /\ batch > 0
  /\ Head(rx).type = type
  /\ batch' = batch - 1
  /\ rx' = Tail(rx)
  /\ UNCHANGED <<locks, bounds, port, wire, esp, revoked>>

HandleHelloAck ==
  /\ Handle("HELLO_ACK")
  /\ handshake' = TRUE
  /\ th' = Go("io", IF handshake THEN "clear" ELSE "greeted")
  /\ UNCHANGED <<authority, safety, status, pending>>

\* The first HELLO_ACK of a connection forces DISARM.
Greeted ==
  /\ At("io", "greeted")
  /\ CanLock("io")
  /\ ClearAuthority
  /\ th' = SendThen("io", <<Plain("DISARM")>>, "idle")
  /\ UNCHANGED <<session, locks, link, bounds, pending, revoked>>

HandleEvent ==
  /\ Handle("EVENT")
  /\ th' = Go("io", "clear")
  /\ UNCHANGED <<authority, handshake, safety, status, pending>>

\* _publish_status: a STATUS that shows a lost session restarts the handshake
\* before it is published.
HandleStatus ==
  /\ Handle("STATUS")
  /\ handshake' = (handshake /\ ~Head(rx).lost)
  /\ LET publish == CASE Head(rx).latched -> "status_latched"
                      [] Head(rx).armed -> "status_armed"
                      [] OTHER -> "status_disarmed"
     IN  th' = [th EXCEPT !["io"] =
                  [Idle EXCEPT !.pc = IF handshake /\ Head(rx).lost
                                      THEN "lost" ELSE publish,
                               !.then = publish]]
  /\ UNCHANGED <<authority, safety, status, pending>>

SessionLost == Reset("lost", th["io"].then)

\* The critical section of _publish_status.
PublishStatus ==
  /\ th["io"].pc \in {"status_latched", "status_armed", "status_disarmed"}
  /\ CanLock("io")
  /\ LET new == [armed |-> At("io", "status_armed"),
                 latched |-> At("io", "status_latched")]
         a == [auth EXCEPT !.esp_armed = TRUE]
     IN  /\ status' = new
         /\ CASE new.armed ->
                   /\ auth' = Refreshed(a, safety, new)
                   /\ UNCHANGED <<cancelled, commanded>>
              [] ~new.armed /\ (new.latched \/ ~auth.in_progress) ->
                   ClearAuthority
              [] ~new.armed /\ ~new.latched /\ auth.in_progress ->
                   /\ auth' = [auth EXCEPT !.esp_armed = FALSE]
                   /\ UNCHANGED <<cancelled, commanded>>
  /\ th' = Go("io", "idle")
  /\ UNCHANGED <<locks, link, bounds, port, handshake, safety, pending,
                 revoked>>

\* _handle_command_ack: the waiter learns the result before _motion_lock is
\* taken to act on a refusal.
HandleCommandAck ==
  /\ Handle("ACK")
  /\ LET ack == Head(rx)
     IN  /\ pending' = IF ack.tag = "none" THEN pending
                       ELSE [pending EXCEPT ![ack.tag] = ack.verdict]
         /\ th' = Go("io", CASE ack.verdict # "refused" -> "idle"
                             [] ack.verdict = "refused" /\ ack.of = "ARM"
                                  -> "clear"
                             [] ack.verdict = "refused" /\ ack.of = "CMD_VEL"
                                  -> "velocity_refused"
                             [] OTHER -> "refused")
  /\ UNCHANGED <<authority, handshake, safety, status>>

\* A refused CMD_VEL: STOP is sent inside _motion_lock.
VelocityRefused ==
  /\ At("io", "velocity_refused")
  /\ CanLock("io")
  /\ motion' = "io"
  /\ th' = SendThen("io", <<Plain("STOP")>>, "clear")
  /\ UNCHANGED <<session, authority, link, bounds, tx, pending, revoked>>

\* Any other refusal takes _motion_lock to do nothing.
Refused ==
  /\ At("io", "refused")
  /\ CanLock("io")
  /\ th' = Go("io", "idle")
  /\ UNCHANGED <<session, authority, locks, link, bounds, pending, revoked>>

Io ==
  \/ OpenSerial \/ Opened \/ ReadBytes \/ ReadFails \/ RepeatHello
  \/ HandleHelloAck \/ Greeted \/ HandleEvent \/ HandleStatus \/ SessionLost
  \/ PublishStatus \/ HandleCommandAck \/ VelocityRefused \/ Refused

-----------------------------------------------------------------------------
(* The subscriptions, /cmd_vel_safe and /safety/state                      *)

OnCmdVel ==
  /\ At("control", "idle")
  /\ CanLock("control")
  /\ auth' = [auth EXCEPT !.cmd = "fresh", !.stop_sent = FALSE]
  /\ commanded' = TRUE
  /\ UNCHANGED <<session, locks, link, bounds, cancelled, th, pending,
                 revoked>>

\* A command that is not finite, not planar, stale or from the future.
RejectVelocity ==
  /\ At("control", "idle")
  /\ CanLock("control")
  /\ auth' = [auth EXCEPT !.cmd = "none", !.stop_sent = TRUE]
  /\ IF port /\ (auth.ack \/ auth.esp_armed \/ status.armed)
     THEN /\ motion' = "control"
          /\ th' = SendThen("control", <<Plain("STOP")>>, "idle")
     ELSE UNCHANGED <<motion, th>>
  /\ UNCHANGED <<session, link, bounds, cancelled, tx, pending, revoked,
                 commanded>>

\* What _on_safety_state sends before it clears the authority; empty when the
\* new state is compatible with it.
Revocation(new) ==
  LET expected == ExpectedState(auth.mode)
  IN  CASE auth.in_progress /\ new = "ESTOP" -> <<Plain("STOP"), Plain("ESTOP")>>
        [] auth.in_progress /\ new \in {"DISCONNECTED", "FAULT"}
             -> <<Plain("STOP"), Plain("DISARM")>>
        [] ~auth.in_progress /\ new = "ESTOP" /\ safety # new
             -> <<Plain("ESTOP")>>
        [] OTHER ->
             IF \/ auth.open /\ new # expected
                \/ auth.ack /\ new # "DISARMED" /\ new # expected
             THEN <<Plain("STOP"), Plain("DISARM")>> ELSE <<>>

OnSafetyState ==
  /\ At("control", "idle")
  /\ CanLock("control")
  /\ \E new \in SafetyStates :
       LET frames == Revocation(new)
       IN  /\ safety' = new
           /\ IF frames = <<>>
              THEN /\ auth' = Refreshed(auth, new, status)
                   /\ UNCHANGED <<motion, th, revoked>>
              ELSE /\ revoked' = TRUE
                   /\ motion' = "control"
                   /\ th' = SendThen("control",
                              IF port THEN frames ELSE <<>>, "clear")
                   /\ UNCHANGED auth
  /\ UNCHANGED <<link, bounds, port, handshake, status, cancelled, tx,
                 pending, commanded>>

-----------------------------------------------------------------------------
(* The timers                                                              *)

\* Time passes: CommandGate.is_fresh becomes false.
CommandGoesStale ==
  /\ auth.cmd = "fresh"
  /\ auth' = [auth EXCEPT !.cmd = "stale"]
  /\ UNCHANGED <<session, locks, link, bounds, cancelled, th, pending,
                 revoked, commanded>>

\* Mutant: _motion_lock is released before the frame is sent.
CommandTickUnlocked ==
  /\ At("command", "idle")
  /\ CanLock("command")
  /\ handshake /\ auth.open /\ auth.cmd = "fresh"
  /\ th' = SendThen("command",
                    <<[Plain("CMD_VEL") EXCEPT !.moving = TRUE]>>, "idle")
  /\ UNCHANGED <<session, authority, locks, link, bounds, pending, revoked>>

\* _command_tick: the frame is made, and sent, inside _motion_lock.
CommandTick ==
  /\ At("command", "idle")
  /\ CanLock("command")
  /\ handshake /\ auth.open
  /\ motion' = "command"
  /\ \/ /\ auth.cmd = "fresh"
        /\ th' = SendThen("command",
                         <<[Plain("CMD_VEL") EXCEPT !.moving = TRUE]>>, "idle")
        /\ UNCHANGED auth
     \/ /\ auth.cmd # "fresh" /\ ~auth.stop_sent
        /\ th' = SendThen("command", <<Plain("STOP")>>, "idle")
        /\ auth' = [auth EXCEPT !.stop_sent = TRUE]
  /\ UNCHANGED <<session, link, bounds, cancelled, tx, pending, revoked,
                 commanded>>

\* _heartbeat_tick: what a HEARTBEAT, a TIME_SYNC_REQUEST and a REQUEST_STATUS
\* change in the firmware is left to chance (EspStatus, EspLosesSession), so a
\* tick leaves a trace only when one of its writes fails.
HeartbeatTick ==
  /\ At("heartbeat", "idle")
  /\ handshake
  /\ StartDisconnect("heartbeat")

-----------------------------------------------------------------------------
(* The services                                                            *)

Call(t, call) ==
  /\ At(t, "idle")
  /\ call \in Calls /\ calls < MaxCalls
  /\ calls' = calls + 1

\* event.wait ends with the answer, a disconnect or the timeout; a later answer
\* finds nothing in _pending_acks.
Forgotten(t, frames) ==
  LET forget(f) == IF "tag" \in DOMAIN f /\ f.tag = t
                   THEN [f EXCEPT !.tag = "none"] ELSE f
  IN  [i \in DOMAIN frames |-> forget(frames[i])]

WaitEnds(t, pc, next) ==
  /\ At(t, pc)
  /\ th' = [th EXCEPT ![t].pc = next]
  /\ wire' = Forgotten(t, wire) /\ rx' = Forgotten(t, rx)
  /\ UNCHANGED <<session, authority, locks, bounds, pending, batch, esp,
                 revoked>>

\* The entry of t is taken out of _pending_acks.
Popped(t) == [pending EXCEPT ![t] = "none"]

\* _on_arm: the availability is checked before _motion_lock is taken.
ArmCalled ==
  /\ Call("service", "ARM")
  /\ handshake /\ port
  /\ th' = Go("service", "arm")
  /\ UNCHANGED <<session, authority, locks, link, pending, troubles,
                 revoked>>

BeginArm ==
  /\ At("service", "arm")
  /\ CanLock("service")
  /\ auth' = [Cleared EXCEPT !.arming = TRUE, !.in_progress = TRUE]
  /\ cancelled' = FALSE /\ revoked' = FALSE /\ commanded' = FALSE
  /\ th' = SendThen("service", <<Frame("ARM", "service")>>, "arm_wait")
  /\ UNCHANGED <<session, locks, link, bounds, pending>>

ArmWaitEnds == WaitEnds("service", "arm_wait", "arm_answered")

\* Mutant: the epoch is not compared.
ArmAcceptedRegardless == pending["service"] = "ok"

\* The answer counts only if nothing revoked the request meanwhile.
ArmAccepted == ~cancelled /\ pending["service"] = "ok"

\* Mutant: the commands received while the ARM was in flight are kept.
ArmGrantedKeepsCommand(mode) ==
  [auth EXCEPT !.arming = TRUE, !.in_progress = FALSE, !.mode = mode,
               !.ack = TRUE, !.esp_armed = TRUE]

\* What an ARM that was accepted leaves in the hands of its handler: commands
\* received while it was in flight are dropped.
ArmGranted(mode) ==
  [auth EXCEPT !.arming = TRUE, !.in_progress = FALSE, !.mode = mode,
               !.ack = TRUE, !.esp_armed = TRUE, !.cmd = "none"]

\* An accepted ARM sends a zero CMD_VEL before anything else.
ArmSucceeds ==
  /\ At("service", "arm_answered")
  /\ CanLock("service")
  /\ ArmAccepted
  /\ \E mode \in Modes : auth' = ArmGranted(mode)
  /\ commanded' = FALSE
  /\ motion' = "service"
  /\ pending' = Popped("service")
  /\ th' = SendThen("service", <<Plain("CMD_VEL")>>, "armed")
  /\ UNCHANGED <<session, link, bounds, cancelled, tx, revoked>>

\* After the zero CMD_VEL: the gate opens if the safety state fits already, or
\* DISARM is sent because the keepalive could not be.
ArmReturns ==
  /\ At("service", "armed")
  /\ IF th["service"].sent
     THEN /\ auth' = Refreshed(auth, safety, status)
          /\ motion' = "none" /\ th' = Go("service", "idle")
          /\ UNCHANGED <<cancelled, commanded>>
     ELSE /\ th' = SendThen("service", <<Plain("DISARM")>>, "clear")
          /\ UNCHANGED <<authority, motion>>
  /\ UNCHANGED <<session, link, bounds, tx, pending, revoked>>

\* The request was written and its answer never came.
Unanswered ==
  th["service"].sent /\ pending["service"] \in {"waiting", "woken"}

\* A cancelled ARM, or one that was written and not answered, is followed by
\* DISARM.
ArmFails ==
  /\ At("service", "arm_answered")
  /\ CanLock("service")
  /\ ~ArmAccepted
  /\ ClearAuthority
  /\ pending' = Popped("service")
  /\ IF cancelled \/ Unanswered
     THEN /\ motion' = "service"
          /\ th' = SendThen("service", <<Plain("DISARM")>>, "idle")
     ELSE UNCHANGED motion /\ th' = Go("service", "idle")
  /\ UNCHANGED <<session, link, bounds, tx, revoked>>

\* RESET_FAULT and RESET_ESTOP hold _motion_lock until they are answered.
ResetCalled ==
  /\ Call("service", "RESET")
  /\ CanLock("service")
  /\ ClearAuthority
  /\ IF handshake /\ port
     THEN /\ motion' = "service"
          /\ th' = SendThen("service", <<Frame("RESET", "service")>>, "wait")
     ELSE UNCHANGED <<motion, th>>
  /\ UNCHANGED <<session, link, tx, pending, troubles, revoked>>

\* DISARM and ESTOP revoke the authority; STOP only what is not yet confirmed.
ZeroCalled(call) ==
  /\ Call("zero", call)
  /\ CanLock("zero")
  /\ IF call = "STOP"
     THEN /\ auth' = [auth EXCEPT !.cmd = "none", !.in_progress = FALSE,
                        !.arming = @ /\ ~auth.in_progress]
          /\ cancelled' = (cancelled \/ auth.in_progress)
          /\ revoked' = (revoked \/ auth.in_progress)
          /\ commanded' = FALSE
     ELSE ClearAuthority /\ revoked' = TRUE
  /\ IF port
     THEN /\ motion' = "zero"
          /\ th' = SendThen("zero", <<Frame(call, "zero")>>, "wait")
     ELSE UNCHANGED <<motion, th>>
  /\ UNCHANGED <<session, link, tx, pending, troubles>>

\* The two handlers above return when they were answered or gave up.
WaiterReturns(t) ==
  /\ At(t, "wait")
  /\ th' = Go(t, "idle")
  /\ motion' = "none"
  /\ pending' = Popped(t)
  /\ wire' = Forgotten(t, wire) /\ rx' = Forgotten(t, rx)
  /\ UNCHANGED <<session, authority, bounds, tx, batch, esp, revoked>>

\* _on_set_relays waits without _motion_lock; unanswered, it switches off.
RelayCalled ==
  /\ Call("service", "RELAY")
  /\ handshake /\ port
  /\ th' = SendThen("service", <<Frame("RELAY", "service")>>, "relay_wait")
  /\ UNCHANGED <<session, authority, locks, link, pending, troubles,
                 revoked>>

RelayWaitEnds == WaitEnds("service", "relay_wait", "relay_answered")

RelayReturns ==
  /\ At("service", "relay_answered")
  /\ pending' = Popped("service")
  /\ th' = IF Unanswered THEN SendThen("service", <<Plain("RELAY")>>, "idle")
           ELSE Go("service", "idle")
  /\ UNCHANGED <<session, authority, locks, link, bounds, revoked>>

-----------------------------------------------------------------------------
(* The firmware, as far as its answers go; see PiBridge                    *)

\* A frame for the bridge; it may be lost on the way.
Answer(frame) ==
  \/ port /\ Len(rx) < MaxQueue /\ rx' = Append(rx, frame)
  \/ UNCHANGED rx

Ack(frame, verdict) ==
  [type |-> "ACK", of |-> frame.type, tag |-> frame.tag, verdict |-> verdict]

\* The state after a frame and the result in its COMMAND_ACK.  The state in an
\* ACK is read after the command, so it may be no longer ARMED.
EspHandles(frame) ==
  CASE frame.type = "HELLO" ->
         /\ esp' = IF esp = "LATCHED" THEN esp ELSE "DISARMED"
         /\ Answer([type |-> "HELLO_ACK"])
    [] frame.type = "ARM" ->
         IF esp = "DISARMED"
         THEN \/ esp' = "ARMED" /\ Answer(Ack(frame, "ok"))
              \/ esp' = "LATCHED" /\ Answer(Ack(frame, "not_armed"))
              \/ UNCHANGED esp /\ Answer(Ack(frame, "refused"))
         ELSE UNCHANGED esp /\ Answer(Ack(frame, "refused"))
    [] frame.type = "CMD_VEL" ->
         /\ UNCHANGED esp
         /\ \/ esp = "ARMED" /\ UNCHANGED rx
            \/ esp # "ARMED" /\ Answer(Ack(frame, "refused"))
    [] frame.type = "RESET" ->
         \/ esp' = (IF esp = "LATCHED" THEN "DISARMED" ELSE esp)
               /\ Answer(Ack(frame, "ok"))
         \/ UNCHANGED esp /\ Answer(Ack(frame, "refused"))
    [] frame.type = "RELAY" ->
         UNCHANGED esp /\ \E v \in {"ok", "refused"} : Answer(Ack(frame, v))
    [] frame.type \in ZeroCalls ->
         /\ esp' = CASE frame.type = "STOP" -> esp
                     [] frame.type = "ESTOP" -> "LATCHED"
                     [] frame.type = "DISARM" /\ esp = "ARMED" -> "DISARMED"
                     [] frame.type = "DISARM" /\ esp # "ARMED" -> esp
         /\ Answer(Ack(frame, "ok"))

EspReceives ==
  /\ wire # <<>>
  /\ wire' = Tail(wire)
  /\ EspHandles(Head(wire)) \/ UNCHANGED <<esp, rx>>
  /\ UNCHANGED <<session, authority, locks, bounds, th, pending, batch,
                 revoked>>

\* A watchdog or the motor controller latches a fault.
EspFaults ==
  /\ esp = "ARMED" /\ troubles < MaxTroubles
  /\ esp' = "LATCHED" /\ troubles' = troubles + 1
  /\ Answer([type |-> "EVENT"])
  /\ UNCHANGED <<session, authority, locks, th, pending, batch, wire, calls,
                 revoked>>

\* The heartbeat timed out, or the firmware rebooted.
EspLosesSession ==
  /\ esp # "DISCONNECTED" /\ troubles < MaxTroubles
  /\ esp' = "DISCONNECTED" /\ troubles' = troubles + 1
  /\ UNCHANGED <<session, authority, locks, th, pending, batch, wire, rx,
                 calls, revoked>>

EspStatus ==
  /\ port /\ Len(rx) < MaxQueue
  /\ rx' = Append(rx, [type |-> "STATUS", armed |-> esp = "ARMED",
                       latched |-> esp = "LATCHED",
                       lost |-> esp = "DISCONNECTED"])
  /\ UNCHANGED <<session, authority, locks, bounds, th, pending, batch, wire,
                 esp, revoked>>

-----------------------------------------------------------------------------

Serial(t) == Sent(t) \/ NotSent(t) \/ WriteFails(t) \/ FinishDisconnect(t)
               \/ ClearAndReturn(t)

Control == OnCmdVel \/ RejectVelocity \/ OnSafetyState

Timers == CommandTick \/ HeartbeatTick

Services ==
  \/ ArmCalled \/ BeginArm \/ ArmWaitEnds \/ ArmSucceeds \/ ArmReturns
  \/ ArmFails \/ ResetCalled \/ (\E call \in ZeroCalls : ZeroCalled(call))
  \/ (\E t \in Waiters : WaiterReturns(t))
  \/ RelayCalled \/ RelayWaitEnds \/ RelayReturns

Firmware == EspReceives \/ EspFaults \/ EspLosesSession \/ EspStatus

Next ==
  \/ (\E t \in Threads : Serial(t))
  \/ Io \/ Control \/ Timers \/ Services \/ CommandGoesStale \/ Firmware

Spec == Init /\ [][Next]_vars

\* No thread stops in the middle of a handler, waits end, and the firmware
\* goes on receiving.  A thread that could write again and again does: the
\* timers leave room between two ticks for the threads that wait for _tx_lock.
Fairness ==
  /\ \A t \in Threads : SF_vars(Serial(t))
  /\ \A t \in Waiters : WF_vars(WaiterReturns(t))
  /\ WF_vars(ArmReturns)
  /\ WF_vars(EspReceives)

FairSpec == Spec /\ Fairness

-----------------------------------------------------------------------------
(* Safety                                                                  *)

Pcs == {"idle", "send", "disconnect", "clear", "opened", "greeted", "lost",
        "status_latched", "status_armed", "status_disarmed",
        "velocity_refused", "refused", "arm", "arm_wait", "arm_answered",
        "armed", "wait", "relay_wait", "relay_answered"}

\* Every variable has its type.
TypeOK ==
  /\ port \in BOOLEAN /\ handshake \in BOOLEAN
  /\ safety \in {"DISCONNECTED"} \cup SafetyStates
  /\ status \in [armed : BOOLEAN, latched : BOOLEAN]
  /\ auth \in [arming : BOOLEAN, in_progress : BOOLEAN, ack : BOOLEAN,
              mode : {"none", "manual", "auto"}, esp_armed : BOOLEAN,
              open : BOOLEAN, cmd : {"none", "fresh", "stale"},
              stop_sent : BOOLEAN]
  /\ cancelled \in BOOLEAN
  /\ motion \in Threads \cup {"none"} /\ tx \in Threads \cup {"none"}
  /\ \A t \in Threads : th[t].pc \in Pcs /\ th[t].then \in Pcs
  /\ pending \in [Waiters -> {"none", "waiting", "woken", "ok", "refused",
                             "not_armed"}]
  /\ batch \in 0 .. Len(rx)
  /\ Len(wire) <= MaxWire /\ Len(rx) <= MaxQueue
  /\ esp \in {"DISCONNECTED", "DISARMED", "ARMED", "LATCHED"}
  /\ revoked \in BOOLEAN /\ commanded \in BOOLEAN

\* A thread is inside a handler of its own while it owns a lock.
Busy(t) == ~At(t, "idle")

\* The gate is open only for an ARM that the firmware acknowledged and nothing
\* revoked, in the mode that the safety node published last; a thread that is
\* about to disconnect is the one exception, as it drops the session before
\* it gets _motion_lock.
GateJustified ==
  auth.open =>
    /\ auth.arming /\ auth.ack /\ auth.esp_armed /\ ~auth.in_progress
    /\ ~revoked \/ motion = "control"
    /\ ~status.latched
    /\ \/ safety = ExpectedState(auth.mode)
       \/ motion = "control"
       \/ ~port \/ At("io", "opened")

VelocityWritten ==
  /\ Len(wire') > Len(wire)
  /\ wire'[Len(wire')].type = "CMD_VEL"

MovingVelocityWritten == VelocityWritten /\ wire'[Len(wire')].moving

\* After a DISARM or an ESTOP was asked for, by a client or by the safety
\* node, no CMD_VEL is written until a later ARM request was acknowledged,
\* even if an ARM was in flight or its answer was already received.
RevocationSticks == [][VelocityWritten => ~revoked]_vars

\* The robot moves only on a command that arrived after the ARM, and after
\* the last STOP, whichever thread the command, the answer and the STOP met.
MotionNeedsFreshCommand ==
  [][MovingVelocityWritten => commanded /\ auth.cmd # "none"]_vars

\* The mode written is the one that the safety node authorised last.
MotionMatchesSafety ==
  [][MovingVelocityWritten => safety = ExpectedState(auth.mode)]_vars

-----------------------------------------------------------------------------
(* Locks                                                                   *)

\* "_send is serialized independently": no two threads wait for each other.
NoLockCycle ==
  \A t, u \in Threads :
    ~(/\ tx = t /\ At(t, "disconnect")
      /\ motion = u /\ u # t /\ At(u, "send"))

WaitsWithLock(t) == motion = t /\ At(t, "wait") /\ th[t].sent

\* STOP, DISARM and ESTOP never queue behind an ARM, reset or relay answer.
ZeroNeverQueues == ~WaitsWithLock("service")

\* As long as no write fails, _motion_lock is released again and again, so
\* every handler gets its turn.
MotionLockReleased == []<>(motion = "none")

=============================================================================
