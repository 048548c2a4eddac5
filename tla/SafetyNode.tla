----------------------------- MODULE SafetyNode -----------------------------
(***************************************************************************)
(* The ROS 2 node module_robot_safety/safety_node.py with its policy.py:   *)
(* the only publisher of /cmd_vel_safe and the operator's /safety/*        *)
(* services.  Every critical section under self._lock is one step; between *)
(* two sections of one handler the other callback groups run: telemetry,   *)
(* commands, the 50 Hz tick, one service at a time, and any number of      *)
(* STOP, DISARM and ESTOP handlers.                                        *)
(*                                                                         *)
(* Below it, the bridge node and the firmware are one machine hw that      *)
(* executes the calls of this node in any order, also after their caller   *)
(* gave up, and reports its state in order and late; see Esp32Bridge and   *)
(* PiBridge for the real ones.  Deadlines are abstracted: whatever may be  *)
(* stale becomes stale at some moment.                                     *)
(***************************************************************************)
EXTENDS Naturals, Sequences

CONSTANTS
  Calls,              \* the services operators may call
  Modes,              \* the modes an ARM may ask for
  Senders,            \* the sources that publish commands
  AutonomousEnabled,  \* the parameter autonomous_enabled
  MaxCalls,           \* bound on calls, invalid commands and faults together
  MaxFaults,          \* bound on faults and disconnections of the hardware
  MaxQueue            \* bound on the STATUS messages in flight

ZeroCalls == {"DISARM", "STOP", "ESTOP"}
Resets == {"RESET_FAULT", "RESET_ESTOP"}
Requests == {"ARM", "DISARM", "ESTOP"} \cup Resets

ASSUME CallsAssumption ==
  Calls \subseteq ZeroCalls \cup Resets \cup {"ARM", "SET_DISARMED"}
ASSUME ModesAssumption == Modes \subseteq {"MANUAL", "AUTO"}
ASSUME SendersAssumption == Senders \subseteq {"MANUAL", "AUTO"}
ASSUME AutonomousAssumption == AutonomousEnabled \in BOOLEAN
ASSUME BoundsAssumption ==
  /\ {MaxCalls, MaxFaults} \subseteq Nat
  /\ MaxQueue \in Nat \ {0}

Sources == {"MANUAL", "AUTO"}

\* The threads that may be about to call _request_bridge_zero.
Askers == {"tick", "command", "service", "zero"}

VARIABLES
  node,       \* the authority and the latches that self._lock protects
  view,       \* what telemetry said last, and whether it is still fresh
  cancelled,  \* _authority_epoch changed since the service took its copy
  service,    \* the handler of ARM or of a reset
  sending,    \* STOP, DISARM, ESTOP handlers between lock and bridge call
  asking,     \* calls of _request_bridge_zero that a thread will make next
  limited,    \* the last one was less than half a second ago
  published,  \* the source of the last /cmd_vel_safe
  requests,   \* calls on their way to the bridge node (a STOP changes nothing
              \* that hw has)
  hw,         \* bridge node and firmware
  statuses,   \* STATUS messages on their way to this node
  calls, faults,
  revoked,    \* history: the authority was revoked since the last ARM call
  newer,      \* history: a call or a hazard came after the reset in progress
  commanded   \* history: sources heard since ARM was granted or STOP called

inputs == <<requests, hw, statuses, calls, faults>>
history == <<revoked, newer, commanded>>

vars == <<node, view, cancelled, service, sending, asking, limited, published,
          inputs, history>>

Status == [state : {"DISCONNECTED", "DISARMED", "ARMED", "FAULT", "ESTOP"},
           estop : BOOLEAN, fault : BOOLEAN]

NoService == [op |-> "none", pc |-> "idle", mode |-> "MANUAL",
              answer |-> "none", latched |-> FALSE, clear |-> FALSE,
              seen |-> FALSE]

Init ==
  /\ node = [mode |-> "DISARMED", arming |-> FALSE, ack_old |-> FALSE,
             confirmed |-> FALSE, estop |-> FALSE, fault |-> FALSE,
             stop |-> TRUE, stale_sent |-> FALSE, MANUAL |-> FALSE,
             AUTO |-> FALSE]
  /\ view = [status |-> [state |-> "DISCONNECTED", estop |-> FALSE,
                         fault |-> FALSE],
             fresh |-> FALSE, motor_ok |-> FALSE, auto_ready |-> FALSE]
  /\ cancelled = FALSE /\ service = NoService
  /\ sending = {} /\ asking = [a \in Askers |-> "none"] /\ limited = FALSE
  /\ published = "ZERO"
  /\ requests = {} /\ statuses = <<>>
  /\ hw = [state |-> "DISCONNECTED", estop |-> FALSE, fault |-> FALSE]
  /\ calls = 0 /\ faults = 0
  /\ revoked = TRUE /\ newer = FALSE /\ commanded = {}

-----------------------------------------------------------------------------
(* Policy                                                                  *)

\* node.mode stands for _operator_armed, _auto_armed and _mode, which are
\* only assigned together.
Armed(n) == n.mode # "DISARMED"

\* The fields of Conditions.
Connected == view.fresh /\ view.status.state # "DISCONNECTED"
Esp32Armed == view.fresh /\ view.status.state = "ARMED"
Esp32FaultFree == view.fresh /\ ~view.status.fault
EstopClear(n) == ~n.estop /\ ~(view.fresh /\ view.status.estop)

\* manual_rejection and auto_rejection return None.
ManualOK(n) ==
  /\ EstopClear(n) /\ Esp32FaultFree /\ Connected /\ view.motor_ok
  /\ Armed(n) /\ Esp32Armed

AutoOK(n) == ManualOK(n) /\ n.mode = "AUTO" /\ view.auto_ready

\* _clear_motion_authority_locked, the epoch excepted.
Clear(n) ==
  [n EXCEPT !.mode = "DISARMED", !.arming = FALSE, !.ack_old = FALSE,
            !.confirmed = FALSE, !.stop = TRUE,
            !.MANUAL = FALSE, !.AUTO = FALSE]

\* Under condition c, _authority_epoch += 1; a service compares it only with
\* its own copy.
EpochAdvances(c) == cancelled' = (cancelled \/ (c /\ service.op # "none"))

\* _apply_live_faults_locked: which of its branches clear the authority, and
\* which of these latch a fault.
LosesArm(n) ==
  Armed(n) /\ (~Connected \/ (~Esp32Armed /\ ~n.confirmed /\ n.ack_old))

LatchesFault(n) ==
  \/ ~Esp32FaultFree /\ Connected
  \/ Armed(n) /\ ~view.motor_ok
  \/ n.mode = "AUTO" /\ Esp32Armed /\ ~view.auto_ready

LiveFault(n) == ~EstopClear(n) \/ LosesArm(n) \/ LatchesFault(n)

AfterLiveFaults(n) ==
  CASE ~EstopClear(n) -> [Clear(n) EXCEPT !.estop = TRUE]
    [] EstopClear(n) /\ LosesArm(n) -> Clear(n)
    [] EstopClear(n) /\ ~LosesArm(n) /\ LatchesFault(n)
         -> [Clear(n) EXCEPT !.fault = TRUE]
    [] ~LiveFault(n) -> n

\* _derive_state_locked.
DerivedState(n) ==
  CASE ~EstopClear(n) -> "ESTOP"
    [] EstopClear(n) /\ n.fault -> "FAULT"
    [] EstopClear(n) /\ ~n.fault /\ ~Connected -> "DISCONNECTED"
    [] OTHER -> IF n.mode = "MANUAL" /\ ManualOK(n) THEN "MANUAL"
                ELSE IF AutoOK(n) THEN "AUTO"
                ELSE IF n.mode = "AUTO" /\ (Esp32Armed \/ ~Esp32FaultFree
                                              \/ ~view.motor_ok)
                     THEN "FAULT" ELSE "DISARMED"

\* selected_source; ESTOP and STOP select zero as well.
SelectedSource(n, state) ==
  CASE n.stop \/ state \notin Sources -> "ZERO"
    [] ~n.stop /\ state \in Sources ->
         IF ManualOK(n) /\ n.MANUAL THEN "MANUAL"
         ELSE IF state = "AUTO" /\ AutonomousEnabled /\ n.AUTO
              THEN "AUTO" ELSE "ZERO"

\* _publish_zero_immediately; the state it publishes next is DerivedState.
PublishZero == published' = "ZERO"

-----------------------------------------------------------------------------
(* Telemetry                                                               *)

\* _on_status.  A repeated sample of a known fault does not cancel a reset.
Hazard(old, new) ==
  \/ new.estop /\ ~old.estop
  \/ new.fault /\ ~old.fault
  \/ old.state # "DISCONNECTED" /\ new.state = "DISCONNECTED"

OnStatus ==
  /\ statuses # <<>>
  /\ statuses' = Tail(statuses)
  /\ LET new == Head(statuses)
         clears == new.estop \/ new.fault \/ new.state = "DISCONNECTED"
         hazard == Hazard(view.status, new)
         demoted == ~clears /\ new.state # "ARMED" /\ Armed(node)
                      /\ node.confirmed
         latched == [node EXCEPT !.estop = @ \/ new.estop,
                                 !.fault = @ \/ new.fault]
     IN  /\ view' = [view EXCEPT !.status = new, !.fresh = TRUE]
         /\ node' = IF clears \/ demoted THEN Clear(latched)
                    ELSE [latched EXCEPT !.confirmed = @ \/ new.state = "ARMED"]
         /\ EpochAdvances(demoted \/
              (clears /\ (Armed(node) \/ node.arming \/ hazard)))
         /\ revoked' = (revoked \/ clears \/ demoted)
         /\ newer' = (newer \/ (hazard /\ service.op \in Resets))
  /\ service' = [service EXCEPT !.seen = service.op \in Resets]
  /\ UNCHANGED <<sending, asking, limited, published, requests, hw, calls,
                 faults, commanded>>

\* _on_motor or the deadline of its sample; the nine AUTO gates of the other
\* topics and their deadlines, of which only AUTO depends.
OnTelemetry ==
  /\ \/ view' = [view EXCEPT !.motor_ok = ~@]
     \/ "AUTO" \in Modes /\ view' = [view EXCEPT !.auto_ready = ~@]
  /\ UNCHANGED <<node, cancelled, service, sending, asking, limited, published,
                 inputs, history>>

\* Deadlines that pass.
StatusExpires == view.fresh /\ view' = [view EXCEPT !.fresh = FALSE]
                   /\ UNCHANGED <<node, limited>>
AckExpires == Armed(node) /\ ~node.ack_old
                /\ node' = [node EXCEPT !.ack_old = TRUE]
                /\ UNCHANGED <<view, limited>>
CommandExpires(source) == node[source]
                            /\ node' = [node EXCEPT ![source] = FALSE]
                            /\ UNCHANGED <<view, limited>>
LimitExpires == limited /\ limited' = FALSE /\ UNCHANGED <<node, view>>

Expire ==
  /\ \/ StatusExpires \/ AckExpires \/ LimitExpires
     \/ \E source \in Sources : CommandExpires(source)
  /\ UNCHANGED <<cancelled, service, sending, asking, published, inputs,
                 history>>

-----------------------------------------------------------------------------
(* Commands and the tick                                                   *)

\* _on_manual_command and _on_auto_command with a valid command.
OnCommand(source) ==
  /\ asking["command"] = "none"
  /\ node' = [node EXCEPT ![source] = TRUE, !.stop = FALSE,
                          !.stale_sent = FALSE]
  /\ commanded' = commanded \cup {source}
  /\ UNCHANGED <<view, cancelled, service, sending, asking, limited, published,
                 inputs, revoked, newer>>

\* The same with a command that is not finite or not planar.
OnInvalidCommand(source) ==
  /\ asking["command"] = "none" /\ calls + faults < MaxCalls
  /\ calls' = calls + 1
  /\ node' = [node EXCEPT ![source] = FALSE, !.stop = TRUE,
                          !.stale_sent = FALSE]
  /\ asking' = [asking EXCEPT !["command"] = "stop"]
  /\ UNCHANGED <<view, cancelled, service, sending, limited, published, requests,
                 hw, statuses, faults, history>>

\* Mutant of Tick: ARMED hardware without the authority of this node is left
\* alone.
TickAdoptsHardware ==
  /\ asking["tick"] = "none"
  /\ LET n == AfterLiveFaults(node)
         state == DerivedState(n)
         source == SelectedSource(n, state)
         stale == state \in Sources /\ ~n.stop /\ source = "ZERO"
                    /\ ~n.stale_sent
         lost == Armed(node) /\ ~Armed(n)
     IN  /\ node' = [n EXCEPT !.stale_sent = @ \/ stale]
         /\ published' = source
         /\ asking' = [asking EXCEPT !["tick"] =
                         IF lost THEN "disarm"
                         ELSE IF stale THEN "stop" ELSE "none"]
         /\ EpochAdvances(LiveFault(node))
         /\ revoked' = (revoked \/ LiveFault(node))
  /\ UNCHANGED <<view, service, sending, limited, inputs, newer, commanded>>

\* _tick: the command and the state leave inside the lock.
Tick ==
  /\ asking["tick"] = "none"
  /\ LET n == AfterLiveFaults(node)
         state == DerivedState(n)
         source == SelectedSource(n, state)
         stale == state \in Sources /\ ~n.stop /\ source = "ZERO"
                    /\ ~n.stale_sent
         unexpected == Esp32Armed /\ ~Armed(n) /\ ~n.arming
         lost == Armed(node) /\ ~Armed(n)
     IN  /\ node' = [n EXCEPT !.stale_sent = @ \/ stale]
         /\ published' = source
         /\ asking' = [asking EXCEPT !["tick"] =
                         IF lost \/ unexpected THEN "disarm"
                         ELSE IF stale THEN "stop" ELSE "none"]
         /\ EpochAdvances(LiveFault(node))
         /\ revoked' = (revoked \/ LiveFault(node))
  /\ UNCHANGED <<view, service, sending, limited, inputs, newer, commanded>>

\* _request_bridge_zero: at most one request in half a second.  The command
\* handlers publish a zero just before.
AskBridge(a) ==
  /\ asking[a] # "none"
  /\ asking' = [asking EXCEPT ![a] = "none"]
  /\ limited' = TRUE
  /\ IF a = "command" THEN PublishZero ELSE UNCHANGED published
  /\ requests' = IF ~limited /\ asking[a] = "disarm"
                 THEN requests \cup {"DISARM"} ELSE requests
  /\ UNCHANGED <<node, view, cancelled, service, sending, hw, statuses, calls,
                 faults, history>>

-----------------------------------------------------------------------------
(* Services                                                                *)

Call(op) == op \in Calls /\ calls + faults < MaxCalls /\ calls' = calls + 1

ServiceIdle == service.pc = "idle" /\ asking["service"] = "none"

At(pc) == service.pc = pc

\* _prearm_rejection_locked returns None; whether the wheels are at rest is
\* left open.
MayArm(mode) ==
  /\ ~node.arming /\ ~node.fault /\ EstopClear(node)
  /\ Connected /\ Esp32FaultFree /\ view.motor_ok
  /\ view.status.state = "DISARMED"
  /\ mode = "AUTO" => AutonomousEnabled /\ view.auto_ready

\* _on_arm up to the call of the bridge.  A rejected ARM changes nothing.
ArmCalled(mode) ==
  /\ ServiceIdle /\ Call("ARM")
  /\ MayArm(mode)
  /\ node' = [node EXCEPT !.MANUAL = FALSE, !.AUTO = FALSE, !.stop = TRUE,
                          !.stale_sent = FALSE, !.arming = TRUE]
  /\ PublishZero
  /\ service' = [NoService EXCEPT !.op = "ARM", !.pc = "call", !.mode = mode]
  /\ cancelled' = FALSE
  /\ revoked' = FALSE
  /\ UNCHANGED <<view, sending, asking, limited, requests, hw, statuses, faults,
                 newer, commanded>>

\* _call_bridge, or the bridge service is not there.
CallBridge ==
  /\ At("call")
  /\ \/ /\ requests' = requests \cup {service.op}
        /\ service' = [service EXCEPT !.pc = "wait"]
     \/ /\ service' = [service EXCEPT !.pc = "answered"]
        /\ UNCHANGED requests
  /\ UNCHANGED <<node, view, cancelled, sending, asking, limited, published, hw,
                 statuses, calls, faults, history>>

CallTimesOut ==
  /\ At("wait")
  /\ service' = [service EXCEPT !.pc = "answered"]
  /\ UNCHANGED <<node, view, cancelled, sending, asking, limited, published,
                 inputs, history>>

\* Mutants of ArmGranted: the epoch is not compared; the commands received in
\* the meantime count.
ArmGrantedRegardless ==
  /\ At("answered") /\ service.op = "ARM"
  /\ service.answer = "ok" /\ ~node.estop /\ ~node.fault
  /\ node' = [node EXCEPT !.arming = FALSE, !.MANUAL = FALSE, !.AUTO = FALSE,
                          !.mode = service.mode, !.confirmed = FALSE,
                          !.ack_old = FALSE, !.stop = TRUE]
  /\ commanded' = {}
  /\ service' = NoService /\ cancelled' = FALSE
  /\ UNCHANGED <<view, sending, asking, limited, published, inputs,
                 revoked, newer>>

ArmGrantedKeepsCommands ==
  /\ At("answered") /\ service.op = "ARM"
  /\ ~cancelled /\ service.answer = "ok" /\ ~node.estop /\ ~node.fault
  /\ node' = [node EXCEPT !.arming = FALSE, !.mode = service.mode,
                          !.confirmed = FALSE, !.ack_old = FALSE]
  /\ commanded' = {}
  /\ service' = NoService
  /\ UNCHANGED <<view, cancelled, sending, asking, limited, published, inputs,
                 revoked, newer>>

\* The rest of _on_arm.
ArmGranted ==
  /\ At("answered") /\ service.op = "ARM"
  /\ ~cancelled /\ service.answer = "ok" /\ ~node.estop /\ ~node.fault
  /\ node' = [node EXCEPT !.arming = FALSE, !.MANUAL = FALSE, !.AUTO = FALSE,
                          !.mode = service.mode, !.confirmed = FALSE,
                          !.ack_old = FALSE, !.stop = TRUE]
  /\ commanded' = {}
  /\ service' = NoService
  /\ UNCHANGED <<view, cancelled, sending, asking, limited, published, inputs,
                 revoked, newer>>

ArmDenied ==
  /\ At("answered") /\ service.op = "ARM"
  /\ cancelled \/ service.answer # "ok" \/ node.estop \/ node.fault
  /\ node' = Clear(node)
  /\ cancelled' = FALSE /\ revoked' = TRUE
  /\ service' = NoService
  /\ asking' = [asking EXCEPT !["service"] = "disarm"]
  /\ UNCHANGED <<view, sending, limited, published, inputs, newer, commanded>>

\* _hardware_clear_locked for the latch that op resets.
HardwareClear(op) ==
  /\ view.fresh /\ view.status.state = "DISARMED"
  /\ IF op = "RESET_ESTOP" THEN ~view.status.estop ELSE ~view.status.fault

HardwareLatched(op) ==
  view.fresh /\ IF op = "RESET_ESTOP" THEN view.status.estop
                                      ELSE view.status.fault

\* The first critical section of _on_reset_fault and of _on_reset_estop.
ResetCalled(op) ==
  /\ ServiceIdle /\ Call(op)
  /\ node' = Clear(node)
  /\ service' = [NoService EXCEPT !.op = op, !.pc = "zero",
                   !.latched = HardwareLatched(op), !.clear = HardwareClear(op)]
  /\ cancelled' = FALSE /\ revoked' = TRUE /\ newer' = FALSE
  /\ UNCHANGED <<view, sending, asking, limited, published, requests, hw,
                 statuses, faults, commanded>>

\* _publish_zero_immediately outside the lock; then a reset calls the bridge if
\* the hardware shows the latch, and SET_DISARMED asks for a DISARM.
ZeroPublished ==
  /\ At("zero")
  /\ PublishZero
  /\ IF service.op = "SET_DISARMED"
     THEN /\ service' = NoService
          /\ asking' = [asking EXCEPT !["service"] = "disarm"]
     ELSE /\ service' = [service EXCEPT
                           !.pc = IF service.latched THEN "call" ELSE "finish"]
          /\ UNCHANGED asking
  /\ UNCHANGED <<node, view, cancelled, sending, limited, inputs, history>>

\* _wait_for_post_request_clear_status, if the bridge confirmed the reset.
ResetAnswered ==
  /\ At("answered") /\ service.op \in Resets
  /\ \/ /\ service.answer = "ok" /\ service.seen /\ HardwareClear(service.op)
        /\ service' = [service EXCEPT !.pc = "finish", !.clear = TRUE]
     \/ /\ service' = [service EXCEPT !.pc = "finish"]
  /\ UNCHANGED <<node, view, cancelled, sending, asking, limited, published,
                 inputs, history>>

\* Mutant of ResetDone: the epoch is not compared.
ResetDoneRegardless ==
  /\ At("finish")
  /\ service.clear
  /\ node' = IF service.op = "RESET_ESTOP" THEN [node EXCEPT !.estop = FALSE]
                                           ELSE [node EXCEPT !.fault = FALSE]
  /\ service' = NoService /\ cancelled' = FALSE /\ newer' = FALSE
  /\ UNCHANGED <<view, sending, asking, limited, published, inputs,
                 revoked, commanded>>

ResetDone ==
  /\ At("finish")
  /\ ~cancelled /\ service.clear
  /\ node' = IF service.op = "RESET_ESTOP" THEN [node EXCEPT !.estop = FALSE]
                                           ELSE [node EXCEPT !.fault = FALSE]
  /\ service' = NoService /\ cancelled' = FALSE /\ newer' = FALSE
  /\ UNCHANGED <<view, sending, asking, limited, published, inputs,
                 revoked, commanded>>

ResetDenied ==
  /\ At("finish")
  /\ cancelled \/ ~service.clear
  /\ service' = NoService /\ cancelled' = FALSE /\ newer' = FALSE
  /\ UNCHANGED <<node, view, sending, asking, limited, published, inputs,
                 revoked, commanded>>

\* _on_set_control_mode with DISARMED; the other modes only set a field that
\* nothing reads.
SetDisarmed ==
  /\ ServiceIdle /\ Call("SET_DISARMED")
  /\ node' = Clear(node)
  /\ cancelled' = FALSE /\ revoked' = TRUE
  /\ service' = [NoService EXCEPT !.op = "SET_DISARMED", !.pc = "zero"]
  /\ UNCHANGED <<view, sending, asking, limited, published, requests, hw,
                 statuses, faults, newer, commanded>>

\* _on_disarm, _on_estop and _on_stop, which keeps an established ARM.
ZeroCalled(op) ==
  /\ Call(op)
  /\ node' = CASE op = "DISARM" -> Clear(node)
               [] op = "ESTOP" -> [Clear(node) EXCEPT !.estop = TRUE]
               [] op = "STOP" ->
                    [node EXCEPT !.arming = FALSE, !.stop = TRUE,
                                 !.stale_sent = TRUE, !.MANUAL = FALSE,
                                 !.AUTO = FALSE]
  /\ EpochAdvances(TRUE)
  /\ newer' = (newer \/ service.op \in Resets)
  /\ revoked' = (revoked \/ op # "STOP"
                  \/ (service.op = "ARM" /\ ~Armed(node)))
  /\ commanded' = {}
  /\ sending' = sending \cup {op}
  /\ UNCHANGED <<view, service, asking, limited, published, requests, hw,
                 statuses, faults>>

\* The zero command and the bridge call that follow the critical section; a
\* DISARM that is not acknowledged is repeated by _request_bridge_zero.
SendZero(op) ==
  /\ op \in sending
  /\ sending' = sending \ {op}
  /\ PublishZero
  /\ requests' = requests \cup ({op} \ {"STOP"})
  /\ asking' \in {asking} \cup
       (IF op = "DISARM" THEN {[asking EXCEPT !["zero"] = "disarm"]} ELSE {})
  /\ UNCHANGED <<node, view, cancelled, service, limited, hw, statuses, calls,
                 faults, history>>

-----------------------------------------------------------------------------
(* The bridge node and the firmware                                        *)

\* The state after a call, and whether it is answered with success.
Executed(op) ==
  CASE op = "ARM" /\ hw.state = "DISARMED" -> [hw EXCEPT !.state = "ARMED"]
    [] op = "DISARM" /\ hw.state = "ARMED" -> [hw EXCEPT !.state = "DISARMED"]
    [] op = "ESTOP" /\ hw.state # "DISCONNECTED"
         -> [hw EXCEPT !.state = "ESTOP", !.estop = TRUE]
    [] op = "RESET_ESTOP" /\ hw.state = "ESTOP" /\ ~hw.fault
         -> [hw EXCEPT !.state = "DISARMED", !.estop = FALSE]
    [] op = "RESET_FAULT" /\ hw.state \in {"FAULT", "ESTOP"}
         -> [hw EXCEPT !.state = IF hw.estop THEN "ESTOP" ELSE "DISARMED",
                       !.fault = FALSE]
    [] OTHER -> hw

Succeeds(op) ==
  CASE op = "ARM" -> hw.state = "DISARMED"
    [] op \in Resets -> Executed(op).state = "DISARMED" /\ Executed(op) # hw
    [] OTHER -> FALSE

Execute(op) ==
  /\ op \in requests
  /\ requests' = requests \ {op}
  /\ hw' = Executed(op)
  /\ service' = IF At("wait") /\ service.op = op
                THEN [service EXCEPT !.pc = "answered",
                        !.answer = IF Succeeds(op) THEN "ok" ELSE "refused"]
                ELSE service
  /\ UNCHANGED <<node, view, cancelled, sending, asking, limited, published,
                 statuses, calls, faults, history>>

HardwareFaults ==
  /\ hw.state = "ARMED" /\ faults < MaxFaults /\ calls + faults < MaxCalls
  /\ hw' = [hw EXCEPT !.state = "FAULT", !.fault = TRUE]
  /\ faults' = faults + 1
  /\ UNCHANGED <<node, view, cancelled, service, sending, asking, limited,
                 published, requests, statuses, calls, history>>

\* The latches survive a lost link, in the firmware and in the bridge.
HardwareDisconnects ==
  /\ hw.state # "DISCONNECTED" /\ faults < MaxFaults /\ calls + faults < MaxCalls
  /\ hw' = [hw EXCEPT !.state = "DISCONNECTED"]
  /\ faults' = faults + 1
  /\ UNCHANGED <<node, view, cancelled, service, sending, asking, limited,
                 published, requests, statuses, calls, history>>

HardwareConnects ==
  /\ hw.state = "DISCONNECTED"
  /\ hw' = [hw EXCEPT !.state = IF hw.estop THEN "ESTOP"
                                ELSE IF hw.fault THEN "FAULT" ELSE "DISARMED"]
  /\ UNCHANGED <<node, view, cancelled, service, sending, asking, limited,
                 published, requests, statuses, calls, faults, history>>

SendStatus ==
  /\ Len(statuses) < MaxQueue
  /\ statuses' = Append(statuses, hw)
  /\ UNCHANGED <<node, view, cancelled, service, sending, asking, limited,
                 published, requests, hw, calls, faults, history>>

-----------------------------------------------------------------------------

Service ==
  \/ (\E mode \in Modes : ArmCalled(mode)) \/ CallBridge \/ CallTimesOut
  \/ ArmGranted \/ ArmDenied
  \/ (\E op \in Resets : ResetCalled(op)) \/ ZeroPublished \/ ResetAnswered
  \/ ResetDone \/ ResetDenied \/ SetDisarmed

Zero == \E op \in ZeroCalls : ZeroCalled(op) \/ SendZero(op)

Command == \E source \in Senders : OnCommand(source) \/ OnInvalidCommand(source)

Hardware ==
  \/ (\E op \in Requests : Execute(op))
  \/ HardwareFaults \/ HardwareDisconnects \/ HardwareConnects \/ SendStatus

Next ==
  \/ OnStatus \/ OnTelemetry \/ Expire \/ Command \/ Tick
  \/ (\E a \in Askers : AskBridge(a)) \/ Service \/ Zero \/ Hardware

Spec == Init /\ [][Next]_vars

\* The tick and STATUS go on for ever, calls reach the bridge and come back,
\* half a second passes, and a tick (20 ms) meets a fresh STATUS (500 ms).
Fairness ==
  /\ WF_vars(Tick) /\ WF_vars(OnStatus) /\ WF_vars(SendStatus)
  /\ \A a \in Askers : WF_vars(AskBridge(a))
  /\ WF_vars(LimitExpires /\ Expire)
  /\ \A op \in Requests : WF_vars(Execute(op))
  /\ WF_vars(ArmGranted \/ ArmDenied) /\ WF_vars(CallBridge)
  /\ WF_vars(CallTimesOut) /\ SF_vars(view.fresh /\ Tick)

FairSpec == Spec /\ Fairness

-----------------------------------------------------------------------------
(* Properties                                                              *)

NodeType ==
  [mode : {"DISARMED"} \cup Sources, arming : BOOLEAN, ack_old : BOOLEAN,
   confirmed : BOOLEAN, estop : BOOLEAN, fault : BOOLEAN, stop : BOOLEAN,
   stale_sent : BOOLEAN, MANUAL : BOOLEAN, AUTO : BOOLEAN]

ViewType ==
  [status : Status, fresh : BOOLEAN, auto_ready : BOOLEAN, motor_ok : BOOLEAN]

ServiceType ==
  [op : {"none", "ARM", "SET_DISARMED"} \cup Resets, mode : Sources,
   pc : {"idle", "zero", "call", "wait", "answered", "finish"},
   answer : {"none", "ok", "refused"}, latched : BOOLEAN, clear : BOOLEAN,
   seen : BOOLEAN]

\* Every variable has its type.
TypeOK ==
  /\ node \in NodeType /\ view \in ViewType /\ service \in ServiceType
  /\ cancelled \in BOOLEAN
  /\ sending \subseteq ZeroCalls
  /\ asking \in [Askers -> {"none", "stop", "disarm"}]
  /\ limited \in BOOLEAN
  /\ published \in {"ZERO"} \cup Sources
  /\ requests \subseteq Requests
  /\ hw \in Status
  /\ statuses \in Seq(Status) /\ Len(statuses) <= MaxQueue
  /\ calls \in 0 .. MaxCalls /\ faults \in 0 .. MaxFaults
  /\ revoked \in BOOLEAN /\ newer \in BOOLEAN
  /\ commanded \subseteq Sources

\* The node holds the authority to move only if nothing revoked it since the
\* ARM that granted it was called: no DISARM, ESTOP or lost session, no fault,
\* no STOP while the ARM was in flight, in whatever order they met its answer.
AuthorityJustified == Armed(node) => ~revoked

\* A velocity leaves only on a command that its source sent after the ARM was
\* granted and after the last STOP.
MotionNeedsNewCommand ==
  [][Tick => published' \in {"ZERO"} \cup commanded]_vars

\* An ESTOP or fault latch is released only by its reset, only if no STOP,
\* DISARM, ESTOP or hazard came after the reset was called, and only while the
\* last STATUS does not show the latch.
LatchOutlivesReset ==
  [][/\ node.estop /\ ~node'.estop
          => service.op = "RESET_ESTOP" /\ ~newer /\ ~view.status.estop
     /\ node.fault /\ ~node'.fault
          => service.op = "RESET_FAULT" /\ ~newer /\ ~view.status.fault]_vars

\* The inductive invariant.  While an ARM is in flight, what revoked it has also
\* advanced the epoch; whatever came after a reset was called has as well, and
\* so has a STATUS that shows the latch again; a command that is waiting was
\* heard since the last ARM or STOP.
Inductive ==
  /\ TypeOK
  /\ AuthorityJustified
  /\ service.op = "ARM" /\ ~cancelled => node.arming /\ ~revoked
  /\ service.op \in Resets /\ newer => cancelled
  /\ service.op \in Resets /\ service.clear /\ ~cancelled =>
       IF service.op = "RESET_ESTOP" THEN ~view.status.estop
                                     ELSE ~view.status.fault
  /\ service.pc = "zero" => service.op \in Resets \cup {"SET_DISARMED"}
  /\ service.pc = "call" => service.op \in Resets \cup {"ARM"}
  /\ service.pc = "finish" => service.op \in Resets
  /\ \A source \in Sources : node[source] => source \in commanded

Stray == hw.state = "ARMED" /\ ~Armed(node) /\ ~node.arming

\* Hardware that is ARMED without the authority of this node does not stay so,
\* be it that an ARM was executed after its caller gave up or that the DISARM
\* was suppressed by the rate limit.
StrayArmRemoved == Stray ~> ~Stray

\* "RESET_ESTOP cancelled by a newer safety transition": a reset is cancelled
\* only if something newer happened.
ResetCancelledByNewer ==
  [][ResetDenied /\ cancelled /\ service.clear => newer]_vars

=============================================================================
