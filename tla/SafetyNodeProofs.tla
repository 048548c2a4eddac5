-------------------------- MODULE SafetyNodeProofs --------------------------
(***************************************************************************)
(* The safety properties of SafetyNode, for any set of callers, modes and  *)
(* senders, any bound on calls, faults and messages.                       *)
(***************************************************************************)
EXTENDS SafetyNode, TLAPS

\* The components of the inductive invariant, named.
ArmPending == service.op = "ARM" /\ ~cancelled => node.arming /\ ~revoked

ResetPending ==
  /\ service.op \in Resets /\ newer => cancelled
  /\ service.op \in Resets /\ service.clear /\ ~cancelled =>
       IF service.op = "RESET_ESTOP" THEN ~view.status.estop
                                     ELSE ~view.status.fault

Serving ==
  /\ service.pc = "zero" => service.op \in Resets \cup {"SET_DISARMED"}
  /\ service.pc = "call" => service.op \in Resets \cup {"ARM"}
  /\ service.pc = "finish" => service.op \in Resets

Heard == \A source \in Sources : node[source] => source \in commanded

\* Inductive is the conjunction of its named components.
LEMMA Parts ==
  Inductive <=> /\ TypeOK /\ AuthorityJustified /\ ArmPending /\ ResetPending
                /\ Serving /\ Heard
BY DEF Inductive, ArmPending, ResetPending, Serving, Heard

-----------------------------------------------------------------------------
(* Lemmas on the operators                                                 *)

\* _clear_motion_authority_locked removes the authority and every command, and
\* keeps the latches.
LEMMA ClearRemoves ==
  ASSUME NEW n \in NodeType
  PROVE  /\ Clear(n) \in NodeType /\ ~Armed(Clear(n)) /\ ~Clear(n).arming
         /\ Clear(n).estop = n.estop /\ Clear(n).fault = n.fault
         /\ \A source \in Sources : ~Clear(n)[source]
BY DEF Clear, Armed, NodeType, Sources

\* _apply_live_faults_locked either changes nothing or clears the authority; it
\* only ever sets latches.
LEMMA LiveFaultsClear ==
  ASSUME NEW n \in NodeType
  PROVE  /\ AfterLiveFaults(n) \in NodeType
         /\ ~LiveFault(n) => AfterLiveFaults(n) = n
         /\ LiveFault(n) => /\ ~Armed(AfterLiveFaults(n))
                            /\ \A source \in Sources :
                                 ~AfterLiveFaults(n)[source]
         /\ n.estop => AfterLiveFaults(n).estop
         /\ n.fault => AfterLiveFaults(n).fault
<1>1. CASE ~EstopClear(n)
  <2>1. AfterLiveFaults(n) = [Clear(n) EXCEPT !.estop = TRUE]
    BY <1>1 DEF AfterLiveFaults, LiveFault
  <2>2. LiveFault(n)
    BY <1>1 DEF LiveFault
  <2> DEFINE cleared == Clear(n)
  <2>3. /\ cleared \in NodeType /\ cleared.mode = "DISARMED"
        /\ ~cleared.MANUAL /\ ~cleared.AUTO
        /\ cleared.estop = n.estop /\ cleared.fault = n.fault
    BY DEF Clear, NodeType
  <2> HIDE DEF cleared
  <2>4. AfterLiveFaults(n) = [cleared EXCEPT !.estop = TRUE]
    BY <2>1 DEF cleared
  <2> QED
    BY <2>2, <2>3, <2>4 DEF NodeType, Armed, Sources
<1>2. CASE EstopClear(n) /\ LosesArm(n)
  <2>1. AfterLiveFaults(n) = Clear(n)
    BY <1>2 DEF AfterLiveFaults, LiveFault
  <2>2. LiveFault(n)
    BY <1>2 DEF LiveFault
  <2> QED
    BY <2>1, <2>2, ClearRemoves
<1>3. CASE EstopClear(n) /\ ~LosesArm(n) /\ LatchesFault(n)
  <2>1. AfterLiveFaults(n) = [Clear(n) EXCEPT !.fault = TRUE]
    BY <1>3 DEF AfterLiveFaults, LiveFault
  <2>2. LiveFault(n)
    BY <1>3 DEF LiveFault
  <2> DEFINE cleared == Clear(n)
  <2>3. /\ cleared \in NodeType /\ cleared.mode = "DISARMED"
        /\ ~cleared.MANUAL /\ ~cleared.AUTO
        /\ cleared.estop = n.estop /\ cleared.fault = n.fault
    BY DEF Clear, NodeType
  <2> HIDE DEF cleared
  <2>4. AfterLiveFaults(n) = [cleared EXCEPT !.fault = TRUE]
    BY <2>1 DEF cleared
  <2> QED
    BY <2>2, <2>3, <2>4 DEF NodeType, Armed, Sources
<1>4. CASE ~LiveFault(n)
  BY <1>4 DEF AfterLiveFaults, LiveFault
<1> QED
  BY <1>1, <1>2, <1>3, <1>4 DEF LiveFault

\* A source that is selected has a fresh command.
LEMMA SelectedIsFresh ==
  ASSUME NEW n \in NodeType, NEW state
  PROVE  /\ SelectedSource(n, state) \in {"ZERO"} \cup Sources
         /\ SelectedSource(n, state) # "ZERO" => n[SelectedSource(n, state)]
BY DEF SelectedSource, Sources, NodeType

\* The bounded counters stay in their range.
LEMMA CallsBounded ==
  ASSUME calls \in 0 .. MaxCalls, faults \in 0 .. MaxFaults,
         calls + faults < MaxCalls
  PROVE  calls + 1 \in 0 .. MaxCalls
BY BoundsAssumption

LEMMA FaultsBounded ==
  ASSUME faults \in 0 .. MaxFaults, faults < MaxFaults
  PROVE  faults + 1 \in 0 .. MaxFaults
BY BoundsAssumption

\* The answer of the hardware to a call is one of its states.
LEMMA ExecutedType ==
  ASSUME hw \in Status, NEW op
  PROVE  Executed(op) \in Status
BY DEF Executed, Status

-----------------------------------------------------------------------------
(* Telemetry, commands and the tick                                        *)

\* Whatever leaves the node, its service and the history alone.
LEMMA NodeUntouched ==
  ASSUME Inductive, TypeOK',
         UNCHANGED <<node, view, cancelled, service, revoked, newer, commanded>>
  PROVE  Inductive'
BY DEF Inductive, AuthorityJustified, Armed

Latch(n, e, f) == [n EXCEPT !.estop = @ \/ e, !.fault = @ \/ f]

\* A STATUS only ever sets latches.
LEMMA Latching ==
  ASSUME NEW n \in NodeType, NEW e \in BOOLEAN, NEW f \in BOOLEAN
  PROVE  /\ Latch(n, e, f) \in NodeType /\ Latch(n, e, f).mode = n.mode
         /\ Latch(n, e, f).arming = n.arming
         /\ Latch(n, e, f).MANUAL = n.MANUAL /\ Latch(n, e, f).AUTO = n.AUTO
         /\ n.estop => Latch(n, e, f).estop
         /\ n.fault => Latch(n, e, f).fault
BY DEF NodeType, Latch

\* A STATUS preserves the invariant.
LEMMA StatusKept == Inductive /\ OnStatus => Inductive'
<1> SUFFICES ASSUME Inductive, OnStatus
             PROVE  Inductive'
  OBVIOUS
<1> DEFINE new == Head(statuses)
           clears == new.estop \/ new.fault \/ new.state = "DISCONNECTED"
           hazard == Hazard(view.status, new)
           demoted == ~clears /\ new.state # "ARMED" /\ Armed(node)
                        /\ node.confirmed
           latched == Latch(node, new.estop, new.fault)
<1>1. TypeOK /\ node \in NodeType /\ new \in Status /\ view.status \in Status
  BY DEF Inductive, TypeOK, ViewType, OnStatus
<1>0. new.estop \in BOOLEAN /\ new.fault \in BOOLEAN
  <2> HIDE DEF new
  <2> QED
    BY <1>1 DEF Status
<1> HIDE DEF new
<1>2. latched \in NodeType /\ latched.mode = node.mode
      /\ latched.arming = node.arming /\ latched.MANUAL = node.MANUAL
      /\ latched.AUTO = node.AUTO
  BY <1>0, <1>1, Latching
<1> HIDE DEF latched
<1>3. node' = IF clears \/ demoted THEN Clear(latched)
              ELSE [latched EXCEPT !.confirmed = @ \/ new.state = "ARMED"]
  BY DEF OnStatus, Latch, latched, new
<1>4. clears \/ demoted =>
        /\ node' \in NodeType /\ ~Armed(node') /\ ~node'.arming
        /\ \A source \in Sources : ~node'[source]
  BY <1>2, <1>3, ClearRemoves
<1>5. ~(clears \/ demoted) =>
        /\ node' \in NodeType /\ node'.mode = node.mode
        /\ node'.arming = node.arming
        /\ \A source \in Sources : node'[source] = node[source]
  BY <1>1, <1>2, <1>3 DEF NodeType, Sources
<1>6. /\ EpochAdvances(demoted \/
            (clears /\ (Armed(node) \/ node.arming \/ hazard)))
      /\ revoked' = (revoked \/ clears \/ demoted)
      /\ newer' = (newer \/ (hazard /\ service.op \in Resets))
      /\ view' = [view EXCEPT !.status = new, !.fresh = TRUE]
      /\ service' = [service EXCEPT !.seen = service.op \in Resets]
      /\ commanded' = commanded
  BY DEF OnStatus, new
<1>7. /\ service'.op = service.op /\ service'.clear = service.clear
      /\ service'.pc = service.pc /\ view'.status = new
  BY <1>1, <1>6 DEF TypeOK, ServiceType, ViewType
<1>8. TypeOK'
  <2>1. node' \in NodeType
    BY <1>4, <1>5
  <2>2. cancelled' \in BOOLEAN /\ revoked' \in BOOLEAN /\ newer' \in BOOLEAN
    BY <1>6 DEF EpochAdvances
  <2>3. view' \in ViewType
    BY <1>1, <1>6 DEF TypeOK, ViewType
  <2>4. service' \in ServiceType
    <3>1. service \in ServiceType /\ (service.op \in Resets) \in BOOLEAN
      BY <1>1 DEF TypeOK, ServiceType
    <3> QED
      BY <1>6, <3>1 DEF ServiceType
  <2>5. statuses' \in Seq(Status) /\ Len(statuses') <= MaxQueue
    BY <1>1, BoundsAssumption DEF TypeOK, OnStatus
  <2> QED
    BY <1>1, <1>6, <2>1, <2>2, <2>3, <2>4, <2>5 DEF TypeOK, OnStatus
<1>9. AuthorityJustified' /\ Heard'
  BY <1>1, <1>4, <1>5, <1>6, Parts DEF AuthorityJustified, Heard, Armed
<1>10. ArmPending'
  BY <1>1, <1>4, <1>5, <1>6, <1>7, Parts DEF ArmPending, EpochAdvances
<1>11. ResetPending'
  <2>1. hazard => clears
    BY <1>1 DEF Hazard, Status
  <2>2. (new.estop /\ ~view.status.estop) \/ (new.fault /\ ~view.status.fault)
          => hazard
    BY DEF Hazard
  <2> HIDE DEF clears, hazard, demoted, new
  <2> QED
    BY <1>1, <1>6, <1>7, <2>1, <2>2, Parts
       DEF ResetPending, EpochAdvances, Resets
<1> QED
  BY <1>7, <1>8, <1>9, <1>10, <1>11
     DEF Inductive, ArmPending, ResetPending, Heard

\* Deadlines and telemetry preserve the invariant.
LEMMA TelemetryKept == Inductive /\ (OnTelemetry \/ Expire) => Inductive'
<1> SUFFICES ASSUME Inductive, OnTelemetry \/ Expire
             PROVE  Inductive'
  OBVIOUS
<1>1. TypeOK /\ node \in NodeType /\ view \in ViewType
  BY DEF Inductive, TypeOK
<1>2. UNCHANGED <<cancelled, service, sending, asking, published, requests, hw,
                  statuses, calls, faults, revoked, newer, commanded>>
  BY DEF OnTelemetry, Expire, inputs, history
<1>3. view' \in ViewType /\ view'.status = view.status
  <2>1. CASE OnTelemetry
    BY <1>1, <2>1 DEF OnTelemetry, ViewType
  <2>2. CASE Expire
    BY <1>1, <2>2 DEF Expire, StatusExpires, AckExpires, LimitExpires,
                      CommandExpires, ViewType
  <2> QED
    BY <2>1, <2>2
<1>4. /\ node' \in NodeType /\ node'.mode = node.mode
      /\ node'.arming = node.arming
      /\ \A source \in Sources : node'[source] => node[source]
  <2>1. CASE node' = node
    BY <1>1, <2>1
  <2>2. CASE node' = [node EXCEPT !.ack_old = TRUE]
    BY <1>1, <2>2 DEF NodeType, Sources
  <2>3. ASSUME NEW source \in Sources,
               node' = [node EXCEPT ![source] = FALSE]
        PROVE  <1>4!:
    BY <1>1, <2>3 DEF NodeType, Sources
  <2> QED
    BY <2>1, <2>2, <2>3 DEF OnTelemetry, Expire, StatusExpires, AckExpires,
                            LimitExpires, CommandExpires
<1>5. limited' \in BOOLEAN
  BY <1>1 DEF OnTelemetry, Expire, StatusExpires, AckExpires, LimitExpires,
              CommandExpires, TypeOK
<1> QED
  BY <1>1, <1>2, <1>3, <1>4, <1>5
     DEF Inductive, AuthorityJustified, Armed, TypeOK

\* Commands, valid or not, preserve the invariant.
LEMMA CommandKept == Inductive /\ Command => Inductive'
<1> SUFFICES ASSUME Inductive, NEW source \in Senders,
                    OnCommand(source) \/ OnInvalidCommand(source)
             PROVE  Inductive'
  BY DEF Command
<1>1. /\ TypeOK /\ node \in NodeType /\ source \in Sources
      /\ asking \in [Askers -> {"none", "stop", "disarm"}]
  BY SendersAssumption DEF Inductive, TypeOK, Sources
<1>2. UNCHANGED <<view, cancelled, service, sending, limited, published,
                  requests, hw, statuses, faults, revoked, newer>>
  BY DEF OnCommand, OnInvalidCommand, inputs, history
<1>3. PICK fresh \in BOOLEAN, stop \in BOOLEAN :
        /\ node' = [node EXCEPT ![source] = fresh, !.stop = stop,
                               !.stale_sent = FALSE]
        /\ commanded' = IF fresh THEN commanded \cup {source} ELSE commanded
  <2>1. CASE OnCommand(source)
    BY <2>1 DEF OnCommand
  <2>2. CASE OnInvalidCommand(source)
    BY <2>2 DEF OnInvalidCommand, history
  <2> QED
    BY <2>1, <2>2
<1>4. /\ node' \in NodeType /\ node'.mode = node.mode
      /\ node'.arming = node.arming
      /\ \A s \in Sources : node'[s] = IF s = source THEN fresh ELSE node[s]
  BY <1>1, <1>3 DEF NodeType, Sources
<1>5. asking' \in [Askers -> {"none", "stop", "disarm"}]
  BY <1>1 DEF OnCommand, OnInvalidCommand
<1>6. calls' \in 0 .. MaxCalls
  BY <1>1, CallsBounded DEF OnCommand, OnInvalidCommand, inputs, TypeOK
<1>7. TypeOK'
  BY <1>1, <1>2, <1>3, <1>4, <1>5, <1>6 DEF TypeOK
<1>8. \A s \in Sources : node'[s] => s \in commanded'
  BY <1>3, <1>4 DEF Inductive
<1> QED
  BY <1>2, <1>4, <1>7, <1>8 DEF Inductive, AuthorityJustified, Armed

\* The tick preserves the invariant: a live fault removes the authority and
\* advances the epoch in the same critical section.
LEMMA TickKept == Inductive /\ Tick => Inductive'
<1> SUFFICES ASSUME Inductive, Tick
             PROVE  Inductive'
  OBVIOUS
<1> DEFINE n == AfterLiveFaults(node)
<1>1. /\ TypeOK /\ node \in NodeType
      /\ asking \in [Askers -> {"none", "stop", "disarm"}]
  BY DEF Inductive, TypeOK
<1>2. /\ n \in NodeType
      /\ ~LiveFault(node) => n = node
      /\ LiveFault(node) => ~Armed(n) /\ \A source \in Sources : ~n[source]
  BY <1>1, LiveFaultsClear
<1> HIDE DEF n
<1>3. \E stale \in BOOLEAN : node' = [n EXCEPT !.stale_sent = @ \/ stale]
  BY DEF Tick, n
<1>4. /\ UNCHANGED <<view, service, sending, limited, requests, hw, statuses,
                     calls, faults, newer, commanded>>
      /\ EpochAdvances(LiveFault(node))
      /\ revoked' = (revoked \/ LiveFault(node))
  BY DEF Tick, inputs
<1>5. published' \in {"ZERO"} \cup Sources
  <2>1. published' = SelectedSource(n, DerivedState(n))
    BY DEF Tick, n
  <2> QED
    BY <1>2, <2>1, SelectedIsFresh
<1>6. asking' \in [Askers -> {"none", "stop", "disarm"}]
  <2>1. \E r \in {"none", "stop", "disarm"} :
          asking' = [asking EXCEPT !["tick"] = r]
    BY DEF Tick
  <2> QED
    BY <1>1, <2>1
<1>7. /\ node' \in NodeType /\ node'.mode = n.mode /\ node'.arming = n.arming
      /\ \A source \in Sources : node'[source] = n[source]
  BY <1>2, <1>3 DEF NodeType, Sources
<1>8. TypeOK'
  <2>1. cancelled' \in BOOLEAN /\ revoked' \in BOOLEAN
    BY <1>4 DEF EpochAdvances
  <2> QED
    BY <1>1, <1>4, <1>5, <1>6, <1>7, <2>1 DEF TypeOK
<1>9. AuthorityJustified' /\ Heard'
  BY <1>1, <1>2, <1>4, <1>7, Parts DEF AuthorityJustified, Armed, Heard
<1>10. ArmPending' /\ ResetPending'
  BY <1>1, <1>2, <1>4, <1>7, Parts
     DEF ArmPending, ResetPending, EpochAdvances, Resets
<1> QED
  BY <1>4, <1>8, <1>9, <1>10
     DEF Inductive, ArmPending, ResetPending, Heard

-----------------------------------------------------------------------------
(* Services                                                                *)

\* The steps of a service that keep the node and the latches it waits for.
LEMMA WaitingKept ==
  ASSUME Inductive,
         \/ \E a \in Askers : AskBridge(a)
         \/ CallBridge \/ CallTimesOut \/ ZeroPublished \/ ResetAnswered
  PROVE  Inductive'
<1>1. /\ TypeOK /\ service \in ServiceType
      /\ asking \in [Askers -> {"none", "stop", "disarm"}]
  BY DEF Inductive, TypeOK
<1>2. UNCHANGED <<node, view, cancelled, sending, hw, statuses, calls, faults,
                  revoked, newer, commanded>>
  BY DEF AskBridge, CallBridge, CallTimesOut, ZeroPublished, ResetAnswered,
         inputs, history
<1>3. /\ service' \in ServiceType
      /\ service'.op \in {service.op, "none"}
      /\ service'.clear /\ service'.op # "none" =>
           service.clear \/ HardwareClear(service.op)
      /\ service'.pc = "zero" => service' = service
      /\ service'.pc \in {"call", "finish"} =>
           \/ service' = service
           \/ service.op \in Resets /\ service'.op = service.op
  <2>1. CASE service' = service
    BY <1>1, <2>1 DEF ServiceType
  <2>2. CASE service' = NoService
    BY <1>1, <2>2 DEF ServiceType, NoService, Sources
  <2>3. CASE \E pc \in {"wait", "answered"} :
               service' = [service EXCEPT !.pc = pc]
    BY <1>1, <2>3 DEF ServiceType
  <2>5. CASE /\ service.op \in Resets
             /\ \E pc \in {"call", "finish"} :
                  service' = [service EXCEPT !.pc = pc]
    BY <1>1, <2>5 DEF ServiceType
  <2>4. CASE /\ service' = [service EXCEPT !.pc = "finish", !.clear = TRUE]
             /\ HardwareClear(service.op) /\ service.op \in Resets
    BY <1>1, <2>4 DEF ServiceType
  <2> QED
    BY <2>1, <2>2, <2>3, <2>4, <2>5 DEF AskBridge, CallBridge, CallTimesOut,
       ZeroPublished, ResetAnswered, At, Inductive
<1>4. asking' \in [Askers -> {"none", "stop", "disarm"}]
  BY <1>1 DEF AskBridge, CallBridge, CallTimesOut, ZeroPublished, ResetAnswered
<1>5. limited' \in BOOLEAN /\ published' \in {"ZERO"} \cup Sources
  BY <1>1 DEF AskBridge, CallBridge, CallTimesOut, ZeroPublished, ResetAnswered,
              PublishZero, TypeOK
<1>6. requests' \subseteq Requests
  <2>1. CASE UNCHANGED requests
    BY <1>1, <2>1 DEF TypeOK
  <2>2. CASE requests' = requests \cup {"DISARM"}
    BY <1>1, <2>2 DEF TypeOK, Requests
  <2>3. CASE CallBridge /\ requests' = requests \cup {service.op}
    BY <1>1, <2>3 DEF CallBridge, At, Inductive, TypeOK, Requests, Resets
  <2> QED
    BY <2>1, <2>2, <2>3 DEF AskBridge, CallBridge, CallTimesOut, ZeroPublished,
                            ResetAnswered, inputs
<1>7. TypeOK'
  BY <1>1, <1>2, <1>3, <1>4, <1>5, <1>6 DEF TypeOK
<1>8. ArmPending' /\ ResetPending'
  BY <1>1, <1>2, <1>3, Parts
     DEF ArmPending, ResetPending, HardwareClear, Resets, ServiceType
<1> QED
  BY <1>2, <1>3, <1>7, <1>8
     DEF Inductive, ArmPending, ResetPending, AuthorityJustified, Armed

\* A call of ARM starts with nothing revoked and no command waiting.
LEMMA ArmCalledKept ==
  ASSUME Inductive, NEW mode \in Modes, ArmCalled(mode)
  PROVE  Inductive'
<1>1. /\ TypeOK /\ node \in NodeType /\ mode \in Sources
  BY ModesAssumption DEF Inductive, TypeOK, Sources
<1>2. /\ UNCHANGED <<view, sending, asking, limited, requests, hw, statuses,
                     faults, newer, commanded>>
      /\ cancelled' = FALSE /\ revoked' = FALSE /\ published' = "ZERO"
  BY DEF ArmCalled, PublishZero
<1>3. node' \in NodeType /\ node'.arming /\ ~node'.MANUAL /\ ~node'.AUTO
  BY <1>1 DEF ArmCalled, NodeType
<1>4. /\ service' \in ServiceType
      /\ service'.op = "ARM" /\ service'.pc = "call"
  BY <1>1 DEF ArmCalled, NoService, ServiceType, Sources
<1>5. calls' \in 0 .. MaxCalls
  BY <1>1, CallsBounded DEF ArmCalled, Call, TypeOK
<1>6. TypeOK'
  BY <1>1, <1>2, <1>3, <1>4, <1>5 DEF TypeOK
<1> QED
  BY <1>2, <1>3, <1>4, <1>6
     DEF Inductive, AuthorityJustified, Sources, Resets

\* The answer to an ARM: the authority is granted only if nothing advanced the
\* epoch, so nothing revoked it.
LEMMA ArmAnsweredKept ==
  ASSUME Inductive, ArmGranted \/ ArmDenied
  PROVE  Inductive'
<1>1. /\ TypeOK /\ node \in NodeType /\ service \in ServiceType
      /\ asking \in [Askers -> {"none", "stop", "disarm"}]
  BY DEF Inductive, TypeOK
<1>2. service' = NoService /\ NoService \in ServiceType
  BY DEF ArmGranted, ArmDenied, NoService, ServiceType, Sources
<1>3. CASE ArmGranted
  <2>1. /\ node' \in NodeType /\ ~node'.MANUAL /\ ~node'.AUTO
    BY <1>1, <1>3 DEF ArmGranted, NodeType, ServiceType
  <2>2. ~revoked /\ UNCHANGED revoked
    BY <1>3 DEF ArmGranted, Inductive
  <2>3. TypeOK'
    BY <1>1, <1>2, <1>3, <2>1 DEF ArmGranted, TypeOK, inputs
  <2> QED
    BY <1>2, <2>1, <2>2, <2>3
       DEF Inductive, AuthorityJustified, NoService, Sources, Resets
<1>4. CASE ArmDenied
  <2>1. node' \in NodeType /\ ~Armed(node')
        /\ \A source \in Sources : ~node'[source]
    BY <1>1, <1>4, ClearRemoves DEF ArmDenied
  <2>2. asking' \in [Askers -> {"none", "stop", "disarm"}]
    BY <1>1, <1>4 DEF ArmDenied
  <2>3. TypeOK'
    BY <1>1, <1>2, <1>4, <2>1, <2>2 DEF ArmDenied, TypeOK, inputs
  <2> QED
    BY <1>2, <2>1, <2>3
       DEF Inductive, AuthorityJustified, NoService, Sources, Resets
<1> QED
  BY <1>3, <1>4

\* A reset and SET_DISARMED start by removing the authority.
LEMMA ClearingKept ==
  ASSUME Inductive, SetDisarmed \/ \E op \in Resets : ResetCalled(op)
  PROVE  Inductive'
<1>1. TypeOK /\ node \in NodeType
  BY DEF Inductive, TypeOK
<1>2. /\ node' \in NodeType /\ ~Armed(node')
      /\ \A source \in Sources : ~node'[source]
  BY <1>1, ClearRemoves DEF SetDisarmed, ResetCalled
<1>3. /\ UNCHANGED <<view, sending, asking, limited, published, requests, hw,
                     statuses, faults, commanded>>
      /\ cancelled' = FALSE /\ revoked' = TRUE
  BY DEF SetDisarmed, ResetCalled
<1>4. calls' \in 0 .. MaxCalls
  BY <1>1, CallsBounded DEF SetDisarmed, ResetCalled, Call, TypeOK
<1>5. CASE SetDisarmed
  <2>1. /\ service' \in ServiceType
        /\ service'.op = "SET_DISARMED" /\ service'.pc = "zero"
    BY <1>5 DEF SetDisarmed, NoService, ServiceType, Sources
  <2>2. TypeOK'
    BY <1>1, <1>2, <1>3, <1>4, <1>5, <2>1 DEF SetDisarmed, TypeOK
  <2> QED
    BY <1>2, <1>3, <2>1, <2>2 DEF Inductive, AuthorityJustified, Resets
<1>6. ASSUME NEW op \in Resets, ResetCalled(op)
      PROVE  Inductive'
  <2>1. HardwareLatched(op) \in BOOLEAN /\ HardwareClear(op) \in BOOLEAN
    BY <1>1 DEF HardwareLatched, HardwareClear, TypeOK, ViewType, Status
  <2>2. /\ service' \in ServiceType
        /\ service'.op = op /\ service'.pc = "zero"
        /\ service'.clear = HardwareClear(op)
    BY <1>6, <2>1 DEF ResetCalled, NoService, ServiceType, Sources
  <2>3. newer' = FALSE
    BY <1>6 DEF ResetCalled
  <2>4. TypeOK'
    BY <1>1, <1>2, <1>3, <1>4, <2>2, <2>3 DEF TypeOK
  <2> QED
    BY <1>2, <1>3, <2>2, <2>3, <2>4
       DEF Inductive, AuthorityJustified, Resets, HardwareClear
<1> QED
  BY <1>5, <1>6

\* The end of a reset.
LEMMA ResetEndsKept ==
  ASSUME Inductive, ResetDone \/ ResetDenied
  PROVE  Inductive'
<1>1. TypeOK /\ node \in NodeType
  BY DEF Inductive, TypeOK
<1>2. /\ node' \in NodeType /\ node'.mode = node.mode
      /\ node'.MANUAL = node.MANUAL /\ node'.AUTO = node.AUTO
  BY <1>1 DEF ResetDone, ResetDenied, NodeType
<1>3. /\ UNCHANGED <<view, sending, asking, limited, published, requests, hw,
                     statuses, calls, faults, revoked, commanded>>
      /\ service' = NoService /\ cancelled' = FALSE /\ newer' = FALSE
      /\ NoService \in ServiceType
  BY DEF ResetDone, ResetDenied, inputs, NoService, ServiceType, Sources
<1>4. TypeOK'
  BY <1>1, <1>2, <1>3 DEF TypeOK
<1> QED
  BY <1>2, <1>3, <1>4
     DEF Inductive, AuthorityJustified, Armed, NoService, Sources, Resets

\* STOP, DISARM and ESTOP advance the epoch and drop every waiting command.
LEMMA ZeroCalledKept ==
  ASSUME Inductive, NEW op \in ZeroCalls, ZeroCalled(op)
  PROVE  Inductive'
<1>1. TypeOK /\ node \in NodeType
  BY DEF Inductive, TypeOK
<1>2. /\ UNCHANGED <<view, service, asking, limited, published, requests, hw,
                     statuses, faults>>
      /\ EpochAdvances(TRUE) /\ commanded' = {}
      /\ newer' = (newer \/ service.op \in Resets)
      /\ revoked' = (revoked \/ op # "STOP"
                       \/ (service.op = "ARM" /\ ~Armed(node)))
      /\ sending' = sending \cup {op}
  BY DEF ZeroCalled
<1>3. /\ node' \in NodeType /\ ~node'.MANUAL /\ ~node'.AUTO
      /\ Armed(node') => Armed(node) /\ op = "STOP"
  <2>1. CASE op = "DISARM"
    BY <1>1, <2>1, ClearRemoves DEF ZeroCalled, Sources
  <2>2. CASE op = "ESTOP"
    <3>1. Clear(node) \in NodeType /\ Clear(node).mode = "DISARMED"
          /\ ~Clear(node).MANUAL /\ ~Clear(node).AUTO
      BY <1>1 DEF Clear, NodeType
    <3>2. node' = [Clear(node) EXCEPT !.estop = TRUE]
      BY <2>2 DEF ZeroCalled
    <3> QED
      BY <3>1, <3>2 DEF NodeType, Armed
  <2>3. CASE op = "STOP"
    BY <1>1, <2>3 DEF ZeroCalled, NodeType, Armed
  <2> QED
    BY <2>1, <2>2, <2>3 DEF ZeroCalls
<1>4. calls' \in 0 .. MaxCalls
  BY <1>1, CallsBounded DEF ZeroCalled, Call, TypeOK
<1>5. TypeOK'
  BY <1>1, <1>2, <1>3, <1>4 DEF TypeOK, EpochAdvances
<1>6. AuthorityJustified'
  BY <1>2, <1>3, Parts DEF AuthorityJustified
<1>7. ArmPending' /\ ResetPending'
  BY <1>2, Parts DEF ArmPending, ResetPending, EpochAdvances, Resets
<1> QED
  BY <1>2, <1>3, <1>5, <1>6, <1>7
     DEF Inductive, ArmPending, ResetPending, Sources

\* The bridge calls of STOP, DISARM and ESTOP, and everything below this node.
LEMMA BelowKept ==
  ASSUME Inductive, Hardware \/ \E op \in ZeroCalls : SendZero(op)
  PROVE  Inductive'
<1>1. /\ TypeOK /\ service \in ServiceType /\ hw \in Status
      /\ asking \in [Askers -> {"none", "stop", "disarm"}]
  BY DEF Inductive, TypeOK
<1>2. UNCHANGED <<node, view, cancelled, limited, calls, revoked, newer,
                  commanded>>
  BY DEF Hardware, SendZero, Execute, HardwareFaults, HardwareDisconnects,
         HardwareConnects, SendStatus, history
<1>3. /\ service' \in ServiceType
      /\ service'.op = service.op /\ service'.clear = service.clear
      /\ service'.pc \in {service.pc, "answered"}
  <2>1. CASE service' = service
    BY <1>1, <2>1
  <2>2. CASE \E answer \in {"ok", "refused"} :
               service' = [service EXCEPT !.pc = "answered", !.answer = answer]
    BY <1>1, <2>2 DEF ServiceType
  <2> QED
    BY <2>1, <2>2 DEF Hardware, SendZero, Execute, HardwareFaults,
       HardwareDisconnects, HardwareConnects, SendStatus
<1>4. hw' \in Status
  <2>1. CASE \E op \in Requests : Execute(op)
    BY <1>1, <2>1, ExecutedType DEF Execute
  <2>2. CASE UNCHANGED hw
    BY <1>1, <2>2
  <2>3. CASE HardwareFaults \/ HardwareDisconnects \/ HardwareConnects
    BY <1>1, <2>3 DEF HardwareFaults, HardwareDisconnects, HardwareConnects,
                      Status
  <2> QED
    BY <2>1, <2>2, <2>3 DEF Hardware, SendZero, SendStatus
<1>5. faults' \in 0 .. MaxFaults
  BY <1>1, FaultsBounded DEF Hardware, SendZero, Execute, HardwareFaults,
     HardwareDisconnects, HardwareConnects, SendStatus, TypeOK
<1>6. statuses' \in Seq(Status) /\ Len(statuses') <= MaxQueue
  <2>1. CASE UNCHANGED statuses
    BY <1>1, <2>1 DEF TypeOK
  <2>2. CASE SendStatus
    BY <1>1, <2>2, BoundsAssumption DEF SendStatus, TypeOK
  <2> QED
    BY <2>1, <2>2 DEF Hardware, SendZero, Execute, HardwareFaults,
       HardwareDisconnects, HardwareConnects
<1>7. /\ asking' \in [Askers -> {"none", "stop", "disarm"}]
      /\ sending' \subseteq ZeroCalls /\ requests' \subseteq Requests
      /\ published' \in {"ZERO"} \cup Sources
  BY <1>1 DEF Hardware, SendZero, Execute, HardwareFaults, HardwareDisconnects,
     HardwareConnects, SendStatus, TypeOK, PublishZero, ZeroCalls, Requests
<1>8. TypeOK'
  BY <1>1, <1>2, <1>3, <1>4, <1>5, <1>6, <1>7 DEF TypeOK
<1> QED
  BY <1>2, <1>3, <1>8 DEF Inductive, AuthorityJustified, Armed

-----------------------------------------------------------------------------
(* The theorems                                                            *)

\* In its first state the node holds no authority, no command and no service.
LEMMA InitGood == Init => Inductive
<1> SUFFICES ASSUME Init
             PROVE  Inductive
  OBVIOUS
<1>1. /\ node \in NodeType /\ view \in ViewType /\ service \in ServiceType
      /\ hw \in Status
  BY DEF Init, NodeType, ViewType, ServiceType, Status, NoService, Sources
<1>2. /\ asking \in [Askers -> {"none", "stop", "disarm"}]
      /\ statuses \in Seq(Status) /\ Len(statuses) <= MaxQueue
      /\ calls \in 0 .. MaxCalls /\ faults \in 0 .. MaxFaults
  BY BoundsAssumption DEF Init
<1>3. TypeOK
  BY <1>1, <1>2 DEF Init, TypeOK
<1> QED
  BY <1>3 DEF Init, Inductive, AuthorityJustified, Armed, NoService, Resets,
              Sources

\* Every step of the node and of what surrounds it preserves the invariant.
LEMMA StepGood == Inductive /\ [Next]_vars => Inductive'
<1> SUFFICES ASSUME Inductive, [Next]_vars
             PROVE  Inductive'
  OBVIOUS
<1>1. CASE OnStatus
  BY <1>1, StatusKept
<1>2. CASE OnTelemetry \/ Expire
  BY <1>2, TelemetryKept
<1>3. CASE Command
  BY <1>3, CommandKept
<1>4. CASE Tick
  BY <1>4, TickKept
<1>5. CASE \E a \in Askers : AskBridge(a)
  BY <1>5, WaitingKept
<1>6. CASE Service
  BY <1>6, ArmCalledKept, WaitingKept, ArmAnsweredKept, ClearingKept,
     ResetEndsKept DEF Service
<1>7. CASE Zero
  BY <1>7, ZeroCalledKept, BelowKept DEF Zero
<1>8. CASE Hardware
  BY <1>8, BelowKept
<1>9. CASE UNCHANGED vars
  BY <1>9 DEF vars, inputs, history, Inductive, TypeOK, AuthorityJustified,
              Armed
<1> QED
  BY <1>1, <1>2, <1>3, <1>4, <1>5, <1>6, <1>7, <1>8, <1>9 DEF Next

\* The inductive invariant holds.
THEOREM NodeInductive == Spec => []Inductive
BY InitGood, StepGood, PTL DEF Spec

\* The node holds the authority to move only if nothing revoked it since the
\* ARM that granted it was called, in whatever order a DISARM, an ESTOP, a
\* fault, a lost session or a STOP met the answer to the ARM.
THEOREM AuthorityIsJustified == Spec => []AuthorityJustified
<1>1. Inductive => AuthorityJustified
  BY DEF Inductive
<1> QED
  BY <1>1, NodeInductive, PTL

\* A velocity leaves only on a command that its source sent after the ARM was
\* granted and after the last STOP, DISARM or ESTOP.
THEOREM MotionOnNewCommand == Spec => MotionNeedsNewCommand
<1>1. Inductive /\ [Next]_vars =>
        [Tick => published' \in {"ZERO"} \cup commanded]_vars
  <2> SUFFICES ASSUME Inductive, Tick
               PROVE  published' \in {"ZERO"} \cup commanded
    OBVIOUS
  <2> DEFINE n == AfterLiveFaults(node)
             source == SelectedSource(n, DerivedState(n))
  <2>1. node \in NodeType
    BY DEF Inductive, TypeOK
  <2>2. n \in NodeType /\ \A s \in Sources : n[s] => node[s]
    BY <2>1, LiveFaultsClear
  <2>3. published' = source
    BY DEF Tick
  <2>4. source \in {"ZERO"} \cup Sources /\ (source # "ZERO" => n[source])
    BY <2>2, SelectedIsFresh
  <2> HIDE DEF n, source
  <2> QED
    BY <2>2, <2>3, <2>4 DEF Inductive
<1> QED
  BY <1>1, NodeInductive, PTL DEF Spec, MotionNeedsNewCommand

\* A step that releases a latch is the end of its reset.
LEMMA LatchSteps ==
  ASSUME Inductive, [Next]_vars,
         (node.estop /\ ~node'.estop) \/ (node.fault /\ ~node'.fault)
  PROVE  ResetDone
<1>1. TypeOK /\ node \in NodeType
  BY DEF Inductive, TypeOK
<1>2. ~OnStatus
  <2> SUFFICES ASSUME OnStatus
               PROVE  (node.estop => node'.estop) /\ (node.fault => node'.fault)
    OBVIOUS
  <2> DEFINE new == Head(statuses)
             latched == Latch(node, new.estop, new.fault)
  <2>1. new \in Status
    BY <1>1 DEF TypeOK, OnStatus
  <2> HIDE DEF new
  <2>2. new.estop \in BOOLEAN /\ new.fault \in BOOLEAN
    BY <2>1 DEF Status
  <2>3. /\ latched \in NodeType
        /\ node.estop => latched.estop
        /\ node.fault => latched.fault
    BY <1>1, <2>2, Latching
  <2> HIDE DEF latched
  <2>4. \/ node' = Clear(latched)
        \/ \E b \in BOOLEAN : node' = [latched EXCEPT !.confirmed = @ \/ b]
    BY DEF OnStatus, Latch, latched, new
  <2> QED
    BY <2>3, <2>4, ClearRemoves DEF NodeType
<1>3. ~Tick
  <2> SUFFICES ASSUME Tick
               PROVE  (node.estop => node'.estop) /\ (node.fault => node'.fault)
    OBVIOUS
  <2> DEFINE n == AfterLiveFaults(node)
  <2>1. n \in NodeType /\ (node.estop => n.estop) /\ (node.fault => n.fault)
    BY <1>1, LiveFaultsClear
  <2> HIDE DEF n
  <2>2. \E stale \in BOOLEAN : node' = [n EXCEPT !.stale_sent = @ \/ stale]
    BY DEF Tick, n
  <2> QED
    BY <2>1, <2>2 DEF NodeType
<1>4. ~(OnTelemetry \/ Expire \/ Command)
  <2>1. ASSUME NEW source \in Sources,
               \/ OnCommand(source) \/ OnInvalidCommand(source)
               \/ CommandExpires(source)
        PROVE  node'.estop = node.estop /\ node'.fault = node.fault
    BY <1>1, <2>1 DEF OnCommand, OnInvalidCommand, CommandExpires, NodeType,
                      Sources
  <2>2. ASSUME OnTelemetry \/ StatusExpires \/ AckExpires \/ LimitExpires
        PROVE  node'.estop = node.estop /\ node'.fault = node.fault
    BY <1>1, <2>2 DEF OnTelemetry, StatusExpires, AckExpires, LimitExpires,
                      NodeType
  <2> QED
    BY <2>1, <2>2, SendersAssumption DEF Expire, Command, Sources
<1>5. ~Zero
  <2>1. ASSUME NEW op \in ZeroCalls, ZeroCalled(op)
        PROVE  (node.estop => node'.estop) /\ (node.fault => node'.fault)
    <3>1. CASE op = "DISARM"
      BY <1>1, <2>1, <3>1, ClearRemoves DEF ZeroCalled
    <3>2. CASE op = "ESTOP"
      <4>1. node' = [Clear(node) EXCEPT !.estop = TRUE]
        BY <2>1, <3>2 DEF ZeroCalled
      <4> QED
        BY <1>1, <4>1, ClearRemoves DEF NodeType
    <3>3. CASE op = "STOP"
      BY <1>1, <2>1, <3>3 DEF ZeroCalled, NodeType
    <3> QED
      BY <3>1, <3>2, <3>3 DEF ZeroCalls
  <2> QED
    BY <2>1 DEF Zero, SendZero
<1>6. ~(ArmGranted \/ ArmDenied \/ SetDisarmed
        \/ (\E mode \in Modes : ArmCalled(mode))
        \/ (\E op \in Resets : ResetCalled(op)))
  BY <1>1, ClearRemoves, ZenonT(40) DEF ArmGranted, ArmDenied, SetDisarmed, ArmCalled,
     ResetCalled, NodeType
<1>7. node' # node
  OBVIOUS
<1> QED
  BY <1>2, <1>3, <1>4, <1>5, <1>6, <1>7
     DEF Next, Service, Hardware, AskBridge, CallBridge, CallTimesOut,
         ZeroPublished, ResetAnswered, ResetDenied, Execute, HardwareFaults,
         HardwareDisconnects, HardwareConnects, SendStatus, vars

\* An ESTOP or fault latch is released only by its own reset, only if nothing
\* newer came, and never while the last STATUS shows the latch.
THEOREM LatchesHold == Spec => LatchOutlivesReset
<1> DEFINE released ==
             /\ node.estop /\ ~node'.estop
                  => /\ service.op = "RESET_ESTOP"
                     /\ ~newer /\ ~view.status.estop
             /\ node.fault /\ ~node'.fault
                  => /\ service.op = "RESET_FAULT"
                     /\ ~newer /\ ~view.status.fault
<1>1. Inductive /\ [Next]_vars => [released]_vars
  <2> SUFFICES ASSUME Inductive, ResetDone
               PROVE  released
    BY LatchSteps
  <2>1. node \in NodeType
    BY DEF Inductive, TypeOK
  <2>2. service.op \in Resets
    BY DEF ResetDone, At, Inductive
  <2>3. /\ node.estop /\ ~node'.estop => service.op = "RESET_ESTOP"
        /\ node.fault /\ ~node'.fault => service.op = "RESET_FAULT"
    BY <2>1, <2>2 DEF ResetDone, NodeType, Resets
  <2> QED
    BY <2>2, <2>3 DEF ResetDone, Inductive, Resets
<1> QED
  BY <1>1, NodeInductive, PTL DEF Spec, LatchOutlivesReset
=============================================================================
