--------------------------- MODULE DriveAuthority ---------------------------
(***************************************************************************)
(* What the firmware behind the serial line promises to the Raspberry Pi,  *)
(* without its tasks, locks and clocks: every frame that removes motion    *)
(* takes back the licence of all commands before it, and when it is        *)
(* answered the motors stand still and go on standing still until a        *)
(* command is accepted after it; authority is given only at rest and for a *)
(* nonce that is new; a latch is released only at rest with the relays     *)
(* off.  Module PiBridge implements it.                                    *)
(*                                                                         *)
(* A frame that is refused changes no state, but removes motion all the    *)
(* same: Stop stands for it.                                               *)
(***************************************************************************)
EXTENDS Integers

VARIABLES
  state,        \* what STATUS shows: BOOT, DISCONNECTED, DISARMED, ARMED, ...
  estop, fault, \* the two latches
  nonce,        \* of the last ARM that was accepted
  licensed,     \* a CMD_VEL was accepted since motion was last removed
  asked,        \* a frame removes motion and is not yet answered
  wire,         \* the percentage of the last frame to the motor controller
  relay         \* an attachment or mount relay is on

dvars == <<state, estop, fault, nonce, licensed, asked, wire, relay>>

\* ESTOP or a fault is latched.
Latched == estop \/ fault

\* A relay may be on.
MaySwitch == ~Latched /\ state \in {"DISARMED", "ARMED"}

PoweredOn ==
  /\ state = "BOOT" /\ estop = FALSE /\ fault = FALSE /\ nonce = 0
  /\ licensed = FALSE /\ asked = FALSE /\ wire = 0 /\ relay = FALSE

Init == PoweredOn

-----------------------------------------------------------------------------
(* Frames that remove motion                                               *)

\* Such a frame takes the licence back and asks the motors to stand still.
Asks ==
  /\ ~asked /\ asked' = TRUE
  /\ licensed' = FALSE
  /\ UNCHANGED <<wire, relay>>

Stop == Asks /\ UNCHANGED <<state, estop, fault, nonce>>

Disarm ==
  /\ Asks
  /\ state = "ARMED" /\ state' = "DISARMED"
  /\ UNCHANGED <<estop, fault, nonce>>

Estop ==
  /\ Asks
  /\ state' = "ESTOP" /\ estop' = TRUE
  /\ UNCHANGED <<fault, nonce>>

\* A session begins or ends; neither clears a latch.
Session(unlatched) ==
  /\ Asks /\ ~relay
  /\ state' = IF Latched THEN state ELSE unlatched
  /\ UNCHANGED <<estop, fault, nonce>>

\* Authority, at rest and for a new nonce only.
Arm ==
  /\ Asks
  /\ state = "DISARMED" /\ ~Latched /\ wire = 0
  /\ state' = "ARMED"
  /\ nonce' # nonce
  /\ UNCHANGED <<estop, fault>>

ResetEstop ==
  /\ Asks /\ wire = 0 /\ ~relay
  /\ estop /\ ~fault
  /\ estop' = FALSE /\ state' = "DISARMED"
  /\ UNCHANGED <<fault, nonce>>

ResetFault ==
  /\ Asks /\ wire = 0 /\ ~relay
  /\ fault /\ fault' = FALSE
  /\ state' = IF estop THEN state ELSE "DISARMED"
  /\ UNCHANGED <<estop, nonce>>

\* The answer: the motors stand still, and no relay is on that may not be.
Answer ==
  /\ asked /\ asked' = FALSE
  /\ wire' = 0
  /\ relay => MaySwitch
  /\ UNCHANGED <<state, estop, fault, nonce, licensed, relay>>

-----------------------------------------------------------------------------
(* Frames that do not                                                      *)

\* CMD_VEL.
Accept ==
  /\ ~asked /\ state = "ARMED"
  /\ licensed' = TRUE
  /\ UNCHANGED <<state, estop, fault, nonce, asked, wire, relay>>

Switch ==
  /\ relay' \in BOOLEAN /\ (relay' => relay \/ MaySwitch)
  /\ UNCHANGED <<state, estop, fault, nonce, licensed, asked, wire>>

-----------------------------------------------------------------------------
(* What the firmware does by itself                                        *)

Boot ==
  /\ state = "BOOT" /\ state' = "DISCONNECTED"
  /\ UNCHANGED <<estop, fault, nonce, licensed, asked, wire, relay>>

\* A frame that moves, under authority and a command of its own.
Move ==
  /\ state = "ARMED" /\ ~Latched /\ licensed /\ ~asked
  /\ wire' \in Int
  /\ UNCHANGED <<state, estop, fault, nonce, licensed, asked, relay>>

\* A frame at rest; relays follow the latches.
Rest ==
  /\ wire' = 0
  /\ relay' = (relay /\ MaySwitch)
  /\ UNCHANGED <<state, estop, fault, nonce, licensed, asked>>

\* Everything off at once, whatever is being asked.
Off ==
  /\ wire' = 0 /\ relay' = FALSE /\ licensed' = FALSE
  /\ UNCHANGED <<estop, nonce, asked>>

\* No feedback, a fault of the controller, or a command too old.
Fail ==
  /\ Off
  /\ state = "ARMED"
  /\ state' = "FAULT" /\ fault' = TRUE

\* The Pi is silent for too long.
Lose ==
  /\ Off
  /\ state' = IF Latched THEN state ELSE "DISCONNECTED"
  /\ UNCHANGED fault

\* The task watchdog.
Reboot == PoweredOn'

Removes ==
  \/ Stop \/ Disarm \/ Estop \/ Arm \/ ResetEstop \/ ResetFault
  \/ \E s \in {"DISCONNECTED", "DISARMED"} : Session(s)

Firmware == Boot \/ Move \/ Rest \/ Fail \/ Lose \/ Reboot

Next == Switch \/ Accept \/ Answer \/ Removes \/ Firmware

Spec == Init /\ [][Next]_dvars

-----------------------------------------------------------------------------
(* What follows from the promises                                          *)

\* Once a frame that removes motion is answered, the motors stand still until a
\* command is accepted, and they turn only with authority.
MovesWithAuthority ==
  wire # 0 /\ ~asked => licensed /\ state = "ARMED" /\ ~Latched

\* No relay is on while a latch is set or no session is open, unless its frame
\* is still being handled.
SwitchesWithAuthority == relay /\ ~asked => MaySwitch

=============================================================================
