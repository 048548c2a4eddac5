--------------------------- MODULE MotorInterlock ---------------------------
(***************************************************************************)
(* What the motor driver of the rover promises to the tasks that share it: *)
(* after a hard zero the wheels stay at rest until a task asks for         *)
(* authority again and gives a command under it, authority is one token    *)
(* that any hard zero and any newer authority void, and the wheels speed   *)
(* up one step at a time.  Module RoverMotor implements it, module Rover   *)
(* uses it.                                                                *)
(*                                                                         *)
(* An authority is an epoch number in the code, compared only for          *)
(* equality with the current one: the model keeps the variable whose token *)
(* is current.  The number is 32 bits wide; a token that survives 2^32     *)
(* epochs is not considered.                                               *)
(***************************************************************************)
EXTENDS Integers

CONSTANTS
  Tokens,    \* the variables of the program that hold an authorization
  NoToken,   \* no variable holds the current one
  Sources,   \* the names under which authority is asked for
  NoSource,  \* "none"
  Top        \* the highest speed, in steps of the slew

Speeds == 0..Top

VARIABLES
  latch,   \* zeroLatchActive
  holder,  \* the token equal to authorizationEpoch
  source,  \* _commandSource
  driven,  \* a command that moves was accepted since the last hard zero
  wire     \* speed in the last frame sent to the hoverboard

ivars == <<latch, holder, source, driven, wire>>

Init ==
  /\ latch = TRUE
  /\ holder = NoToken
  /\ source = NoSource
  /\ driven = FALSE
  /\ wire = 0

\* authorizeMotionCommand: a latched driver is anybody's, an open one belongs
\* to the source that opened it.
CanAuthorize(s) == latch \/ source = s

Granted(t, s) ==
  /\ CanAuthorize(s)
  /\ latch' = FALSE
  /\ holder' = t
  /\ source' = s

\* The caller stores the zero it is given over its token.
Denied(t, s) ==
  /\ ~CanAuthorize(s)
  /\ holder' = IF holder = t THEN NoToken ELSE holder
  /\ UNCHANGED <<latch, source>>

Authorize(t, s) ==
  /\ Granted(t, s) \/ Denied(t, s)
  /\ UNCHANGED <<driven, wire>>

\* MotorCommandGuard::apply accepts only the current token.
Accepts(t) == ~latch /\ holder = t

Drive(t) ==
  /\ Accepts(t)
  /\ driven' = TRUE
  /\ UNCHANGED <<latch, holder, source, wire>>

\* MotorCommandGuard::hardZero; one that finds the latch closed has no epoch
\* to void.
Closed ==
  /\ latch' = TRUE
  /\ holder' = NoToken
  /\ source' = NoSource
  /\ driven' = FALSE

HardZero ==
  /\ Closed
  /\ wire' \in {wire, 0}

Frame ==
  /\ wire' \in {v \in Speeds :
                  /\ v # 0 => /\ ~latch /\ driven
                              /\ v - wire \in {-1, 0, 1}}
  /\ UNCHANGED <<latch, holder, source, driven>>

Next ==
  \/ \E t \in Tokens, s \in Sources : Authorize(t, s)
  \/ \E t \in Tokens : Drive(t)
  \/ HardZero
  \/ Frame

Spec == Init /\ [][Next]_ivars

=============================================================================
