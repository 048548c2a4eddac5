-------------------------------- MODULE Robot --------------------------------
(***************************************************************************)
(* src/sound/sound.ino: the ESP32 of the robot that is driven from the     *)
(* application over a WebSocket.  Three tasks share its variables without  *)
(* a lock: the callbacks of the WebSocket server (onWsEvent), loop(),      *)
(* which ramps the wheels and commands the hoverboard, and the task that   *)
(* plays the sounds.                                                       *)
(*                                                                         *)
(* A time is known by how it compares with what it is compared with.  The  *)
(* relays, the telemetry and the sound files themselves are left out.      *)
(***************************************************************************)
EXTENDS Integers, Sequences

CONSTANTS
  MaxSpeed,   \* MAX_SPEED_PERCENT
  HoverMax,   \* HOVER_MAX_CMD
  SlewStep,   \* SLEW_SPEED_PER_SEND and SLEW_STEER_PER_SEND
  Moves,      \* the wheels that M commands ask for, halved and clamped
  MaxClients, \* bound: clients at once
  QueueLimit  \* the length of g_soundQueue

\* What the two wheels may be asked for, left and right.
Wheels == [1..2 -> -MaxSpeed..MaxSpeed]

ASSUME RobotAssumption ==
  /\ MaxSpeed \in Nat \ {0} /\ HoverMax \in Nat \ {0} /\ SlewStep \in Nat \ {0}
  /\ Moves \subseteq Wheels
  /\ MaxClients \in Nat \ {0} /\ QueueLimit \in Nat \ {0}

VARIABLES
  target,   \* g_targetLeft and g_targetRight
  wheels,   \* g_curLeft and g_curRight
  cmd,      \* g_cmdSpeed and g_cmdSteer: what the hoverboard was sent last
  heard,    \* g_lastCmdMs, seen from loop's now: "later", "recent" or "old"
  stopping, \* g_isFailSafeStopping
  clients,  \* g_wsClientCount
  pending,  \* g_discPending
  due,      \* the time is past g_discAtMs
  queued,   \* the number of sounds in g_soundQueue
  call,     \* the callback that runs: the writes left to it, and its wheels
  at,       \* where loop is
  told,     \* history: the connection sound that was asked for last
  crossed   \* history: the failsafe fired in the middle of a callback

motion == <<target, wheels, cmd, heard, stopping>>
link == <<clients, pending, due, queued, told>>
robotVars == <<motion, link, call, at, crossed>>

Zero == <<0, 0>>
Rest == [speed |-> 0, steer |-> 0]
Idle == [writes |-> <<>>, move |-> Zero]

\* setup.
RobotInit ==
  /\ target = Zero /\ wheels = Zero /\ cmd = Rest
  /\ heard = "recent" /\ stopping = FALSE
  /\ clients = 0 /\ pending = FALSE /\ due = TRUE /\ queued = 0
  /\ call = Idle /\ at = "begin"
  /\ told = "DISCONNECTED" /\ crossed = FALSE

-----------------------------------------------------------------------------
(* Arithmetic                                                              *)

Clamp(v, limit) ==
  IF v > limit THEN limit ELSE IF v < -limit THEN -limit ELSE v

\* stepToward16 and stepTowardsLimited.
StepToward(cur, goal, step) == cur + Clamp(goal - cur, step)

\* The division of C rounds towards zero.
Quotient(a, b) == IF a < 0 THEN -((-a) \div b) ELSE a \div b

\* drive: the wheels as speed and steer of the hoverboard.
Mixed(w) ==
  [speed |-> Quotient((w[1] + w[2]) * HoverMax, 2 * MaxSpeed),
   steer |-> Quotient((w[2] - w[1]) * HoverMax, 2 * MaxSpeed)]

-----------------------------------------------------------------------------
(* onWsEvent: one callback at a time, seen by the others write by write    *)

\* enqueueSound does not wait: a full queue drops the sound.
EnqueueSound == queued' = IF queued < QueueLimit THEN queued + 1 ELSE queued

Event(writes, move) ==
  /\ call = Idle
  /\ call' = [writes |-> writes, move |-> move]
  /\ UNCHANGED <<motion, link, at, crossed>>

WsConnect ==
  clients < MaxClients /\ Event(<<"flag", "cancel", "count">>, Zero)

\* requestSmoothStop, then the count, then what the last client leaves behind.
WsDisconnect ==
  clients > 0 /\ Event(<<"left", "right", "uncount", "pending", "due">>, Zero)

\* Mutant: a text only stamps the time.
WsDataStamps ==
  /\ clients > 0
  /\ \/ Event(<<"stamp">>, Zero)
     \/ Event(<<"stamp", "sound">>, Zero)
     \/ \E move \in Moves \cup {Zero} :
          Event(<<"stamp", "left", "right">>, move)

\* Every text stamps the time and takes back the failsafe: PING, M, STOP, SOUND.
WsData ==
  /\ clients > 0
  /\ \/ Event(<<"stamp", "flag">>, Zero)
     \/ Event(<<"stamp", "flag", "sound">>, Zero)
     \/ \E move \in Moves \cup {Zero} :
          Event(<<"stamp", "flag", "left", "right">>, move)

Write(name) ==
  /\ call.writes # <<>> /\ Head(call.writes) = name
  /\ call' = IF Len(call.writes) = 1 THEN Idle
             ELSE [call EXCEPT !.writes = Tail(@)]
  /\ UNCHANGED <<at, crossed>>

\* millis() may be later than the now that loop has read.
Stamp ==
  /\ Write("stamp")
  /\ heard' \in IF at = "begin" THEN {"recent"} ELSE {"recent", "later"}
  /\ UNCHANGED <<target, wheels, cmd, stopping, link>>

TakeBack ==
  /\ Write("flag")
  /\ stopping' = FALSE
  /\ UNCHANGED <<target, wheels, cmd, heard, link>>

WriteWheel(name, side) ==
  /\ Write(name)
  /\ target' = [target EXCEPT ![side] = call.move[side]]
  /\ UNCHANGED <<wheels, cmd, heard, stopping, link>>

WriteLeft == WriteWheel("left", 1)
WriteRight == WriteWheel("right", 2)

CancelFarewell ==
  /\ Write("cancel")
  /\ pending' = FALSE
  /\ UNCHANGED <<motion, clients, due, queued, told>>

\* The first client is greeted, unless the robot has just been started.
CountIn ==
  /\ Write("count")
  /\ clients' = clients + 1
  /\ \/ clients = 0 /\ EnqueueSound /\ told' = "CONNECTED"
     \/ UNCHANGED <<queued, told>>
  /\ UNCHANGED <<motion, pending, due>>

\* Only the last client to go leaves a farewell pending.
CountOut ==
  /\ call.writes # <<>> /\ Head(call.writes) = "uncount"
  /\ clients' = clients - 1
  /\ call' = IF clients = 1 THEN [call EXCEPT !.writes = Tail(@)] ELSE Idle
  /\ UNCHANGED <<motion, pending, due, queued, told, at, crossed>>

PlanFarewell ==
  /\ Write("pending")
  /\ pending' = TRUE
  /\ UNCHANGED <<motion, clients, due, queued, told>>

DelayFarewell ==
  /\ Write("due")
  /\ due' = FALSE
  /\ UNCHANGED <<motion, clients, pending, queued, told>>

AskSound ==
  /\ Write("sound")
  /\ EnqueueSound
  /\ UNCHANGED <<motion, clients, pending, due, told>>

-----------------------------------------------------------------------------
(* loop                                                                    *)

At(here, next) == at = here /\ at' = next

\* loop reads its now, which is not before any stamp.
LoopBegin ==
  /\ At("begin", "failsafe")
  /\ heard' = IF heard = "later" THEN "recent" ELSE heard
  /\ UNCHANGED <<target, wheels, cmd, stopping, link, call, crossed>>

\* now - g_lastCmdMs is unsigned: a stamp later than now is long ago as well.
TimedOut == heard # "recent"

Moving == target # Zero \/ wheels # Zero

Failsafe ==
  /\ At("failsafe", IF TimedOut /\ ~stopping /\ Moving THEN "fire" ELSE "ramp")
  /\ UNCHANGED <<motion, link, call, crossed>>

Fire ==
  /\ At("fire", "fire left")
  /\ stopping' = TRUE
  /\ crossed' = (crossed \/ call # Idle)
  /\ UNCHANGED <<target, wheels, cmd, heard, link, call>>

\* requestSmoothStop by loop.
FireWheel(here, next, side) ==
  /\ At(here, next)
  /\ target' = [target EXCEPT ![side] = 0]
  /\ UNCHANGED <<wheels, cmd, heard, stopping, link, call, crossed>>

FireLeft == FireWheel("fire left", "fire right", 1)
FireRight == FireWheel("fire right", "ramp", 2)

\* updateRamp: a step for each wheel, and the failsafe is over at rest.
Ramp ==
  /\ At("ramp", "send")
  /\ wheels' = [s \in 1..2 |-> StepToward(wheels[s], target[s], 1)]
  /\ stopping' = (stopping /\ ~(wheels' = Zero /\ target = Zero))
  /\ UNCHANGED <<target, cmd, heard, link, call, crossed>>

NoRamp ==
  At("ramp", "send") /\ UNCHANGED <<motion, link, call, crossed>>

\* Mutant: the hoverboard is sent a command only while the wheels should turn.
SendMoving ==
  /\ At("send", "farewell")
  /\ cmd' = IF wheels = Zero THEN cmd
            ELSE [a \in {"speed", "steer"} |->
                    StepToward(cmd[a], Mixed(wheels)[a], SlewStep)]
  /\ UNCHANGED <<target, wheels, heard, stopping, link, call, crossed>>

\* drive.
Send ==
  /\ At("send", "farewell")
  /\ cmd' = [a \in {"speed", "steer"} |->
               StepToward(cmd[a], Mixed(wheels)[a], SlewStep)]
  /\ UNCHANGED <<target, wheels, heard, stopping, link, call, crossed>>

NoSend ==
  At("send", "farewell") /\ UNCHANGED <<motion, link, call, crossed>>

\* sendBatteryToAppIfNeeded: the warning takes a place in the queue.
Battery ==
  /\ at = "farewell"
  /\ EnqueueSound
  /\ UNCHANGED <<motion, clients, pending, due, told, call, at, crossed>>

\* handleDisconnectSoundDebounce.
Farewell ==
  /\ At("farewell", IF pending /\ due THEN "withdraw" ELSE "begin")
  /\ UNCHANGED <<motion, link, call, crossed>>

Withdraw ==
  /\ At("withdraw", "tell")
  /\ pending' = FALSE
  /\ UNCHANGED <<motion, clients, due, queued, told, call, crossed>>

Tell ==
  /\ At("tell", "begin")
  /\ IF clients = 0 THEN EnqueueSound /\ told' = "DISCONNECTED"
     ELSE UNCHANGED <<queued, told>>
  /\ UNCHANGED <<motion, clients, pending, due, call, crossed>>

-----------------------------------------------------------------------------
(* The sound task and the clock                                            *)

SoundTask ==
  /\ queued > 0 /\ queued' = queued - 1
  /\ UNCHANGED <<motion, clients, pending, due, told, call, at, crossed>>

\* CMD_TIMEOUT_MS and DISC_GRACE_MS pass.
Silence ==
  /\ heard = "recent" /\ heard' = "old"
  /\ UNCHANGED <<target, wheels, cmd, stopping, link, call, at, crossed>>

Grace ==
  /\ ~due /\ due' = TRUE
  /\ UNCHANGED <<motion, clients, pending, queued, told, call, at, crossed>>

WsTask ==
  \/ Stamp \/ TakeBack \/ WriteLeft \/ WriteRight
  \/ CancelFarewell \/ CountIn \/ CountOut \/ PlanFarewell \/ DelayFarewell
  \/ AskSound

Loop ==
  \/ LoopBegin \/ Failsafe \/ Fire \/ FireLeft \/ FireRight
  \/ Ramp \/ NoRamp \/ Send \/ NoSend \/ Farewell \/ Withdraw \/ Tell

RobotNext ==
  \/ WsConnect \/ WsDisconnect \/ WsData \/ WsTask
  \/ Loop \/ Battery \/ SoundTask \/ Silence \/ Grace

RobotSpec == RobotInit /\ [][RobotNext]_robotVars

\* Each task goes on, and so does the clock: the ramp and the frame, which loop
\* owes every 20 ms, are not put off for ever.
RobotFairSpec ==
  /\ RobotSpec
  /\ WF_robotVars(WsTask) /\ WF_robotVars(Loop)
  /\ SF_robotVars(Ramp) /\ SF_robotVars(Send)
  /\ WF_robotVars(Silence) /\ WF_robotVars(Grace)

-----------------------------------------------------------------------------
(* Properties                                                              *)

\* A stop that was asked for, by STOP, by the last client that goes or by the
\* failsafe, comes to rest unless the robot is moved again: the ramp and the
\* slew leave nothing behind (sound.ino:272 to 285 and 307 to 328).
StopComesToRest ==
  (target = Zero) ~> (target # Zero \/ (wheels = Zero /\ cmd = Rest))

\* While the failsafe believes that it is stopping the robot, the robot is asked
\* to stand still: otherwise the flag keeps the next timeout from being served
\* (sound.ino:817).  But for the failsafe that fires in the middle of a callback.
FailsafeIsStopping ==
  (stopping /\ ~crossed /\ at \notin {"fire left", "fire right"}) => target = Zero

\* When everybody has left, the robot says so, whatever the order in which the
\* callbacks and loop go on (sound.ino:634 to 643 and 668 to 678).
AbsenceIsTold == (clients = 0) ~> (clients > 0 \/ told = "DISCONNECTED")

\* What sound.ino:815 says, the failsafe stops the robot: one that hears nothing
\* does not move for ever.
SilenceStopsRobot == (heard = "old") ~> (heard # "old" \/ wheels = Zero)

\* What sound.ino:674 says: the farewell is delayed.
FarewellIsDelayed == [][told' = "DISCONNECTED" /\ told # told' => due]_robotVars

=============================================================================
