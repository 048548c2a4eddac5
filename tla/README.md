# Verification of the module-robot control path

This directory holds TLA+ models of the parts of this repository that decide
whether the robot may move. There are three programs of that kind:

* the ESP32 firmware in `rtk_firmware/` that serves a Raspberry Pi (the
  `pi_bridge` environment), with the ROS 2 nodes in `robot_pi/ros2_ws/` above it;
* the stand-alone rover in the same firmware tree (`rover.cpp` and its libraries),
  which drives an uploaded route by itself;
* the robot firmware `sound/sound.ino`, driven by hand from the application.

The models are checked with TLC on small instances; the central results about
nine of them are also proved with TLAPS for every value of their constants.
`PROJECT.json` maps each definition to the source lines it models and lists the
runs, theorems, hazards and findings.

Paths below are relative to the repository (`src/` in `PROJECT.json`).

## 1. The system

```
operator / app ──WebSocket──> gateway ──/cmd_vel_manual, /safety/stop──┐
Nav2 ─────────────────────────────────────/cmd_vel_auto────────────────┤
                                                                       v
      /safety/* services ───────────────────────────────────────> safety node
                                     /cmd_vel_safe, /safety/state  │   ^ /esp32/status
                                     /esp32/arm, disarm, stop, ... v   │ acks
                                                             ESP32 bridge node
                                                  serial frames    │   ^
                                                                   v   │
                                  ESP32: loop task ── SafetyMachine ── motor task
                                                                         │ UART
                                                                  motor controller

app ──WebSocket task──┬─ upload lines ──> Route store ──plan──> RouteExecutor ─┐
                      ├─ queued command, stop latch ──> loop() ── Safety ──────┤
                      └─ M, STOP, disconnect ──────────────────────────────────┤
serial console ─────────────────────────────────> loop() ── align, sign test ──┤
                                                                               v
                                          Motor (epochs, hard zero) ── TX task ── hoverboard

app ──WebSocket callbacks──> targets, flag, stamp <── loop(): failsafe, ramp, slew ── hoverboard
```

| Component | State it keeps | Operations | What makes it correct | Modelled |
|---|---|---|---|---|
| SafetyMachine (`PiBridgeCore`) | state, FAULT and ESTOP latches, handshake, targets and ramp, deadlines over `millis()`, hard-zero generation, last ARM nonce | completeBoot, acceptHello, noteHeartbeat, connectionLost, arm, disarm, stop, estop, two resets, setLimits, commandVelocity, tick | motion only while ARMED and fresh; latches survive everything but their reset; stop commands bypass the ramp | `PiBridgeSafety` |
| Firmware tasks (`pi_bridge.cpp`) | task-local clock and telemetry samples, zero acknowledgement, last UART frame, relays | one handler per message type, `waitForHardZero`, motor task loop, task watchdog, `enforceRelaySafety` | a stop is answered only after the motors were told zero; relays follow the latches; a reboot comes back disarmed | `PiBridge` |
| Wire protocol (`PiBridgeProtocol`, `protocol.py`, `payloads.py`) | stream decoder buffer, sequence counters | encode, decode, resynchronise | no frame is invented; one damaged frame costs no other | message types only |
| Bridge node (`bridge_node.py`, `bridge_state.py`) | port, handshake, last STATUS, motion gate, ARM epoch, pending ACKs, two locks | I/O tick, command and heartbeat ticks, seven services, safety-state and velocity callbacks | the gate is open only under an acknowledged, unrevoked ARM; no thread waits for ever; stop calls are never delayed | `Esp32Bridge` |
| Safety node (`safety_node.py`, `policy.py`) | authority, epoch, two latches, last messages with their deadlines, fail-safe rate limit | telemetry, manual and auto commands, 50 Hz tick, eight services | one source moves, after ARM only, on commands newer than the ARM; resets never undo a newer latch; stray hardware authority is removed | `SafetyNode` |
| Gateway (`gateway_node.py`, `routes.py`, `websocket_server.py`) | manual owner and its deadline, pending STOP call, route store | drive, stop, nav, route upload, disconnect | only the owner drives; every STOP reaches the safety node; the published route is the stored one | not yet |
| Rover motor driver (`lib/Motor`) | authorization epoch, zero latch, target and slewed command, command stamp, snapshot of the TX task | authorize, set speed, refresh, stop, TX loop | after a hard zero no frame moves before a new epoch is commanded; silence stops the wheels | `RoverMotor`, implementing `MotorInterlock` |
| Rover loop and commands (`rover.cpp`, `lib/WebSocket`) | queued command, stop latch, sessions, alignment, steering test, mirror of the executor | serial lines, queued command, Safety, alignment, sign test, route step; WebSocket callbacks | a STOP wins over whatever the loop has under way; nothing drives against Safety; sessions end | `Rover` |
| Route executor (`lib/RouteExecutor`) | state, segment, stop purpose, corrections, recovery, timers | start, update, pause, resume, cancel | motion changes at rest; corners are left at rest; a route ends or is given up | `RouteExecutor` |
| Route store (`lib/Route`) | waypoints, fence, polygons, upload progress | BEGIN, points, fence, polygons, END, clear; GO fills it | what is ready is whole, and stands while it is driven | `RouteUpload` |
| Rover Safety (`lib/Safety`) | mode, level, recovery and sky timers | tick, setMode | worse at once, better only after it lasted | `RoverSafety` |
| Robot (`sound.ino`) | targets, wheels, slewed command, failsafe flag and stamp, clients, farewell, sound queue | callbacks, failsafe, ramp, send, farewell | silence and STOP end at rest | `Robot` |
| Estimators, GNSS, IMU, navigation math; Flutter app; simulator; preflight and tools | | | | not modelled |

How they interact. The two `pi_bridge` tasks share one `SafetyMachine` under the
spinlock `g_safety_mux`; everything they read before they take it may be stale.
The bridge node runs six callback groups on a multi-threaded executor around
`_motion_lock` (reentrant) and `_tx_lock`. The safety node's callbacks share
`self._lock`, and its services call the bridge's services and wait for the
answer with the lock released. In the rover, the callbacks of the asynchronous
WebSocket server run in a task of their own; they share flags, one command slot and
the route store with `loop()`, mostly without a lock, and the motor driver, which
has one. In `sound.ino` nothing is locked at all.

What is hard here: samples taken before a lock and used after it; wrapping
clocks; the hand-over of a hard zero between two tasks; latches reset in either
order; an ARM in flight while something revokes it; frames handled after an earlier
one closed the port; locks held while waiting; a rate limit on the request that
removes stray authority; reboots; a STOP that comes between a decision to move and
the command that follows from it; a single command slot with a latch beside it;
sessions whose timeouts are suspended; counters that bound a loop of states through
several others; uploads in pieces while another task reads. `PROJECT.json` lists each
one at its line.

## 2. Modules

| Module | What it models |
|---|---|
| `PiBridgeSafety` | class `SafetyMachine`: one operator from record to record per method; no variables |
| `DriveAuthority` | abstract: what the firmware promises the Pi, without tasks, locks and clocks |
| `PiBridge` | EXTENDS `PiBridgeSafety`, implements `DriveAuthority`: both tasks, clock, watchdog, UART output, relays; the properties and the inductive invariant |
| `MCPiBridge` | the frames the Pi may send in each run |
| `PiBridgeProofs` | proofs about `PiBridge`, the refinement included |
| `Esp32Bridge`, `Esp32BridgeProofs` | the bridge node's threads and locks, the serial link, and the firmware reduced to its answers; proofs |
| `SafetyNode`, `SafetyNodeProofs` | the safety node, with bridge and firmware below it reduced to one machine; proofs about it |
| `MotorInterlock` | abstract: what the rover's motor driver promises to those that share it |
| `RoverMotor`, `RoverMotorProofs` | the driver with its TX task, implementing `MotorInterlock`; proofs, the refinement included |
| `Rover`, `RoverProofs` | the rover's loop and WebSocket task over an instance of `MotorInterlock`; proofs |
| `RouteExecutor`, `MCRouteExecutor`, `RouteExecutorProofs` | the executor and the gate between it and the motor; the routes TLC drives; proofs |
| `RouteUpload`, `RouteUploadProofs` | the route store between the WebSocket task and the loop; proofs |
| `RoverSafety` | the rover's Safety watchdog over a wrapping clock |
| `Robot`, `MCRobot` | `sound.ino`; the moves TLC commands |
| `FailsafeProofs` | proofs about the two failsafes, `RoverSafety` and `Robot` |

The three layers of the rover are composed by abstraction: `Rover` uses the driver
by what it promises (`MotorInterlock`, which `RoverMotor` is proved to implement)
and the executor and Safety by what they tell the loop; `RouteExecutor` and
`RoverSafety` model those in full.

An operator commented "Mutant of X" (or "Mutant: ...", just before X) is X with
a plausible mistake. It is used by no specification: a property is known to look
at the code's behaviour when replacing X by its mutant makes the run fail.

### PiBridge: how it corresponds to the code

* `now` is `millis()`, modulo `ClockMod`; it starts anywhere, so the wrap is met
  in every phase. `sm` is `g_safety`. `motor` and `loop` hold where each task is
  and the samples it took before it took the lock. `out` is the percentage of the last UART
  frame. `acked` says that the acknowledged generation is the one waited for: the
  code only ever compares generations for equality, so the counters themselves are
  not kept.
* One action is one critical section. `PollMotor` / `TickMotor` are the two halves
  of `motorTaskEntry`'s loop; `Receive` is the part of `handleFrame` before the
  lock; `Hello`, `HandleArm`, ... are its critical sections; `ZeroAcked` and
  `ZeroFallback` the two ends of `waitForHardZero`; `EstopRelaysOff` is the second
  critical section of ESTOP; `Panic` the task watchdog's reboot.
* The motor feedback is free at every tick; the telemetry of ARM and the resets
  may report rest only if the last UART frame was zero.
* Two history variables serve the properties only: `since_auth`, the true time
  since the last accepted ARM or CMD_VEL, and `licensed`, whether a CMD_VEL was
  accepted since the last command to stop.
* Abstracted: the left/right wheel pair is one number; of the limits only the
  command timeout is kept; a frame is one that passed the sequence gate (the gate
  drops frames without effect on the safety state, except that STOP, DISARM and
  ESTOP pass it always).
* `DriveAuthority` is the same firmware seen from the Pi: the state of STATUS, the two
  latches, the last nonce, the last UART frame and the relays. A frame that removes
  motion is asked (`asked`) and answered later; from the moment it is asked no
  earlier command counts (`licensed`), and its answer finds the motors at rest.
  `Authority` in `PiBridge` maps `sm` and `out` to it; `asked` is a handler that waits
  for its zero (`Zeroing`). The ages, the hand-over of generations and the two critical
  sections of ESTOP are steps or stutters of it.

### Esp32Bridge

* Each callback group is a thread; `zero` stands for the reentrant group of STOP,
  DISARM and ESTOP. One action is what a thread does between two lock
  acquisitions; `th[t]` is its place and the frames it still has to send.
* `auth` is what `_motion_lock` protects (the gate, the ARM flags), `session` what
  it does not. `cancelled` says that the epoch moved since the ARM in flight took its
  copy.
* `StartDisconnect` / `FinishDisconnect` split `_write`'s failure path where the
  code waits for `_motion_lock` with `_tx_lock` held. `ReadBytes` and the handlers
  after it keep frames of one read together (`batch`).
* Time is abstracted: a deadline may expire at any moment it is armed. The firmware
  answers, loses answers, faults and loses its session. History: `revoked` (an ARM
  would have to be called again) and `commanded` (a velocity arrived since).
* Left out: shutdown, sensor topics, the clock offset, the REQUEST_STATUS that
  follows a handshake, a heartbeat that is written successfully.

### SafetyNode

* One action is one critical section under `self._lock`. `node` is the authority
  and the two latches, `view` the last telemetry, `service` the service that waits
  for the bridge, `hw` the hardware.
* `Execute` lets the hardware carry out a request at any time, also after the caller
  timed out, and in any order; STATUS messages queue and arrive late.
* The nine readiness gates of AUTO are one Boolean that changes freely; stale and
  missing commands are one case; one kind of fault is kept. Calls and faults share the
  bound `MaxCalls`.
* History: `revoked`, `newer` (something newer than the reset in flight happened) and
  `commanded` (the sources heard since the last ARM or STOP).
* Left out: `set_relays` (passes a request through), `safe_shutdown`, diagnostics.

### RoverMotor and MotorInterlock

* A step of `RoverMotor` is one critical section of `Motor::_mux`. The epochs and
  tokens of `MotorCommandGuard` are compared for equality only, so the model keeps the
  variable that holds the current one (`epoch`). `snap`, `since` and `stale` are what the
  TX task (`Motor::loop`) carries from its clock sample and its snapshot to the frame.
* Callers may call in any order, which is more than the program does.
* `MotorInterlock` has the same latch, epoch, source and last frame, and none of the TX
  task: a frame moves towards something only if a command was accepted since the last
  hard zero, by one step of the slew. The refinement maps `latch`, `holder` and `wire`
  to `zeroLatch`, `epoch` and `frame`.

### Rover

* `at` is the stage of `loop()`; the stages are cut where a callback of the WebSocket
  task in between makes a difference. `ws` is where that task is inside a callback;
  `handleStopLine` is three stages because it raises the latch, stops, and lowers the
  latch again. `pending` is the one command slot, `stopLatch` the latch beside it.
* `exec` keeps of the executor what the loop looks at: whether it is active, wants to
  move, has just changed its state, and how it ended. `level` is the verdict of Safety,
  free from tick to tick.
* `late` says that a session is past its timeout; it may become so at any time the code
  counts it. The final stop of a route (`exec` is `"final"` or `"settle"`) is exempt from
  that timeout, as `rover.cpp:1058` and `RouteExecutor::expire` exempt it: `SessionEnds` waits
  until it is over, and `stopLate` says that the final stop is past its own timeout.
* Left out: `stepFollowerLegacy`, `precisionDebugOnTick`, `uploadPrecisionSegment` and
  `pathDiagnosticsLegacyOnTick` (called from nowhere); printing, tuning and telemetry;
  the relays.

### RouteExecutor

* `ex` holds the members of the executor, `Update` is `RouteExecutor::update` with the
  part of `stepRouteExecutor` that follows it (the motor is reopened only in an update that
  changes the state); `UpdateHeld` is the same under a hold or a pause, `UpdateFails` the
  inputs that fail a route.
* Positions, headings, the steering response and the footprint check are open at every
  update. A deadline is a timer in `Timers`, restarted where the code stamps it; it
  may run out any time later.
* History: `rolling` (how the rover moved since its last confirmed stop), `held`,
  `blind`.

### RouteUpload, RoverSafety, Robot

* `RouteUpload`: `store` is `g_route`, and a point is known by the upload it came from.
  The WebSocket task takes lines one by one; `WsBegin` is split where it looks
  for navigation and then clears the store; `loop` builds a GO line by line from the
  other task. `mixed` and `reserved` are history.
* `RoverSafety`: candidates and the sky are open at every tick, `now` runs modulo
  `ClockMod`, and both timers keep the code's sentinel 0. `healthy` and `dark` are true
  durations.
* `Robot`: a callback is the list of writes still left to it, taken one by one, while
  loop goes through failsafe, ramp, send and farewell. `heard` compares the stamp
  with the `now` loop took: "later" is the case in which the unsigned difference wraps.
  Its specification is `RobotSpec` (with `RobotInit`, `RobotNext`), so that `FailsafeProofs`
  can extend it together with `RoverSafety`.

## 3. What the runs show

| Run | Properties | Instance |
|---|---|---|
| `PiBridgeSafe` | `TimedInductive` (`Inductive` and `Timed`), `ImplementsAuthority`, `EarlyOnlyByRace`, `SlewBounded`, `LatchReleasedAtRest` | clock of 4, heartbeat and hard timeout 2, all skews 1; every kind of frame but SET_LIMITS, ARM with two nonces, CMD_VEL at full speed with a zero and an excessive timeout and in two modes, relays on and off |
| `PiBridgeLive` | `MotionIsFresh`, `SilenceStopsMotors`, `StopReachesMotors` | as `PiBridgeSafe`, with HELLO, HEARTBEAT, STOP, SET_LIMITS, ARM and one slow CMD_VEL, fair |
| `BridgeRevoke` | `RevocationSticks`, `MotionNeedsFreshCommand`, `MotionMatchesSafety` | any two of the six kinds of call, both modes, three safety states |
| `BridgeGate` | `GateJustified` | one ARM; one failed read or write, fault or lost session; two frames in one read |
| `Safety` | `AuthorityJustified`, `LatchOutlivesReset`, `MotionNeedsNewCommand`, `StrayArmRemoved` | two calls of the seven kinds, or one and a fault or disconnection; manual mode, fair |
| `RoverMotor` | `Inductive`, `ImplementsInterlock`, `SilenceStopsWheels` | two tokens, two sources, two steps of slew, fair |
| `Rover` | `Consistent`, `SafetyStopsAutonomy`, `LatchHasOwner`, `StopServed`, `DisconnectStops`, `SessionIsBounded` | four commands, connects or disconnects, fair |
| `RouteExecutor` | `TypeOK`, `MotionReopens`, `ModeChangesAtRest`, `CornerStops`, `RecoveryEnds`, `TurnEnds`, `FinalStopConcludes` | a passed point before a final position, a corner before a final pose; two recoveries, one correction, fair |
| `Robot` | `FailsafeIsStopping`, `StopComesToRest` | one client, one kind of move, speeds up to 2 and frames up to 3, fair |
| `RouteUpload` | `ReadyIsWhole`, `PolygonsAreWhole`, `DrivenRouteStands` | two waypoints, two polygons of two points, two uploads |
| `RoverSafety` | `SkyIsHeld`, `RecoveryIsEarned`, `RecoveryComes` | stable time 3, sky hold 4, ticks up to 2 apart, clock of 12, fair |
| `RobotSilence` | `SilenceStopsRobot`, violated | as `Robot` |

Why these bounds. Every deadline of the Pi bridge is compared with the age of a
sample, so what matters is that the clock wraps, that ages pass each deadline, and
that samples are older than the state they meet: a clock of 4 with deadlines of 2
and skews of 1 has each of them. The ramp moves by one per unit of time and full speed
is 3, more than any single permitted step. SET_LIMITS doubles the states and matters
only to how long a command lasts, so it is in the run of `MotionIsFresh`. In the bridge,
two calls are needed for one to overtake another, two queued frames for one to be handled after the other
closed the port, and one failure to reach each failure path; the properties compare
one call's answer with one revocation, so more calls repeat the same meetings. In the
safety node, a latch, its reset and a late STATUS, or an ARM and what revokes it, take two
events; three or more are covered by the proofs. The driver's races are between one
snapshot and what follows it, up to the next epoch: two tokens let another task open
it, two steps of slew let a stale snapshot differ from the fresh one. Four rover
commands let a client connect, start a route or a session, and two more commands
overtake one another. Two points per route are the smallest with a segment to pass or to
turn at, and one that ends the route; one correction and two recoveries reach both
limits, the recovery by way of a correction included. Two uploads let one be
mixed with the other, two polygons let one be left half sent. In `RoverSafety` the clock
is longer than both timers and a tick, as 2^32 ms is, and ticks may be so far apart that
a timer is passed between two. Bounds occur only in guards (`MaxCalls`, `MaxTroubles`,
`MaxFaults`, `MaxWire`, `MaxQueue`, `MaxCommands`, `MaxUploads`, `MaxClients`); the rest are the
code's own limits. `CHECK_DEADLOCK FALSE` appears in the bridge's runs: calls
are bounded, and its lock cycle is a real deadlock of the code.

`SlewBounded` allows one task-watchdog interval plus the delay of the ARM
handler: ARM stamps the ramp with a clock sample taken before the lock, so the
first ramp step is longer by that delay. A bound of one interval alone is violated.

Some properties except a case by name, each a behaviour of the code that would break
the property: a GO that takes upload lines in its middle (`mixed`), a route without a
reservation (`reserved`), holds and pauses in `MotionReopens`, a pause, a lost link and a
navigation request withdrawn in the final stop in `SessionIsBounded` (below), the crossing
of failsafe and callback in `FailsafeIsStopping`. The excepted cases are the disagreements
below, or noted with the hazard.

### Fairness

* `PiBridge`: the two tasks run on cores of their own and never block without a
  timeout, so each of their steps is weakly fair, and so is time. Nothing is assumed of
  the Pi. The task watchdog's reboot is weakly fair once it is due.
* `SafetyNode`: the tick, message delivery, the rate limit's expiry, the
  execution of requests and the bridge call timeout are weakly fair. The tick also runs
  strongly fairly while STATUS is fresh: it has a period of 20 ms and STATUS a
  timeout of 500 ms, so a STATUS cannot always expire before a tick sees it.
* `RoverMotor`: the TX task has its own core and a period of 20 ms.
* `Rover`, `RouteExecutor`, `RoverSafety`: `loop()` goes on, the WebSocket task ends the
  callback it is in, and time passes, so a timer that runs may run out. No
  command is assumed to come.
* `Robot`: both tasks go on. The ramp and the frame, which loop owes every 20 ms while it
  passes by much more often, are strongly fair. (`Ramp` takes one step where `updateRamp` catches up with
  all the steps that are due, so the model comes to rest later, never sooner.)
* `Esp32Bridge` defines a fair specification as well (executor threads are scheduled, waits
  end by their timeout, the firmware keeps reading; writing is strongly fair because the
  timers leave `_tx_lock` free between two ticks). `MotionLockReleased`, that
  `_motion_lock` is released again and again as long as no write fails, holds under it with
  all six kinds of call, both modes, `MaxCalls = 1`, `MaxTroubles = 0`,
  `MaxQueue = 1`; it is not among the listed runs, and neither is `AbsenceIsTold` (`Robot`), which
  holds in the instance of its module's run.

### Disagreements with the repository's own statements

One has a run:

* `RobotSilence`: `sound.ino:815` says "failsafe -> smooth stop". The failsafe acts once
  per silence, guarded by `g_isFailSafeStopping`, which a callback lowers before it
  writes the targets of a move. If loop fires the failsafe in between, the flag stays up
  over moving targets and the next silence is not served: the robot goes on without
  anybody in command. It need not even be a late command: the stamp that the callback writes may be
  newer than the `now` loop has taken, and the unsigned difference then wraps. Any
  further message clears the flag.

The others are stated as properties and refuted by TLC when the property is put into a
cfg with the constants named:

| Property | Module, constants | What the code does, and what it contradicts |
|---|---|---|
| `WatchdogNotEarly` | `MCPiBridge`, `LiveFrames`; clock 6, heartbeat 3, hard timeout 2, ramp 1, watchdog 2, motor skew 1, ack wait 2, skew 1 | `motorTaskEntry` reads `millis()` before the lock (`pi_bridge.cpp:835`), a command stored in between looks ancient and latches `CMD_VEL_TIMEOUT`; `PiBridgeTime.h:5` asks for the other order, `test_pi_bridge_safety.cpp:243` denies it. Fails safe. `EarlyOnlyByRace`, which is proved, says that this race is the only way. |
| `NoLockCycle` | `Esp32Bridge`; ARM and DISARM, two calls, one trouble, states MANUAL and FAULT | `_write` disconnects with `_tx_lock` held and takes `_motion_lock`, whose holders send; `bridge_node.py:98` counts on `_send` being independent. |
| `ZeroNeverQueues` | `Esp32Bridge`; ARM, RESET and STOP, two calls | The resets wait for their ACK with `_motion_lock` held; the same comment says that STOP, DISARM and ESTOP never queue behind that. |
| `ResetCancelledByNewer` | `SafetyNode`; ESTOP and RESET_ESTOP, two calls, no sender, no fault | A tick re-applies the latch being reset and advances the epoch, and the reset is answered "cancelled by a newer safety transition" (`safety_node.py:1332`). Fails safe. |
| `SessionHasCeiling` | `Rover`, as the run | A GO whose link is lost is held without end. Nor does the timeout end one in its final stop (`rover.cpp:1058`): the stop's own does, but only while the route is updated, which it no longer is once the navigation request is withdrawn. The comment at `rover.cpp:447` gives it a ceiling of ten seconds. |
| `StopVoidsCalculated` | `Rover`, as the run | A STOP that `loop` finishes between the calculation and the send lets an authorization be taken anew; `rover.cpp:38` says that what was calculated before cannot be applied. |
| `BusyGuardHolds` | `Rover`, as the run | The guard looks at the session only, so a GO starts over an active route; the comment at `rover.cpp:6126` says that nothing starts over an active motion. |
| `AlignKeepsSession` | `Rover`, as the run | An alignment asked for over the WebSocket is aborted as "ws_disconnected" in the next pass; `rover.cpp:1051`. |
| `ReservationEnds` | `Rover`, as the run | A START that is overwritten in the slot leaves navigation reserved; `rover.cpp:7336`. |
| `ResumeContinues` | `MCRouteExecutor`, as the run | The motor stays closed after a pause or hold until the executor next changes its state (`rover.cpp:2815`); `README.md:170` says NAV_RESUME continues. |
| `TurnsAreChecked` | `MCRouteExecutor`, as the run | The rover checks the sweep in three states that the executor never enters (`rover.cpp:821`) and otherwise reports it clear; the test at `test_route_executor.cpp:443` says that a turn with a blocked sweep is not commanded. |
| `WaypointsSuffice` | `RouteUpload`, as the run | A route without a fence is refused; the example at `PROTOCOL.md:219` has none. |
| `GoFenceIsItsOwn` | `RouteUpload`, as the run | Lines of an upload enter a GO that loop is filling the store for. |
| `HoldWaits` | `RoverSafety`, as the run | `setMode` permits motion at the next tick; `Safety.cpp:103` asks two seconds of any transition. |

## 4. What is proved

For `PiBridge`, for all clock widths, deadlines, skews and sets of frames that satisfy
the named assumptions (`PiBridgeSafety`, `PiBridge`). The timed results use
`ClockRangeAssumption`: no timeout or skew together with two periods of the task watchdog
reaches the width of the clock (milliseconds against 49 days); with a clock narrower than
that a stale command could look fresh again.

* `InductiveInvariant`: `Spec => []Inductive`, and from it `TypeCorrect`,
  `MachineConsistent`, `AuthorityHolds` (`MotionNeedsAuthority`) and `RelaysHold`
  (`RelaySafe`), all conjuncts of `Inductive`. These are not inductive alone. `Inductive` adds `MotionLicensed`
  (targets are non-zero only after an accepted CMD_VEL, and a handler that waits for a
  zero has revoked that), `AckMeansZero` (a zero that was acknowledged to a
  waiting handler is still in force, the fact that lets the handler answer),
  `BootUntilSetup` and `HelloRelaysOff`. One lemma per method of `SafetyMachine` (`...Good`)
  says what it preserves of the record; `TickStep`, `HandlerStep` and the others lift
  them to the steps of the tasks, and `NextStep` puts them together.
* `ArmingAtRest` (`ArmsAtRest`, which the runs check as part of `ImplementsAuthority`) and
  `LatchesReleasedAtRest`: action properties, from the
  invariant and from lemmas (`...Tame`) on which operators can arm or unlatch at all.
* `FirmwareImplementsAuthority`: `Spec => ImplementsAuthority`, the refinement of
  `DriveAuthority`. The lemmas `...Shown` say what each method of `SafetyMachine` changes of
  what the Pi is told, `TickShown` that a tick either changes nothing of it, enters a fault
  from ARMED, or loses the session. `HandlerAuthority`, `TickAuthority` and
  `OtherAuthority` then name the abstract step of each action. The invariant is needed at three
  places: an answer is `Answer` because of `AckMeansZero`; a tick that moves is `Move`
  because of `MotionLicensed`; ARM and the resets find the motors at rest because of
  `MotionNeedsAuthority`.
* `AuthoritySuffices`: from `DriveAuthority` alone, the motors turn between two handlers only
  with authority and on a command newer than the last answered frame that removes motion, and relays
  are on only where permitted. So a reader of the layers above needs that module only.
* `TimesHold`: `Spec => []TimedInductive`, which adds `Timed`, an invariant of the ages, to the first. While ARMED the
  reference of the command watchdog is as old as the true time since the last accepted frame
  (`AuthorityTimed`), as seen from the clock sample of the motor task that age is bounded by
  what it was at the last tick and one watchdog period, and the frame in hand is younger than
  the command it may replace. `RampTimed` is the subtle part: a ramp reference newer than the
  tick's own sample, whose age would wrap, comes with a command reference newer than the sample
  too, and that the watchdog takes for overdue before the ramp is moved. `OutputTimed` says
  that what runs was fresh when it was judged.
* `MotionStaysFresh` (`MotionIsFresh`) and `SlewStaysBounded` (`SlewBounded`), from
  `TimesHold` and `TickIsJudged`: a tick ends the authority, finds none, or moves the ramp on a
  command that is fresh and no newer than its sample.
* `WatchdogEarlyOnlyByRace` (`EarlyOnlyByRace`): a tick that enters CMD_VEL_TIMEOUT before the
  deadline took its clock sample before the command was stamped. `AuthorityTimed` gives the true
  age, `TimeoutIsDue` the age the tick saw; the two differ by more than the lag of the
  sample only if the subtraction wrapped.

For `SafetyNode`, for all sets of calls, modes and senders and all bounds:

* `NodeInductive`: `Spec => []Inductive`. `AuthorityJustified` needs that, while an
  ARM is in flight, whatever revoked it also moved the epoch; the latch property needs
  the same of a reset, and that a STATUS that shows the latch again moved the epoch too.
* `AuthorityIsJustified`, `MotionOnNewCommand`, `LatchesHold`.

For `RoverMotor`, for all tokens, sources and top speeds:

* `MotorInvariant`: `Spec => []Inductive`. What makes it inductive is `SnapshotGood`: while
  nobody commanded since the snapshot (`stale` is down), the snapshot agrees with the
  driver, and so a frame made from it is a step from the last one; `FrameIsCmd`
  allows for the zero that the TX task has decided and not yet sent.
* `MotorImplementsInterlock`: `Spec => ImplementsInterlock`. Each critical section of a
  caller is the abstract operation or a stutter; of the TX task, `TxForcedZero` is the
  abstract hard zero without a frame and `TxSend` the abstract frame.

For `Rover`, for any number of commands:

* `RoverLatchHasOwner`: inductive as it stands.
* `RoverSafetyStopsAutonomy`: with `ControlInv`, which adds that the driver is closed only
  when nothing drives, that the manual token goes with the manual source, and that the
  route is on its way to the motor only after Safety allowed it in the same pass.
* `RoverConsistent` (`Consistent`), with `ShownInv`: the mirror of the executor is true at every
  stage of the loop, not just between two passes.

For `Esp32Bridge`, for any set of calls, modes and safety states and any bounds, so also
for any number of failed writes, reconnections and lost sessions between the calls
(`BridgeRevoke` has none of them, `BridgeGate` one):

* `BridgeInvariant`: `Spec => []BridgeInv`. The argument looks at a thread through its
  destination (`Dest`), the point it reaches once its frames are written or have
  failed: `Sent`, `NotSent`, `StartDisconnect` and `FinishDisconnect` leave it alone, so the
  invariant has to follow the handlers only. `LocksInv` says at which destinations a
  thread may own `_motion_lock` (`MayOwn`) and must (`MustOwn`); `AuthInv` relates the
  flags of the authority; `RevokedInv` says that whatever revoked an ARM in flight also
  cancelled it, or is the control thread on its way to do so; `MatchInv` says which
  thread is going to close a gate that no longer fits the safety state; `FramesInv` says that
  a CMD_VEL is pending only in the hands of the owner of `_motion_lock`, and names what that
  lock therefore keeps true. From it `BridgeGateJustified`,
  `BridgeRevocationSticks` and `BridgeMotionNeedsFreshCommand`.
* `BridgeAnswers`: `Spec => []AnswerInv`, a second invariant on top of the first. A
  frame of the link names a request only while its entry in `_pending_acks` exists and has not
  been given up (`PendingInv`); an ARM that was written, and the authority it earned, survive
  the connection only until the thread that closed the port takes them away
  (`ConnectionInv`); a CMD_VEL made before a reconnection is stuck behind a thread that owns
  `_tx_lock` (`ReopenInv`). It is what `BridgeMotionMatchesSafety` needs: the gate may be open in
  the wrong mode while the port is closed, and the port may be opened again before the gate is
  cleared, but no CMD_VEL is written in between.

For `RouteExecutor`, for any plan, number of recoveries and corrections:

* `ExecutorInvariant`: `Spec => []ExecInv`, which relates the state, the purpose of the stop
  the executor is in, what it does after it, its timers and counters, and `rolling`; from it
  `ExecutorTypes` (`TypeOK`, in which the counters stay within the limits),
  `ExecutorModeChanges`, `ExecutorCornerStops` and `ExecutorMotionReopens`.

For `RouteUpload`, for any numbers of points, polygons and uploads:

* `RouteUploadInvariant`: `Spec => []UploadInv`, in which all that was stored since the last BEGIN
  comes from one upload, the polygons are a prefix of those announced, only the last may be
  incomplete, and a reservation excludes the writers; from it `RouteReadyIsWhole`,
  `RoutePolygonsAreWhole` and `RouteDrivenStands`.

For `RoverSafety` (in `FailsafeProofs`), for any timers, distance of ticks, and clock that is longer than the timers
and a tick (`SafetyAssumption`):

* `RoverSkyIsHeld` and `RoverRecoveryIsEarned`, from `SafetyInv`, which relates the two stamps
  and their sentinel 0 to the true durations: a stamp is the clock of that duration ago
  modulo `ClockMod`, or the duration has passed its limit.

For `Robot` (in `FailsafeProofs`):

* `RobotFailsafeIsStopping` (`FailsafeIsStopping`), for any values of the constants. `FailsafeInv`
  adds what the callback under way has still to write: one that moves the
  wheels writes the flag before them, and once it has come to the wheels the flag is
  down or the failsafe has crossed it (`TakenBack`); between the two zeros of the failsafe the left
  wheel is at rest already (`HalfStopped`).
* `ClampsNeverBind`, for any limits and any moves within them: targets, wheels and frames stay in
  their ranges by the arithmetic alone. It justifies that `Robot` leaves out the clamps of
  `drive` and `updateRamp` (`sound.ino:271` to `285`, `307` to `322`).

Each of these invariants was checked by TLC as an invariant of the run of its module before it
was proved, `BridgeInv` and `AnswerInv` also in an instance with four kinds of call and a
failure.

Every invariant and every action property without fairness that a run checks is also
stated by a theorem. Only model-checked is liveness, which is outside what the prover
handles: `SilenceStopsMotors` and `StopReachesMotors` of `PiBridge`, `StrayArmRemoved` of `SafetyNode`, `SilenceStopsWheels` of
`RoverMotor`, `StopServed`, `DisconnectStops` and `SessionIsBounded` of `Rover`, and the
liveness properties of `Robot`, `RouteExecutor` and `RoverSafety` in section 3.

## 5. Not modelled, and what comes next

Next, most important first:

1. `Gateway`: manual ownership, its timeout, disconnects, the coalescing of STOP while a
   call is pending, and the route store against the published route.
2. `PiBridgeLink`: the circular sequence gate and the ARM nonce over a link that
   loses, duplicates and reorders, with a session restart on either side.
3. A composition of `SafetyNode` and `Esp32Bridge` over their shared services, with
   `DriveAuthority` for the firmware, in which the delayed forced DISARM after a
   handshake is visible.
4. `FrameStream`: the decoder as a function on bounded inputs, against a
   reference that splits the stream at delimiters.
5. Proofs: the refinement that item 3 calls for, and the invariants of items 1 and 2.

Left out for good: floating-point estimators and geometry (no exact reference in
integers), the app's widgets, the simulator, bench scripts and the WAV player. Of
the rover's `rover.cpp` about two thirds are diagnostics, tuning and printing without
an effect on who drives, and functions that nothing calls.
