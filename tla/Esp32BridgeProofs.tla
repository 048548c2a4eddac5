------------------------- MODULE Esp32BridgeProofs -------------------------
(***************************************************************************)
(* Proofs about module Esp32Bridge: its two locks are given back on every  *)
(* path, the gate to motion is open only with a reason, and no CMD_VEL is  *)
(* written that a revocation, a STOP or the safety node should have        *)
(* stopped.                                                                *)
(*                                                                         *)
(* The argument looks at a thread through its destination: the program     *)
(* point it reaches once its frames are written, or have failed.  Writing  *)
(* a frame, failing to and disconnecting leave every destination alone, so *)
(* that the invariant only has to follow the handlers.                     *)
(***************************************************************************)
EXTENDS Esp32Bridge, FiniteSets, SequenceTheorems, TLAPS

FrameTypes ==
  {"HELLO", "DISARM", "STOP", "ESTOP", "CMD_VEL", "ARM", "RESET", "RELAY"}

Frames == [type : FrameTypes, tag : Waiters \cup {"none"}, moving : BOOLEAN]

\* The points a thread can be sent to; "lost" is left to HandleStatus, which
\* also says where to go on from there.
Stops == Pcs \ {"send", "lost"}

StatusStops == {"status_latched", "status_armed", "status_disarmed"}

\* The points a thread can go on at when its frames are done with.
Ends == Stops \ {"disconnect", "opened"}

ThreadRecs ==
  [pc : Pcs, todo : Seq(Frames), then : Ends, sent : BOOLEAN]

Sending(r) == r.todo # <<>>

\* Where a thread in state r is when its frames are done with.
Dest(r) == IF Sending(r) THEN r.then ELSE r.pc

\* Frames are pending exactly from the decision to send them until they are
\* written or have failed.
Shape(r) ==
  /\ r.pc = "send" => Sending(r)
  /\ Sending(r) => r.pc \in {"send", "disconnect"}
  /\ r.pc = "lost" => r.then \in StatusStops

\* What a thread in state r does with _motion_lock when it owns it.
MayOwn(r) ==
  /\ Dest(r) \in {"idle", "clear", "wait", "armed"}
  /\ Dest(r) = "idle" => Sending(r)

\* The thread waits for an answer, or for its keepalive, inside _motion_lock.
MustOwn(r) == Dest(r) \in {"wait", "armed"}

AuthRecs ==
  [arming : BOOLEAN, in_progress : BOOLEAN, ack : BOOLEAN,
   mode : {"none", "manual", "auto"}, esp_armed : BOOLEAN, open : BOOLEAN,
   cmd : {"none", "fresh", "stale"}, stop_sent : BOOLEAN]

TypesInv ==
  /\ auth \in AuthRecs
  /\ th \in [Threads -> ThreadRecs]
  /\ wire \in Seq(Frames)
  /\ motion \in Threads \cup {"none"}
  /\ tx \in Threads \cup {"none"}

LocksInv ==
  \A t \in Threads :
    /\ Shape(th[t])
    /\ tx = t => At(t, "disconnect")
    /\ motion = t => MayOwn(th[t])
    /\ MustOwn(th[t]) => motion = t

\* The authority by itself.
AuthInv ==
  /\ auth.ack => auth.arming /\ ~auth.in_progress
  /\ auth.open => auth.ack /\ auth.esp_armed /\ ~status.latched
  /\ auth.cmd # "none" => commanded

\* The control thread has announced a revocation and is going to clear.
Revoking == motion = "control" /\ Dest(th["control"]) = "clear"

ArmPending == Dest(th["service"]) \in {"arm_wait", "arm_answered"}

RevokedInv ==
  /\ ArmPending => ~auth.ack
  /\ revoked => cancelled \/ Revoking
  /\ revoked /\ auth.ack => Revoking

Matching == safety = ExpectedState(auth.mode)

\* An open gate that does not fit the safety state is about to be closed.
MatchInv ==
  auth.open /\ ~Matching =>
    Revoking \/ ~port \/ At("io", "opened")

\* A CMD_VEL is pending only inside _motion_lock, under an authority that
\* lasts as long as the lock is held.
FrameOK(t) ==
  \A i \in 1 .. Len(th[t].todo) :
    th[t].todo[i].type = "CMD_VEL" =>
      /\ i = 1
      /\ motion = t
      /\ ~revoked
      /\ th[t].todo[i].moving =>
           /\ t = "command"
           /\ auth.open /\ auth.cmd # "none"

\* Only the command timer sends a velocity other than zero, and only as a
\* CMD_VEL.
FramesInv == \A t \in Threads : FrameOK(t)

BridgeInv ==
  /\ TypesInv /\ LocksInv /\ AuthInv /\ RevokedInv /\ MatchInv /\ FramesInv

-----------------------------------------------------------------------------
(* The records of the threads                                              *)

\* What Go and SendThen leave of a thread.
Stopped(pc) == [pc |-> pc, todo |-> <<>>, then |-> "idle", sent |-> FALSE]

Sends(frames, pc) ==
  [pc |-> "send", todo |-> frames, then |-> pc, sent |-> FALSE]

\* Frames without a CMD_VEL among them.
NoVelocity(frames) ==
  \A i \in 1 .. Len(frames) : frames[i].type # "CMD_VEL"

\* Frames that ask for no answer.
Untagged(frames) == \A i \in 1 .. Len(frames) : frames[i].tag = "none"

\* Frames as handlers make them have their type.
LEMMA FrameTypesHold ==
  ASSUME NEW type \in FrameTypes, NEW tag \in Waiters \cup {"none"}
  PROVE  /\ Frame(type, tag) \in Frames
         /\ Frame(type, tag).type = type
         /\ Frame(type, tag).tag = tag
         /\ Frame(type, tag).moving = FALSE
  BY DEF Frame, Frames

LEMMA PlainFrames ==
  ASSUME NEW type \in FrameTypes
  PROVE  /\ Plain(type) \in Frames
         /\ Plain(type).type = type
         /\ Plain(type).moving = FALSE
<1>1. "none" \in Waiters \cup {"none"}
  OBVIOUS
<1> QED
  BY <1>1, FrameTypesHold DEF Plain

\* One or two frames to send.
LEMMA OneFrame ==
  ASSUME NEW f \in Frames
  PROVE  /\ <<f>> \in Seq(Frames) /\ Len(<<f>>) = 1
         /\ <<f>>[1] = f /\ <<f>> # <<>>
  OBVIOUS

LEMMA TwoFrames ==
  ASSUME NEW f \in Frames, NEW g \in Frames
  PROVE  /\ <<f, g>> \in Seq(Frames) /\ Len(<<f, g>>) = 2
         /\ <<f, g>>[1] = f /\ <<f, g>>[2] = g /\ <<f, g>> # <<>>
  OBVIOUS

\* The end of a handler, or the way to its next critical section.
LEMMA StoppedShape ==
  ASSUME NEW pc \in Stops
  PROVE  /\ Stopped(pc) \in ThreadRecs
         /\ Stopped(pc).pc = pc /\ Stopped(pc).todo = <<>>
         /\ ~Sending(Stopped(pc)) /\ Dest(Stopped(pc)) = pc
         /\ Shape(Stopped(pc))
<1>1. <<>> \in Seq(Frames)
  OBVIOUS
<1>2. "idle" \in Ends
  BY DEF Ends, Stops, Pcs
<1>3. /\ Stopped(pc).pc = pc /\ Stopped(pc).todo = <<>>
      /\ Stopped(pc).pc \notin {"send", "lost"}
  BY DEF Stopped, Stops
<1>4. Stopped(pc) \in ThreadRecs
  BY <1>1, <1>2 DEF Stopped, ThreadRecs, Stops
<1> QED
  BY <1>3, <1>4 DEF Sending, Dest, Shape

\* A handler that has frames to send first.
LEMMA SendsShape ==
  ASSUME NEW pc \in Ends, NEW frames \in Seq(Frames), frames # <<>>
  PROVE  /\ Sends(frames, pc) \in ThreadRecs
         /\ Sends(frames, pc).pc = "send" /\ Sends(frames, pc).todo = frames
         /\ Sending(Sends(frames, pc)) /\ Dest(Sends(frames, pc)) = pc
         /\ Shape(Sends(frames, pc))
<1>1. "send" \in Pcs
  BY DEF Pcs
<1>2. /\ Sends(frames, pc).pc = "send" /\ Sends(frames, pc).todo = frames
      /\ Sends(frames, pc).then = pc
  BY DEF Sends
<1>3. Sends(frames, pc) \in ThreadRecs
  BY <1>1 DEF Sends, ThreadRecs
<1> QED
  BY <1>2, <1>3 DEF Sending, Dest, Shape

LEMMA IdleAt ==
  ASSUME NEW pc
  PROVE  [Idle EXCEPT !.pc = pc] = Stopped(pc)
<1>1. PICK none : none = <<>>
  OBVIOUS
<1>2. PICK no : no = FALSE
  OBVIOUS
<1>3. Idle = [pc |-> "idle", todo |-> none, then |-> "idle", sent |-> no]
  BY <1>1, <1>2, Zenon DEF Idle
<1>4. Stopped(pc) = [pc |-> pc, todo |-> none, then |-> "idle", sent |-> no]
  BY <1>1, <1>2, Zenon DEF Stopped
<1>5. [[pc |-> "idle", todo |-> none, then |-> "idle", sent |-> no]
          EXCEPT !.pc = pc]
        = [pc |-> pc, todo |-> none, then |-> "idle", sent |-> no]
  OBVIOUS
<1> QED
  BY <1>3, <1>4, <1>5

LEMMA GoIs ==
  ASSUME NEW t, NEW pc
  PROVE  Go(t, pc) = [th EXCEPT ![t] = Stopped(pc)]
  BY IdleAt DEF Go

LEMMA SendThenIs ==
  ASSUME NEW t, NEW pc, NEW frames, frames # <<>>
  PROVE  SendThen(t, frames, pc) = [th EXCEPT ![t] = Sends(frames, pc)]
  BY DEF SendThen, Sends

-----------------------------------------------------------------------------
(* A step of one thread                                                    *)

\* Thread t goes on as r; the locks of the others stay where they are.
Moves(t, r) ==
  /\ r \in ThreadRecs /\ Shape(r)
  /\ th' = [th EXCEPT ![t] = r]
  /\ motion' \in Threads \cup {"none"}
  /\ \A u \in Threads \ {t} : motion' = u <=> motion = u
  /\ motion' = t => MayOwn(r)
  /\ MustOwn(r) => motion' = t
  /\ tx' \in Threads \cup {"none"}
  /\ \A u \in Threads \ {t} : tx' = u <=> tx = u
  /\ tx' = t => r.pc = "disconnect"

\* The frames r has to send, with the authority they need.
FramesGo(t, r) ==
  \A i \in 1 .. Len(r.todo) :
    r.todo[i].type = "CMD_VEL" =>
      /\ i = 1
      /\ motion' = t
      /\ ~revoked'
      /\ r.todo[i].moving =>
           /\ t = "command"
           /\ auth'.open /\ auth'.cmd # "none"

LEMMA MovesThreads ==
  ASSUME TypesInv, NEW t \in Threads, NEW r, Moves(t, r)
  PROVE  /\ th' \in [Threads -> ThreadRecs]
         /\ th'[t] = r
         /\ \A u \in Threads \ {t} : th'[u] = th[u]
  BY DEF TypesInv, Moves

LEMMA MovesKeepLocks ==
  ASSUME TypesInv, LocksInv, NEW t \in Threads, NEW r, Moves(t, r)
  PROVE  LocksInv'
<1>1. /\ th'[t] = r
      /\ \A u \in Threads \ {t} : th'[u] = th[u]
  BY MovesThreads
<1>2. ASSUME NEW u \in Threads
      PROVE  /\ Shape(th'[u])
             /\ tx' = u => th'[u].pc = "disconnect"
             /\ motion' = u => MayOwn(th'[u])
             /\ MustOwn(th'[u]) => motion' = u
  <2>1. CASE u = t
    BY <1>1, <2>1 DEF Moves
  <2>2. CASE u # t
    <3>1. /\ th'[u] = th[u]
          /\ motion' = u <=> motion = u
          /\ tx' = u <=> tx = u
      BY <1>1, <2>2 DEF Moves
    <3>2. /\ Shape(th[u])
          /\ tx = u => th[u].pc = "disconnect"
          /\ motion = u => MayOwn(th[u])
          /\ MustOwn(th[u]) => motion = u
      BY DEF LocksInv, At
    <3> QED
      BY <3>1, <3>2
  <2> QED
    BY <2>1, <2>2
<1> QED
  BY <1>2 DEF LocksInv, At, Shape, MayOwn, MustOwn, Dest, Sending

\* The frames of the others stand when t could take _motion_lock, or changes
\* neither the authority nor the revocation.
LEMMA MovesKeepFrames ==
  ASSUME TypesInv, FramesInv, NEW t \in Threads, NEW r, Moves(t, r),
         FramesGo(t, r),
         \/ CanLock(t)
         \/ UNCHANGED <<auth, revoked>>
  PROVE  FramesInv'
<1>1. /\ th'[t] = r
      /\ \A u \in Threads \ {t} : th'[u] = th[u]
  BY MovesThreads
<1>2. ASSUME NEW u \in Threads, NEW i \in 1 .. Len(th'[u].todo),
             th'[u].todo[i].type = "CMD_VEL"
      PROVE  /\ i = 1
             /\ motion' = u
             /\ ~revoked'
             /\ th'[u].todo[i].moving =>
                  /\ u = "command"
                  /\ auth'.open /\ auth'.cmd # "none"
  <2>1. CASE u = t
    BY <1>1, <1>2, <2>1 DEF FramesGo
  <2>2. CASE u # t
    <3>1. th'[u] = th[u] /\ (motion' = u <=> motion = u)
      BY <1>1, <2>2 DEF Moves
    <3>2. /\ i = 1
          /\ motion = u
          /\ ~revoked
          /\ th[u].todo[i].moving =>
               /\ u = "command"
               /\ auth.open /\ auth.cmd # "none"
      BY <1>2, <3>1 DEF FramesInv, FrameOK
    <3>3. ~CanLock(t)
      BY <2>2, <3>2 DEF CanLock, Threads
    <3>4. UNCHANGED <<auth, revoked>>
      BY <3>3
    <3> QED
      BY <3>1, <3>2, <3>4
  <2> QED
    BY <2>1, <2>2
<1> QED
  BY <1>2 DEF FramesInv, FrameOK

\* The parts of the invariant, put together.
LEMMA StepKeeps ==
  ASSUME BridgeInv, NEW t \in Threads, NEW r, Moves(t, r), FramesGo(t, r),
         \/ CanLock(t)
         \/ UNCHANGED <<auth, revoked>>,
         auth' \in AuthRecs, wire' \in Seq(Frames),
         AuthInv', RevokedInv', MatchInv'
  PROVE  BridgeInv'
<1>1. TypesInv'
  BY MovesThreads DEF BridgeInv, TypesInv, Moves
<1>2. LocksInv'
  BY MovesKeepLocks DEF BridgeInv
<1>3. FramesInv'
  BY MovesKeepFrames DEF BridgeInv
<1> QED
  BY <1>1, <1>2, <1>3 DEF BridgeInv

LEMMA ArmPendingKept ==
  ASSUME TypesInv, NEW t \in Threads, NEW r, Moves(t, r),
         t = "service" /\ Dest(r) \in {"arm_wait", "arm_answered"}
           => ArmPending
  PROVE  ArmPending' => ArmPending
<1>1. /\ th'[t] = r
      /\ \A u \in Threads \ {t} : th'[u] = th[u]
  BY MovesThreads
<1>2. CASE t = "service"
  BY <1>1, <1>2 DEF ArmPending, Dest, Sending
<1>3. CASE t # "service"
  <2>1. th'["service"] = th["service"]
    BY <1>1, <1>3 DEF Threads
  <2> QED
    BY <2>1 DEF ArmPending, Dest, Sending
<1> QED
  BY <1>2, <1>3

\* A handler that changes neither the authority nor what it depends on.
LEMMA QuietStep ==
  ASSUME BridgeInv, NEW t \in Threads, NEW r, Moves(t, r), FramesGo(t, r),
         UNCHANGED <<auth, cancelled, commanded, revoked, status, safety,
                     port, tx>>,
         wire' \in Seq(Frames),
         t = "io" => th[t].pc # "opened",
         t = "service" /\ Dest(r) \in {"arm_wait", "arm_answered"}
           => ArmPending,
         t = "control" /\ Revoking
           => motion' = "control" /\ Dest(r) = "clear"
  PROVE  BridgeInv'
<1>1. /\ th'[t] = r
      /\ \A u \in Threads \ {t} : th'[u] = th[u]
  BY MovesThreads DEF BridgeInv
<1>2. /\ {"io", "control", "service"} \subseteq Threads
      /\ \A u \in Threads \ {t} : motion' = u <=> motion = u
  BY DEF Moves, Threads
<1>3. Revoking => Revoking'
  <2>1. CASE t = "control"
    BY <1>1, <2>1 DEF Revoking, Dest, Sending
  <2>2. CASE t # "control"
    <3>1. /\ th'["control"] = th["control"]
          /\ motion' = "control" <=> motion = "control"
      BY <1>1, <1>2, <2>2
    <3> QED
      BY <3>1 DEF Revoking, Dest, Sending
  <2> QED
    BY <2>1, <2>2
<1>4. ArmPending' => ArmPending
  BY ArmPendingKept DEF BridgeInv
<1>5. th["io"].pc = "opened" => th'["io"] = th["io"]
  BY <1>1, <1>2
<1>6. AuthInv'
  BY DEF BridgeInv, AuthInv
<1>7. RevokedInv'
  BY <1>3, <1>4 DEF BridgeInv, RevokedInv
<1>8. MatchInv'
  <2>1. UNCHANGED <<auth, safety, port>>
    OBVIOUS
  <2>2. At("io", "opened") => At("io", "opened")'
    BY <1>5 DEF At
  <2>3. Matching' <=> Matching
    BY <2>1 DEF Matching, ExpectedState
  <2> QED
    BY <1>3, <2>1, <2>2, <2>3 DEF BridgeInv, MatchInv
<1>9. auth' \in AuthRecs
  BY DEF BridgeInv, TypesInv
<1> QED
  BY <1>6, <1>7, <1>8, <1>9, StepKeeps

\* A handler that drops the authority.
LEMMA ClearStep ==
  ASSUME BridgeInv, NEW t \in Threads, NEW r, Moves(t, r),
         CanLock(t),
         auth' \in AuthRecs, wire' \in Seq(Frames),
         ~auth'.open, ~auth'.ack, auth'.cmd = "none",
         revoked' => cancelled',
         NoVelocity(r.todo)
  PROVE  BridgeInv'
<1>1. AuthInv'
  BY DEF AuthInv
<1>2. RevokedInv'
  BY DEF RevokedInv
<1>3. MatchInv'
  BY DEF MatchInv
<1>4. FramesGo(t, r)
  BY DEF NoVelocity, FramesGo
<1> QED
  BY <1>1, <1>2, <1>3, <1>4, StepKeeps

\* A thread between two critical sections owns no lock.
LEMMA FreeThread ==
  ASSUME TypesInv, LocksInv, NEW t \in Threads,
         th[t].pc \notin {"send", "disconnect", "clear", "wait", "armed"}
  PROVE  /\ motion # t /\ tx # t
         /\ ~Sending(th[t]) /\ Dest(th[t]) = th[t].pc
         /\ CanLock(t) => motion = "none"
<1>1. /\ Shape(th[t])
      /\ tx = t => th[t].pc = "disconnect"
      /\ motion = t => MayOwn(th[t])
  BY DEF LocksInv, At
<1>2. ~Sending(th[t]) /\ Dest(th[t]) = th[t].pc
  BY <1>1 DEF Shape, Dest
<1> QED
  BY <1>1, <1>2 DEF MayOwn, CanLock

\* The control thread is not revoking when it owns no lock.
LEMMA FreeMeansNotRevoking ==
  ASSUME TypesInv, LocksInv, NEW t \in Threads,
         th[t].pc \notin {"send", "disconnect", "clear", "wait", "armed"},
         CanLock(t)
  PROVE  ~Revoking
<1>1. motion = "none"
  BY FreeThread
<1> QED
  BY <1>1 DEF Revoking

\* A handler ends, or leaves _motion_lock for its next critical section.
LEMMA GoMovesAnyTx ==
  ASSUME TypesInv, NEW t \in Threads, NEW pc \in Stops \ {"wait", "armed"},
         th' = Go(t, pc),
         tx' \in Threads \cup {"none"}, tx' # t,
         \A u \in Threads \ {t} : tx' = u <=> tx = u,
         \/ motion' = motion /\ motion # t
         \/ motion' = "none" /\ CanLock(t)
  PROVE  /\ Moves(t, Stopped(pc))
         /\ FramesGo(t, Stopped(pc)) /\ NoVelocity(Stopped(pc).todo)
         /\ Dest(Stopped(pc)) = pc
<1>1. /\ Stopped(pc) \in ThreadRecs
      /\ Stopped(pc).pc = pc /\ Stopped(pc).todo = <<>>
      /\ ~Sending(Stopped(pc)) /\ Dest(Stopped(pc)) = pc
      /\ Shape(Stopped(pc))
  BY StoppedShape
<1>2. th' = [th EXCEPT ![t] = Stopped(pc)]
  BY GoIs
<1>3. /\ motion' \in Threads \cup {"none"}
      /\ \A u \in Threads \ {t} : motion' = u <=> motion = u
      /\ motion' # t
  BY DEF TypesInv, CanLock, Threads
<1>4. ~MustOwn(Stopped(pc))
  BY <1>1 DEF MustOwn
<1>5. Moves(t, Stopped(pc))
  BY <1>1, <1>2, <1>3, <1>4 DEF Moves
<1>6. Len(Stopped(pc).todo) = 0
  BY <1>1
<1> QED
  BY <1>1, <1>5, <1>6 DEF FramesGo, NoVelocity

LEMMA GoMoves ==
  ASSUME TypesInv, NEW t \in Threads, NEW pc \in Stops \ {"wait", "armed"},
         th' = Go(t, pc), tx' = tx, tx # t,
         \/ motion' = motion /\ motion # t
         \/ motion' = "none" /\ CanLock(t)
  PROVE  /\ Moves(t, Stopped(pc))
         /\ FramesGo(t, Stopped(pc)) /\ NoVelocity(Stopped(pc).todo)
         /\ Dest(Stopped(pc)) = pc
<1>1. /\ tx' \in Threads \cup {"none"} /\ tx' # t
      /\ \A u \in Threads \ {t} : tx' = u <=> tx = u
  BY DEF TypesInv
<1> QED
  BY <1>1, GoMovesAnyTx

\* A handler sends frames, inside or outside _motion_lock.
LEMMA SendMoves ==
  ASSUME TypesInv, NEW t \in Threads, NEW pc \in Ends,
         NEW frames \in Seq(Frames), frames # <<>>,
         th' = SendThen(t, frames, pc), tx' = tx, tx # t,
         \/ motion' = motion /\ motion # t /\ pc \notin {"wait", "armed"}
         \/ /\ motion' = t /\ CanLock(t)
            /\ pc \in {"idle", "clear", "wait", "armed"}
  PROVE  /\ Moves(t, Sends(frames, pc))
         /\ Dest(Sends(frames, pc)) = pc
         /\ Sends(frames, pc).todo = frames
<1>1. /\ Sends(frames, pc) \in ThreadRecs
      /\ Sends(frames, pc).pc = "send" /\ Sends(frames, pc).todo = frames
      /\ Sending(Sends(frames, pc)) /\ Dest(Sends(frames, pc)) = pc
      /\ Shape(Sends(frames, pc))
  BY SendsShape
<1>2. th' = [th EXCEPT ![t] = Sends(frames, pc)]
  BY SendThenIs
<1>3. /\ motion' \in Threads \cup {"none"}
      /\ \A u \in Threads \ {t} : motion' = u <=> motion = u
      /\ tx' \in Threads \cup {"none"}
      /\ \A u \in Threads \ {t} : tx' = u <=> tx = u
      /\ tx' # t
  BY DEF TypesInv, CanLock, Threads
<1>4. motion' = t => MayOwn(Sends(frames, pc))
  BY <1>1 DEF MayOwn
<1>5. MustOwn(Sends(frames, pc)) => motion' = t
  BY <1>1 DEF MustOwn
<1> QED
  BY <1>1, <1>2, <1>3, <1>4, <1>5 DEF Moves

\* A single frame that is no CMD_VEL.
LEMMA OneMoves ==
  ASSUME TypesInv, NEW t \in Threads, NEW pc \in Ends,
         NEW f \in Frames, f.type # "CMD_VEL",
         th' = SendThen(t, <<f>>, pc), tx' = tx, tx # t,
         \/ motion' = motion /\ motion # t /\ pc \notin {"wait", "armed"}
         \/ /\ motion' = t /\ CanLock(t)
            /\ pc \in {"idle", "clear", "wait", "armed"}
  PROVE  /\ Moves(t, Sends(<<f>>, pc))
         /\ FramesGo(t, Sends(<<f>>, pc))
         /\ NoVelocity(Sends(<<f>>, pc).todo)
         /\ Dest(Sends(<<f>>, pc)) = pc
<1>1. <<f>> \in Seq(Frames) /\ <<f>> # <<>> /\ Len(<<f>>) = 1 /\ <<f>>[1] = f
  BY OneFrame
<1>2. /\ Moves(t, Sends(<<f>>, pc))
      /\ Dest(Sends(<<f>>, pc)) = pc
      /\ Sends(<<f>>, pc).todo = <<f>>
  BY <1>1, SendMoves
<1>3. NoVelocity(<<f>>)
  BY <1>1 DEF NoVelocity
<1> QED
  BY <1>2, <1>3 DEF FramesGo, NoVelocity

-----------------------------------------------------------------------------
(* The serial link                                                         *)

\* The tail of the frames to send.
LEMMA RestOfFrames ==
  ASSUME NEW q \in Seq(Frames), q # <<>>
  PROVE  /\ Head(q) \in Frames /\ Head(q) = q[1]
         /\ Tail(q) \in Seq(Frames) /\ 1 \in 1 .. Len(q)
         /\ \A j \in 1 .. Len(Tail(q)) :
              Tail(q)[j] = q[j + 1] /\ j + 1 \in 1 .. Len(q) /\ j + 1 # 1
  OBVIOUS

\* Going on after a frame leaves the destination of the thread alone.
LEMMA ContinueMoves ==
  ASSUME TypesInv, LocksInv, FramesInv, NEW t \in Threads,
         NEW sent \in BOOLEAN,
         Sending(th[t]),
         Continue(t, sent),
         tx' \in Threads \cup {"none"}, tx' # t,
         \A u \in Threads \ {t} : tx' = u <=> tx = u
  PROVE  \E r : /\ Moves(t, r) /\ FramesGo(t, r) /\ NoVelocity(r.todo)
                /\ Dest(r) = Dest(th[t])
                /\ motion = t /\ motion' # t => Dest(r) = "idle"
                /\ r.todo = Tail(th[t].todo)
                /\ IF Sending(r) THEN r.then = th[t].then /\ r.pc = "send"
                   ELSE r.pc = th[t].then
<1> DEFINE rest == Tail(th[t].todo)
           next == IF rest = <<>> THEN th[t].then ELSE "send"
<1>1. /\ th[t] \in ThreadRecs
      /\ th[t].todo \in Seq(Frames) /\ th[t].then \in Ends
      /\ th[t].then \notin {"send", "disconnect", "lost", "opened"}
      /\ th[t].then \in Stops
      /\ th[t].todo # <<>>
      /\ Dest(th[t]) = th[t].then
  BY DEF TypesInv, ThreadRecs, Ends, Stops, Sending, Dest
<1>2. /\ motion = t => MayOwn(th[t])
      /\ MustOwn(th[t]) => motion = t
  BY DEF LocksInv
<1>3. NoVelocity(rest) /\ rest \in Seq(Frames)
  <2>1. /\ rest \in Seq(Frames)
        /\ \A j \in 1 .. Len(rest) :
             /\ rest[j] = th[t].todo[j + 1]
             /\ j + 1 \in 1 .. Len(th[t].todo) /\ j + 1 # 1
    BY <1>1, RestOfFrames
  <2>2. \A i \in 1 .. Len(th[t].todo) :
          th[t].todo[i].type = "CMD_VEL" => i = 1
    BY DEF FramesInv, FrameOK
  <2> QED
    BY <2>1, <2>2 DEF NoVelocity
<1>4. /\ th' = IF next = "send"
               THEN [th EXCEPT ![t].todo = rest, ![t].pc = "send"]
               ELSE [Go(t, next) EXCEPT ![t].sent = sent /\ next # "idle"]
      /\ motion' = IF next = "idle" /\ motion = t THEN "none" ELSE motion
  BY DEF Continue
<1>5. /\ motion' \in Threads \cup {"none"}
      /\ \A u \in Threads \ {t} : motion' = u <=> motion = u
      /\ motion' = t => motion = t /\ next # "idle"
      /\ motion = t /\ next # "idle" => motion' = t
      /\ motion = t /\ motion' # t => next = "idle"
  <2> HIDE DEF next
  <2>1. CASE next = "idle" /\ motion = t
    BY <1>4, <2>1 DEF TypesInv, Threads
  <2>2. CASE ~(next = "idle" /\ motion = t)
    BY <1>4, <2>2 DEF TypesInv
  <2> QED
    BY <2>1, <2>2
<1>6. CASE rest # <<>>
  <2> DEFINE r == [th[t] EXCEPT !.todo = rest, !.pc = "send"]
  <2>1. next = "send"
    BY <1>6
  <2>2. th' = [th EXCEPT ![t] = r]
    BY <1>4, <2>1
  <2>3. "send" \in Pcs
    BY DEF Pcs
  <2>4. r \in ThreadRecs
    BY <1>1, <1>3, <2>3 DEF ThreadRecs
  <2>5. r.todo = rest /\ r.pc = "send" /\ r.then = th[t].then
    BY <1>1 DEF ThreadRecs
  <2> HIDE DEF r
  <2>6. Sending(r) /\ Shape(r) /\ Dest(r) = th[t].then
    BY <1>6, <2>5 DEF Sending, Shape, Dest
  <2>7. motion' = t => MayOwn(r)
    BY <1>1, <1>2, <1>5, <2>6 DEF MayOwn
  <2>8. MustOwn(r) => motion' = t
    BY <1>1, <1>2, <1>5, <2>1, <2>6 DEF MustOwn
  <2>9. Moves(t, r)
    BY <1>5, <2>2, <2>4, <2>6, <2>7, <2>8 DEF Moves
  <2>10. NoVelocity(r.todo) /\ FramesGo(t, r)
    BY <1>3, <2>5 DEF NoVelocity, FramesGo
  <2>11. motion = t /\ motion' # t => Dest(r) = "idle"
    BY <1>5, <2>1
  <2> QED
    BY <1>1, <2>5, <2>6, <2>9, <2>10, <2>11
<1>7. CASE rest = <<>>
  <2>1. next = th[t].then
    BY <1>7
  <2> DEFINE r == [Stopped(next) EXCEPT !.sent = sent /\ next # "idle"]
  <2>2. /\ Stopped(next) \in ThreadRecs
        /\ Stopped(next).pc = next /\ Stopped(next).todo = <<>>
    BY <1>1, <2>1, StoppedShape
  <2>3. th' = [th EXCEPT ![t] = r]
    <3>1. th' = [Go(t, next) EXCEPT ![t].sent = sent /\ next # "idle"]
      BY <1>1, <1>4, <2>1
    <3>2. Go(t, next) = [th EXCEPT ![t] = Stopped(next)]
      BY GoIs
    <3>3. th \in [Threads -> ThreadRecs]
      BY DEF TypesInv
    <3> HIDE DEF next
    <3>4. [[th EXCEPT ![t] = Stopped(next)] EXCEPT
             ![t].sent = sent /\ next # "idle"]
          = [th EXCEPT ![t] = [Stopped(next) EXCEPT
                                 !.sent = sent /\ next # "idle"]]
      BY <2>2, <3>3
    <3> QED
      BY <3>1, <3>2, <3>4
  <2>4. (sent /\ next # "idle") \in BOOLEAN
    OBVIOUS
  <2>5. r \in ThreadRecs /\ r.todo = <<>> /\ r.pc = next
    <3> HIDE DEF next
    <3>1. r \in ThreadRecs
      BY <2>2, <2>4 DEF ThreadRecs
    <3>2. r.todo = Stopped(next).todo /\ r.pc = Stopped(next).pc
      BY <2>2 DEF ThreadRecs
    <3> QED
      BY <2>2, <3>1, <3>2
  <2> HIDE DEF r
  <2>6. ~Sending(r) /\ Shape(r) /\ Dest(r) = th[t].then
    BY <1>1, <2>1, <2>5 DEF Sending, Shape, Dest
  <2>7. motion' = t => MayOwn(r)
    BY <1>1, <1>2, <1>5, <2>1, <2>6 DEF MayOwn
  <2>8. MustOwn(r) => motion' = t
    BY <1>1, <1>2, <1>5, <2>1, <2>6 DEF MustOwn
  <2>9. Moves(t, r)
    BY <1>5, <2>3, <2>5, <2>6, <2>7, <2>8 DEF Moves
  <2>10. NoVelocity(r.todo) /\ FramesGo(t, r)
    <3>1. Len(r.todo) = 0
      BY <2>5
    <3> QED
      BY <3>1 DEF NoVelocity, FramesGo
  <2>11. motion = t /\ motion' # t => Dest(r) = "idle"
    BY <1>5, <2>1, <2>6
  <2> QED
    BY <1>1, <1>7, <2>1, <2>5, <2>6, <2>9, <2>10, <2>11
<1> QED
  BY <1>6, <1>7

LEMMA NoAuthType ==
  /\ NoAuth \in AuthRecs
  /\ ~NoAuth.open /\ ~NoAuth.ack /\ NoAuth.cmd = "none"
  BY DEF NoAuth, AuthRecs

LEMMA ClearedType ==
  ASSUME auth \in AuthRecs
  PROVE  /\ Cleared \in AuthRecs
         /\ ~Cleared.open /\ ~Cleared.ack /\ Cleared.cmd = "none"
         /\ ~Cleared.in_progress
<1>1. NoAuth \in AuthRecs /\ auth.stop_sent \in BOOLEAN
  BY NoAuthType DEF AuthRecs
<1>2. Cleared \in AuthRecs
  BY <1>1 DEF Cleared, AuthRecs
<1>3. /\ Cleared.open = NoAuth.open /\ Cleared.ack = NoAuth.ack
      /\ Cleared.cmd = NoAuth.cmd /\ Cleared.in_progress = NoAuth.in_progress
  BY <1>1 DEF Cleared, AuthRecs
<1>4. ~NoAuth.in_progress
  BY DEF NoAuth
<1> QED
  BY <1>2, <1>3, <1>4, NoAuthType

\* A frame is written, or the port is closed.
LEMMA WritingKeeps ==
  ASSUME BridgeInv, NEW t \in Threads, Sent(t) \/ NotSent(t)
  PROVE  BridgeInv'
<1>1. /\ TypesInv /\ LocksInv /\ FramesInv
      /\ th[t].pc = "send" /\ tx = "none"
      /\ UNCHANGED <<auth, cancelled, commanded, revoked, status, safety,
                     port, tx>>
  BY DEF BridgeInv, Sent, NotSent, session, authority, At
<1>2. Sending(th[t])
  BY <1>1 DEF LocksInv, Shape
<1>3. PICK sent \in BOOLEAN : Continue(t, sent)
  BY Zenon DEF Sent, NotSent
<1>4. /\ tx' \in Threads \cup {"none"} /\ tx' # t
      /\ \A u \in Threads \ {t} : tx' = u <=> tx = u
  BY <1>1 DEF Threads
<1>5. PICK r : /\ Moves(t, r) /\ FramesGo(t, r)
               /\ Dest(r) = Dest(th[t])
               /\ motion = t /\ motion' # t => Dest(r) = "idle"
  BY <1>1, <1>2, <1>3, <1>4, ContinueMoves
<1>6. wire' \in Seq(Frames)
  <2>1. wire \in Seq(Frames) /\ Head(th[t].todo) \in Frames
    BY <1>1, <1>2, RestOfFrames DEF TypesInv, ThreadRecs, Sending
  <2>2. wire' = Append(wire, Head(th[t].todo)) \/ wire' = wire
    BY DEF Sent, NotSent, link
  <2> QED
    BY <2>1, <2>2
<1>7. t = "service" /\ Dest(r) \in {"arm_wait", "arm_answered"} => ArmPending
  BY <1>5 DEF ArmPending
<1>8. t = "control" /\ Revoking => motion' = "control" /\ Dest(r) = "clear"
  BY <1>5 DEF Revoking
<1> QED
  BY <1>1, <1>5, <1>6, <1>7, <1>8, QuietStep

\* A write fails: the authority survives until _motion_lock is free.
LEMMA StartDisconnectKeeps ==
  ASSUME BridgeInv, NEW t \in Threads, StartDisconnect(t),
         \/ th[t].pc = "send"
         \/ th[t].pc = "idle" /\ t = "heartbeat"
  PROVE  BridgeInv'
<1> DEFINE r == [th[t] EXCEPT !.pc = "disconnect"]
<1>1. /\ TypesInv /\ LocksInv /\ FramesInv /\ AuthInv /\ RevokedInv
      /\ UNCHANGED <<auth, cancelled, commanded, revoked, status, motion,
                     wire>>
      /\ tx = "none" /\ tx' = t
      /\ port' = FALSE /\ safety' = "DISCONNECTED"
  BY DEF BridgeInv, StartDisconnect, ClosePort, authority, link
<1>2. th[t] \in ThreadRecs /\ th \in [Threads -> ThreadRecs]
  BY <1>1 DEF TypesInv
<1>3. th' = [th EXCEPT ![t] = r]
  BY <1>2 DEF StartDisconnect
<1>4. /\ r \in ThreadRecs
      /\ r.pc = "disconnect" /\ r.todo = th[t].todo /\ r.then = th[t].then
  <2>1. "disconnect" \in Pcs
    BY DEF Pcs
  <2>2. r \in ThreadRecs
    BY <1>2, <2>1 DEF ThreadRecs
  <2> QED
    BY <1>2, <2>2 DEF ThreadRecs
<1> HIDE DEF r
<1>5. Shape(r) /\ (Sending(r) <=> Sending(th[t]))
  BY <1>4 DEF Shape, Sending
<1>6. th[t].pc = "send" => Sending(r) /\ Dest(r) = Dest(th[t])
  BY <1>1, <1>4, <1>5 DEF LocksInv, Shape, Dest
<1>7. /\ motion = t => MayOwn(th[t])
      /\ MustOwn(th[t]) => motion = t
  BY <1>1 DEF LocksInv
<1>8. CASE th[t].pc = "idle" /\ t = "heartbeat"
  <2>1. motion # t /\ ~Sending(th[t])
    BY <1>1, <1>8, FreeThread
  <2>2. Dest(r) = "disconnect"
    BY <1>4, <1>5, <2>1 DEF Dest
  <2>3. /\ motion' = t => MayOwn(r)
        /\ MustOwn(r) => motion' = t
    BY <1>1, <2>1, <2>2 DEF MustOwn
  <2> QED
    <3>1. Moves(t, r)
      BY <1>1, <1>3, <1>4, <1>5, <2>3 DEF Moves, TypesInv, Threads
    <3>2. th'[t] = r /\ \A u \in Threads \ {t} : th'[u] = th[u]
      BY <1>1, <3>1, MovesThreads
    <3>3. FramesGo(t, r)
      <4>1. r.todo = <<>>
        BY <1>4, <2>1 DEF Sending
      <4>2. Len(r.todo) = 0
        BY <4>1
      <4> QED
        BY <4>2 DEF FramesGo
    <3>4. th'["control"] = th["control"] /\ th'["service"] = th["service"]
      BY <1>8, <3>2 DEF Threads
    <3>5. Revoking' <=> Revoking
      BY <1>1, <3>4 DEF Revoking, Dest, Sending
    <3>6. AuthInv' /\ RevokedInv'
      BY <1>1, <3>4, <3>5 DEF AuthInv, RevokedInv, ArmPending, Dest, Sending
    <3>7. MatchInv'
      BY <1>1 DEF MatchInv
    <3> QED
      BY <1>1, <3>1, <3>3, <3>6, <3>7, StepKeeps DEF TypesInv
<1>9. CASE th[t].pc = "send"
  <2>1. /\ motion' = t => MayOwn(r)
        /\ MustOwn(r) => motion' = t
    BY <1>1, <1>5, <1>6, <1>7, <1>9 DEF MayOwn, MustOwn
  <2>2. Moves(t, r)
    BY <1>1, <1>3, <1>4, <1>5, <2>1 DEF Moves, TypesInv, Threads
  <2>3. th'[t] = r /\ \A u \in Threads \ {t} : th'[u] = th[u]
    BY <1>1, <2>2, MovesThreads
  <2>4. \A u \in Threads : Dest(th'[u]) = Dest(th[u])
    BY <1>6, <1>9, <2>3
  <2>5. FramesGo(t, r)
    BY <1>1, <1>4 DEF FramesInv, FrameOK, FramesGo
  <2>6. Revoking' <=> Revoking
    <3>1. Dest(th'["control"]) = Dest(th["control"])
      BY <2>4 DEF Threads
    <3> QED
      BY <1>1, <3>1 DEF Revoking, Dest, Sending
  <2>7. ArmPending' <=> ArmPending
    <3>1. Dest(th'["service"]) = Dest(th["service"])
      BY <2>4 DEF Threads
    <3> QED
      BY <3>1 DEF ArmPending, Dest, Sending
  <2>8. AuthInv' /\ RevokedInv'
    BY <1>1, <2>6, <2>7 DEF AuthInv, RevokedInv
  <2>9. MatchInv'
    BY <1>1 DEF MatchInv
  <2> QED
    BY <1>1, <2>2, <2>5, <2>8, <2>9, StepKeeps DEF TypesInv
<1> QED
  BY <1>8, <1>9

\* The rest of _disconnect.
LEMMA FinishDisconnectKeeps ==
  ASSUME BridgeInv, NEW t \in Threads, FinishDisconnect(t)
  PROVE  BridgeInv'
<1>1. /\ TypesInv /\ LocksInv /\ FramesInv
      /\ th[t].pc = "disconnect" /\ CanLock(t)
      /\ auth' = NoAuth /\ cancelled' = TRUE
      /\ tx' = IF tx = t THEN "none" ELSE tx
      /\ wire' = wire
  BY DEF BridgeInv, FinishDisconnect, At, link
<1>2. /\ tx' \in Threads \cup {"none"} /\ tx' # t
      /\ \A u \in Threads \ {t} : tx' = u <=> tx = u
  BY <1>1 DEF Threads, TypesInv
<1>3. \E r : Moves(t, r) /\ NoVelocity(r.todo)
  <2>1. CASE th[t].todo # <<>>
    <3>1. Continue(t, FALSE)
      BY <2>1 DEF FinishDisconnect
    <3>2. Sending(th[t]) /\ FALSE \in BOOLEAN
      BY <2>1 DEF Sending
    <3> QED
      BY <1>1, <1>2, <3>1, <3>2, ContinueMoves
  <2>2. CASE th[t].todo = <<>>
    <3>1. th' = Go(t, "idle") /\ motion' = motion
      BY <2>2 DEF FinishDisconnect
    <3>2. motion # t
      <4>1. Dest(th[t]) = "disconnect"
        BY <1>1, <2>2 DEF Dest, Sending
      <4> QED
        BY <1>1, <4>1 DEF LocksInv, MayOwn
    <3>3. "idle" \in Stops \ {"wait", "armed"}
      BY DEF Stops, Pcs
    <3> QED
      BY <1>1, <1>2, <3>1, <3>2, <3>3, GoMovesAnyTx
  <2> QED
    BY <2>1, <2>2
<1>4. wire' \in Seq(Frames)
  BY <1>1 DEF TypesInv
<1> QED
  BY <1>1, <1>3, <1>4, NoAuthType, ClearStep

\* A handler clears the authority before it returns.
LEMMA ClearAndReturnKeeps ==
  ASSUME BridgeInv, NEW t \in Threads, ClearAndReturn(t)
  PROVE  BridgeInv'
<1>1. /\ TypesInv /\ LocksInv
      /\ th[t].pc = "clear" /\ CanLock(t)
      /\ auth' = Cleared /\ cancelled' = TRUE
      /\ motion' = "none" /\ th' = Go(t, "idle")
      /\ tx' = tx /\ wire' = wire
  BY DEF BridgeInv, ClearAndReturn, ClearAuthority, At, link
<1>2. tx # t
  BY <1>1 DEF LocksInv, At
<1>3. "idle" \in Stops \ {"wait", "armed"}
  BY DEF Stops, Pcs
<1>4. Moves(t, Stopped("idle")) /\ NoVelocity(Stopped("idle").todo)
  BY <1>1, <1>2, <1>3, GoMoves
<1>5. auth \in AuthRecs /\ wire' \in Seq(Frames)
  BY <1>1 DEF TypesInv
<1> QED
  BY <1>1, <1>4, <1>5, ClearedType, ClearStep

LEMMA SerialKeeps ==
  ASSUME BridgeInv, NEW t \in Threads, Serial(t)
  PROVE  BridgeInv'
<1>1. CASE Sent(t) \/ NotSent(t)
  BY <1>1, WritingKeeps
<1>2. CASE WriteFails(t)
  BY <1>2, StartDisconnectKeeps DEF WriteFails, At
<1>3. CASE FinishDisconnect(t)
  BY <1>3, FinishDisconnectKeeps
<1>4. CASE ClearAndReturn(t)
  BY <1>4, ClearAndReturnKeeps
<1> QED
  BY <1>1, <1>2, <1>3, <1>4 DEF Serial

-----------------------------------------------------------------------------
(* _io_tick                                                                *)

LEMMA PointsAre ==
  /\ {"idle", "greeted", "clear", "status_latched",
      "status_armed", "status_disarmed", "velocity_refused", "refused",
      "arm", "arm_wait", "arm_answered", "relay_wait", "relay_answered",
      "wait", "armed"} \subseteq Ends
  /\ Ends \subseteq Stops
  /\ "disconnect" \in Stops
  BY DEF Ends, Stops, Pcs

\* The io thread goes to another point of its handler, outside the locks.
LEMMA IoGoes ==
  ASSUME BridgeInv, NEW pc \in Stops \ {"wait", "armed"},
         th["io"].pc \notin {"send", "disconnect", "clear", "wait", "armed",
                             "opened"},
         th' = Go("io", pc),
         UNCHANGED <<auth, cancelled, commanded, revoked, status, safety,
                     port, tx, motion, wire>>
  PROVE  BridgeInv'
<1>1. TypesInv /\ LocksInv /\ "io" \in Threads /\ wire \in Seq(Frames)
  BY DEF BridgeInv, Threads, TypesInv
<1>2. motion # "io" /\ tx # "io"
  BY <1>1, FreeThread
<1>3. /\ Moves("io", Stopped(pc)) /\ FramesGo("io", Stopped(pc))
      /\ Dest(Stopped(pc)) = pc
  BY <1>1, <1>2, GoMoves
<1> QED
  BY <1>1, <1>3, QuietStep

\* The io thread sends one frame and goes on outside the locks.
LEMMA IoSends ==
  ASSUME BridgeInv,
         NEW pc \in Ends \ {"wait", "armed"},
         NEW f \in Frames, f.type # "CMD_VEL",
         th["io"].pc \notin {"send", "disconnect", "clear", "wait", "armed"},
         th' = SendThen("io", <<f>>, pc),
         tx' = tx, wire' = wire,
         \/ motion' = motion
         \/ motion' = "io" /\ CanLock("io") /\ pc = "clear",
         \/ /\ th["io"].pc # "opened"
            /\ UNCHANGED <<auth, cancelled, commanded, revoked, status,
                           safety, port>>
         \/ CanLock("io") /\ ClearAuthority
  PROVE  BridgeInv'
<1>1. /\ TypesInv /\ LocksInv /\ "io" \in Threads
      /\ wire \in Seq(Frames) /\ auth \in AuthRecs
  BY DEF BridgeInv, Threads, TypesInv
<1>2. motion # "io" /\ tx # "io"
  BY <1>1, FreeThread
<1>3. \E r : Moves("io", r) /\ FramesGo("io", r) /\ NoVelocity(r.todo)
  BY <1>1, <1>2, OneMoves
<1>4. CASE ClearAuthority /\ CanLock("io")
  <2>1. auth' = Cleared /\ cancelled' = TRUE
    BY <1>4 DEF ClearAuthority
  <2> QED
    BY <1>1, <1>3, <1>4, <2>1, ClearedType, ClearStep
<1>5. CASE /\ th["io"].pc # "opened"
           /\ UNCHANGED <<auth, cancelled, commanded, revoked, status,
                          safety, port>>
  BY <1>1, <1>3, <1>5, QuietStep
<1> QED
  BY <1>4, <1>5

\* The port is opened: the gate counts for nothing until io has cleared it.
LEMMA OpenSerialKeeps ==
  ASSUME BridgeInv, OpenSerial
  PROVE  BridgeInv'
<1>1. /\ TypesInv /\ LocksInv /\ AuthInv /\ RevokedInv /\ "io" \in Threads
      /\ th["io"].pc = "idle" /\ th' = Go("io", "opened")
      /\ UNCHANGED <<auth, cancelled, commanded, revoked, status, tx, motion,
                     wire>>
  BY DEF BridgeInv, OpenSerial, authority, locks, Threads, At
<1>2. motion # "io" /\ tx # "io"
  BY <1>1, FreeThread
<1>3. "opened" \in Stops \ {"wait", "armed"}
  BY DEF Stops, Pcs
<1>4. Moves("io", Stopped("opened")) /\ FramesGo("io", Stopped("opened"))
  BY <1>1, <1>2, <1>3, GoMoves
<1>5. /\ th'["io"] = Stopped("opened")
      /\ th'["control"] = th["control"] /\ th'["service"] = th["service"]
  BY <1>1, <1>4, MovesThreads DEF Threads
<1>6. AuthInv' /\ RevokedInv'
  BY <1>1, <1>5
     DEF AuthInv, RevokedInv, Revoking, ArmPending, Dest, Sending
<1>7. MatchInv'
  BY <1>5 DEF MatchInv, At, Stopped
<1> QED
  BY <1>1, <1>4, <1>6, <1>7, StepKeeps DEF TypesInv

\* The port is closed before the authority is dropped.
LEMMA ReadFailsKeeps ==
  ASSUME BridgeInv, ReadFails
  PROVE  BridgeInv'
<1>1. /\ TypesInv /\ LocksInv /\ AuthInv /\ RevokedInv /\ "io" \in Threads
      /\ th["io"].pc = "idle" /\ th' = Go("io", "disconnect")
      /\ UNCHANGED <<auth, cancelled, commanded, revoked, status, tx, motion,
                     wire>>
      /\ port' = FALSE
  BY DEF BridgeInv, ReadFails, ClosePort, authority, locks, Threads, At
<1>2. motion # "io" /\ tx # "io"
  BY <1>1, FreeThread
<1>3. "disconnect" \in Stops \ {"wait", "armed"}
  BY DEF Stops, Pcs
<1>4. /\ Moves("io", Stopped("disconnect"))
      /\ FramesGo("io", Stopped("disconnect"))
  BY <1>1, <1>2, <1>3, GoMoves
<1>5. th'["control"] = th["control"] /\ th'["service"] = th["service"]
  BY <1>1, <1>4, MovesThreads DEF Threads
<1>6. AuthInv' /\ RevokedInv'
  BY <1>1, <1>5
     DEF AuthInv, RevokedInv, Revoking, ArmPending, Dest, Sending
<1>7. MatchInv'
  BY <1>1 DEF MatchInv
<1> QED
  BY <1>1, <1>4, <1>6, <1>7, StepKeeps DEF TypesInv

\* A step of the link, the firmware or the clock.
LEMMA OutsideKeeps ==
  ASSUME BridgeInv, UNCHANGED <<port, safety, status, authority, locks, th,
                                revoked>>,
         wire' \in Seq(Frames)
  PROVE  BridgeInv'
  BY DEF BridgeInv, TypesInv, LocksInv, AuthInv, RevokedInv, MatchInv,
         FramesInv, FrameOK, authority, locks, Revoking, ArmPending, Matching,
         ExpectedState, At, Shape, MayOwn, MustOwn, Dest, Sending

LEMMA IoHandlesKeeps ==
  ASSUME BridgeInv,
         \/ HandleHelloAck \/ HandleEvent \/ HandleCommandAck \/ Refused
  PROVE  BridgeInv'
<1>1. PICK pc \in {"clear", "greeted", "idle", "velocity_refused", "refused"} :
        th' = Go("io", pc)
  <2>1. CASE HandleHelloAck
    BY <2>1 DEF HandleHelloAck
  <2>2. CASE HandleEvent
    BY <2>2 DEF HandleEvent
  <2>3. CASE HandleCommandAck
    BY <2>3, Zenon DEF HandleCommandAck
  <2>4. CASE Refused
    BY <2>4 DEF Refused
  <2> QED
    BY <2>1, <2>2, <2>3, <2>4
<1>2. UNCHANGED <<auth, cancelled, commanded, revoked, status, safety, port,
                  tx, motion, wire>>
  BY DEF HandleHelloAck, HandleEvent, HandleCommandAck, Refused, Handle,
         authority, locks, session, link
<1>3. th["io"].pc \in {"idle", "refused"}
  BY DEF HandleHelloAck, HandleEvent, HandleCommandAck, Refused, Handle, At
<1>4. pc \in Stops \ {"wait", "armed"}
  BY PointsAre, <1>1 DEF Stops, Pcs
<1> QED
  BY <1>1, <1>2, <1>3, <1>4, IoGoes

\* Every handler of io that sends one frame.
LEMMA IoSendsKeeps ==
  ASSUME BridgeInv,
         \/ Opened \/ RepeatHello \/ Greeted \/ SessionLost \/ VelocityRefused
  PROVE  BridgeInv'
<1>1. /\ Plain("HELLO") \in Frames /\ Plain("HELLO").type # "CMD_VEL"
      /\ Plain("DISARM") \in Frames /\ Plain("DISARM").type # "CMD_VEL"
      /\ Plain("STOP") \in Frames /\ Plain("STOP").type # "CMD_VEL"
  BY PlainFrames DEF FrameTypes
<1>2. {"idle", "clear"} \subseteq Ends \ {"wait", "armed"}
  BY PointsAre
<1>3. CASE Opened
  BY <1>1, <1>2, <1>3, IoSends DEF Opened, Reset, At, locks, link
<1>4. CASE RepeatHello
  BY <1>1, <1>2, <1>4, IoSends
     DEF RepeatHello, At, locks, link, session, authority
<1>5. CASE Greeted
  BY <1>1, <1>2, <1>5, IoSends DEF Greeted, At, locks, link
<1>6. CASE VelocityRefused
  BY <1>1, <1>2, <1>6, IoSends
     DEF VelocityRefused, At, locks, link, session, authority
<1>7. CASE SessionLost
  <2>1. th["io"].pc = "lost" /\ CanLock("io")
    BY <1>7 DEF SessionLost, Reset, At
  <2>2. th["io"].then \in Ends
    BY DEF BridgeInv, TypesInv, ThreadRecs, Threads
  <2>3. th["io"].then \in StatusStops
    BY <2>1 DEF BridgeInv, LocksInv, Shape, Threads
  <2> QED
    BY <1>1, <1>7, <2>1, <2>2, <2>3, IoSends
       DEF SessionLost, Reset, locks, link, StatusStops
<1> QED
  BY <1>3, <1>4, <1>5, <1>6, <1>7

\* A STATUS is remembered in the program point of io.
StatusRec(pc, then) == [Idle EXCEPT !.pc = pc, !.then = then]

LEMMA StatusShape ==
  ASSUME NEW pc \in StatusStops \cup {"lost"}, NEW then \in StatusStops
  PROVE  /\ StatusRec(pc, then) \in ThreadRecs
         /\ StatusRec(pc, then).todo = <<>>
         /\ Dest(StatusRec(pc, then)) = pc
         /\ Shape(StatusRec(pc, then))
<1>1. <<>> \in Seq(Frames) /\ "idle" \in Pcs /\ "idle" \in Ends
  BY DEF Pcs, Ends, Stops
<1>2. then \in Ends /\ pc \in Pcs /\ pc # "send"
  BY DEF Ends, Stops, Pcs, StatusStops
<1>3. Idle \in ThreadRecs /\ Idle.todo = <<>>
  BY <1>1 DEF Idle, ThreadRecs
<1>4. StatusRec(pc, then) \in ThreadRecs
  BY <1>2, <1>3 DEF StatusRec, ThreadRecs
<1>5. /\ StatusRec(pc, then).pc = pc /\ StatusRec(pc, then).todo = <<>>
      /\ StatusRec(pc, then).then = then
  BY <1>2, <1>3 DEF StatusRec, ThreadRecs
<1> QED
  BY <1>2, <1>4, <1>5 DEF Sending, Dest, Shape

LEMMA HandleStatusKeeps ==
  ASSUME BridgeInv, HandleStatus
  PROVE  BridgeInv'
<1> DEFINE publish == CASE Head(rx).latched -> "status_latched"
                        [] Head(rx).armed -> "status_armed"
                        [] OTHER -> "status_disarmed"
           pc == IF handshake /\ Head(rx).lost THEN "lost" ELSE publish
           r == StatusRec(pc, publish)
<1>1. /\ TypesInv /\ LocksInv /\ "io" \in Threads
      /\ th["io"].pc = "idle"
      /\ UNCHANGED <<auth, cancelled, commanded, revoked, status, safety,
                     port, tx, motion, wire>>
  BY DEF BridgeInv, HandleStatus, Handle, authority, locks, Threads, At
<1>2. th' = [th EXCEPT !["io"] = r]
  BY Zenon DEF HandleStatus, StatusRec
<1>3. publish \in StatusStops
  <2>1. CASE Head(rx).latched
    BY <2>1 DEF StatusStops
  <2>2. CASE ~Head(rx).latched /\ Head(rx).armed
    BY <2>2 DEF StatusStops
  <2>3. CASE ~Head(rx).latched /\ ~Head(rx).armed
    BY <2>3 DEF StatusStops
  <2> QED
    BY <2>1, <2>2, <2>3
<1> HIDE DEF publish
<1>4. pc \in StatusStops \cup {"lost"}
  BY <1>3
<1> HIDE DEF pc
<1>5. /\ r \in ThreadRecs /\ r.todo = <<>> /\ Dest(r) = pc /\ Shape(r)
  BY <1>3, <1>4, StatusShape
<1> HIDE DEF r
<1>6. motion # "io" /\ tx # "io"
  BY <1>1, FreeThread
<1>7. ~MustOwn(r)
  BY <1>4, <1>5 DEF MustOwn, StatusStops
<1>8. Moves("io", r)
  BY <1>1, <1>2, <1>5, <1>6, <1>7 DEF Moves, TypesInv
<1>9. FramesGo("io", r)
  <2>1. Len(r.todo) = 0
    BY <1>5
  <2> QED
    BY <2>1 DEF FramesGo
<1> QED
  BY <1>1, <1>8, <1>9, QuietStep DEF TypesInv

\* The fields of an authority that is refreshed.
LEMMA RefreshedType ==
  ASSUME NEW a \in AuthRecs, NEW state, NEW st
  PROVE  /\ Refreshed(a, state, st) \in AuthRecs
         /\ Refreshed(a, state, st).arming = a.arming
         /\ Refreshed(a, state, st).in_progress = a.in_progress
         /\ Refreshed(a, state, st).ack = a.ack
         /\ Refreshed(a, state, st).esp_armed = a.esp_armed
         /\ Refreshed(a, state, st).mode = a.mode
         /\ Refreshed(a, state, st).cmd = a.cmd
         /\ Refreshed(a, state, st).open = GateOpens(a, state, st)
<1>1. PICK open \in BOOLEAN : open = GateOpens(a, state, st)
  BY DEF GateOpens
<1>2. Refreshed(a, state, st) = [a EXCEPT !.open = open]
  BY <1>1 DEF Refreshed
<1>3. [a EXCEPT !.open = open] \in AuthRecs
  BY DEF AuthRecs
<1>4. /\ [a EXCEPT !.open = open].arming = a.arming
      /\ [a EXCEPT !.open = open].in_progress = a.in_progress
      /\ [a EXCEPT !.open = open].ack = a.ack
      /\ [a EXCEPT !.open = open].esp_armed = a.esp_armed
      /\ [a EXCEPT !.open = open].mode = a.mode
      /\ [a EXCEPT !.open = open].cmd = a.cmd
      /\ [a EXCEPT !.open = open].open = open
  BY DEF AuthRecs
<1> QED
  BY <1>1, <1>2, <1>3, <1>4

\* The thread that refreshes the gate has _motion_lock: the authority is not
\* being revoked, and the gate it finds open was justified.
LEMMA RefreshStep ==
  ASSUME BridgeInv, NEW t \in Threads, NEW r, Moves(t, r), FramesGo(t, r),
         CanLock(t), ~Revoking,
         t = "service" => Dest(r) = "idle",
         wire' \in Seq(Frames),
         NEW a \in AuthRecs,
         a.ack = auth.ack, a.arming = auth.arming, a.cmd = auth.cmd,
         a.in_progress = auth.in_progress,
         auth' = Refreshed(a, safety', status'),
         UNCHANGED <<cancelled, commanded>>,
         revoked' = revoked
  PROVE  BridgeInv'
<1>1. /\ Refreshed(a, safety', status') \in AuthRecs
      /\ auth'.arming = a.arming /\ auth'.in_progress = a.in_progress
      /\ auth'.ack = a.ack /\ auth'.esp_armed = a.esp_armed
      /\ auth'.mode = a.mode /\ auth'.cmd = a.cmd
      /\ auth'.open = GateOpens(a, safety', status')
  BY RefreshedType
<1>2. AuthInv /\ RevokedInv
  BY DEF BridgeInv
<1>3. auth'.open => /\ a.ack /\ a.esp_armed /\ ~status'.latched
                    /\ safety' = ExpectedState(a.mode)
  BY <1>1 DEF GateOpens
<1>4. AuthInv'
  <2>1. auth'.ack => auth'.arming /\ ~auth'.in_progress
    BY <1>1, <1>2 DEF AuthInv
  <2>2. auth'.open => auth'.ack /\ auth'.esp_armed /\ ~status'.latched
    BY <1>1, <1>3
  <2>3. auth'.cmd # "none" => commanded'
    BY <1>1, <1>2 DEF AuthInv
  <2> QED
    BY <2>1, <2>2, <2>3 DEF AuthInv
<1>5. RevokedInv'
  <2>1. /\ revoked => cancelled
        /\ ~(revoked /\ auth.ack)
    BY <1>2 DEF RevokedInv
  <2>2. auth'.ack = auth.ack
    BY <1>1
  <2>3. ArmPending' => ArmPending
    BY ArmPendingKept DEF BridgeInv
  <2> QED
    BY <1>2, <2>1, <2>2, <2>3 DEF RevokedInv
<1>6. MatchInv'
  <2>1. ExpectedState(a.mode) = ExpectedState(auth'.mode)
    BY <1>1
  <2>2. auth'.open => Matching'
    BY <1>3, <2>1 DEF Matching, ExpectedState
  <2> QED
    BY <2>2 DEF MatchInv
<1> QED
  BY <1>1, <1>4, <1>5, <1>6, StepKeeps

LEMMA PublishStatusKeeps ==
  ASSUME BridgeInv, PublishStatus
  PROVE  BridgeInv'
<1> DEFINE new == [armed |-> At("io", "status_armed"),
                   latched |-> At("io", "status_latched")]
           a == [auth EXCEPT !.esp_armed = TRUE]
<1>1. /\ TypesInv /\ LocksInv /\ AuthInv /\ RevokedInv /\ MatchInv
      /\ "io" \in Threads /\ auth \in AuthRecs
      /\ th["io"].pc \in StatusStops /\ CanLock("io")
      /\ th' = Go("io", "idle") /\ status' = new
      /\ UNCHANGED <<revoked, safety, port, tx, motion, wire>>
  BY DEF BridgeInv, PublishStatus, locks, link, Threads, TypesInv, StatusStops
<1>2. motion # "io" /\ tx # "io" /\ ~Revoking
  BY <1>1, FreeThread, FreeMeansNotRevoking DEF StatusStops
<1>3. "idle" \in Stops \ {"wait", "armed"}
  BY DEF Stops, Pcs
<1>4. /\ Moves("io", Stopped("idle")) /\ FramesGo("io", Stopped("idle"))
      /\ NoVelocity(Stopped("idle").todo)
  BY <1>1, <1>2, <1>3, GoMoves
<1>5. /\ th'["io"] = Stopped("idle")
      /\ th'["control"] = th["control"] /\ th'["service"] = th["service"]
  BY <1>1, <1>4, MovesThreads DEF Threads
<1>6. wire' \in Seq(Frames)
  BY <1>1 DEF TypesInv
<1>7. CASE /\ auth' = Refreshed(a, safety, new)
           /\ UNCHANGED <<cancelled, commanded>>
  <2>1. /\ a \in AuthRecs /\ a.ack = auth.ack /\ a.arming = auth.arming
        /\ a.cmd = auth.cmd /\ a.in_progress = auth.in_progress
    BY <1>1 DEF AuthRecs
  <2> HIDE DEF a, new
  <2>2. auth' = Refreshed(a, safety', status')
    BY <1>1, <1>7
  <2> QED
    BY <1>1, <1>2, <1>4, <1>6, <1>7, <2>1, <2>2, RefreshStep
<1>8. CASE ClearAuthority
  <2>1. auth' = Cleared /\ cancelled' = TRUE
    BY <1>8 DEF ClearAuthority
  <2> QED
    BY <1>1, <1>4, <1>6, <2>1, ClearedType, ClearStep
<1>9. CASE /\ auth.in_progress
           /\ auth' = [auth EXCEPT !.esp_armed = FALSE]
           /\ UNCHANGED <<cancelled, commanded>>
  <2>1. /\ auth' \in AuthRecs /\ auth'.ack = auth.ack
        /\ auth'.open = auth.open /\ auth'.cmd = auth.cmd
        /\ ~auth.ack /\ ~auth.open
    BY <1>1, <1>9 DEF AuthRecs, AuthInv
  <2>2. AuthInv'
    BY <1>1, <1>9, <2>1 DEF AuthInv
  <2>3. RevokedInv'
    BY <1>1, <1>2, <1>5, <1>9, <2>1
       DEF RevokedInv
  <2>4. MatchInv'
    BY <2>1 DEF MatchInv
  <2> QED
    BY <1>1, <1>4, <1>6, <2>1, <2>2, <2>3, <2>4, StepKeeps
<1> QED
  <2>1. new.armed \in BOOLEAN /\ new.latched \in BOOLEAN
    BY DEF At
  <2>2. CASE new.armed
    BY <1>7, <2>2 DEF PublishStatus
  <2>3. CASE ~new.armed /\ (new.latched \/ ~auth.in_progress)
    BY <1>8, <2>3 DEF PublishStatus
  <2>4. CASE ~new.armed /\ ~new.latched /\ auth.in_progress
    BY <1>9, <2>4 DEF PublishStatus
  <2> QED
    BY <2>1, <2>2, <2>3, <2>4

LEMMA IoKeeps ==
  ASSUME BridgeInv, Io
  PROVE  BridgeInv'
<1>1. CASE OpenSerial
  BY <1>1, OpenSerialKeeps
<1>2. CASE Opened \/ RepeatHello \/ Greeted \/ SessionLost \/ VelocityRefused
  BY <1>2, IoSendsKeeps
<1>3. CASE ReadBytes
  <2>1. /\ UNCHANGED <<port, safety, status, authority, locks, th, revoked>>
        /\ wire' = wire
    BY <1>3 DEF ReadBytes, session
  <2> QED
    BY <2>1, OutsideKeeps DEF BridgeInv, TypesInv
<1>4. CASE ReadFails
  BY <1>4, ReadFailsKeeps
<1>5. CASE HandleHelloAck \/ HandleEvent \/ HandleCommandAck \/ Refused
  BY <1>5, IoHandlesKeeps
<1>6. CASE HandleStatus
  BY <1>6, HandleStatusKeeps
<1>7. CASE PublishStatus
  BY <1>7, PublishStatusKeeps
<1> QED
  BY <1>1, <1>2, <1>3, <1>4, <1>5, <1>6, <1>7 DEF Io

-----------------------------------------------------------------------------
(* The subscriptions and the timers                                        *)

LEMMA StaysMoves ==
  ASSUME TypesInv, LocksInv, FramesInv, NEW t \in Threads,
         UNCHANGED <<th, motion, tx>>, ~Sending(th[t])
  PROVE  Moves(t, th[t]) /\ FramesGo(t, th[t])
<1>1. th[t] \in ThreadRecs /\ th' = [th EXCEPT ![t] = th[t]]
  BY DEF TypesInv
<1>2. /\ Shape(th[t])
      /\ tx = t => th[t].pc = "disconnect"
      /\ motion = t => MayOwn(th[t])
      /\ MustOwn(th[t]) => motion = t
  BY DEF LocksInv, At
<1>3. Moves(t, th[t])
  BY <1>1, <1>2 DEF Moves, TypesInv
<1>4. Len(th[t].todo) = 0
  BY DEF Sending
<1> QED
  BY <1>3, <1>4 DEF FramesGo

\* A step inside _motion_lock that only changes which command is held.
LEMMA GrantKept ==
  ASSUME BridgeInv, NEW t \in {"control", "command"}, NEW r,
         Moves(t, r), FramesGo(t, r), CanLock(t), ~Revoking,
         auth' \in AuthRecs,
         auth'.arming = auth.arming, auth'.in_progress = auth.in_progress,
         auth'.ack = auth.ack, auth'.esp_armed = auth.esp_armed,
         auth'.mode = auth.mode, auth'.open = auth.open,
         auth'.cmd # "none" => commanded',
         UNCHANGED <<cancelled, revoked, status, safety, port, wire>>
  PROVE  BridgeInv'
<1>1. /\ TypesInv /\ AuthInv /\ RevokedInv /\ MatchInv /\ t \in Threads
      /\ wire' \in Seq(Frames)
  BY DEF BridgeInv, TypesInv, Threads
<1>2. th'["io"] = th["io"] /\ th'["service"] = th["service"]
  BY <1>1, MovesThreads DEF Threads
<1>3. AuthInv'
  BY <1>1 DEF AuthInv
<1>4. RevokedInv'
  BY <1>1, <1>2 DEF RevokedInv, ArmPending, Dest, Sending
<1>5. MatchInv'
  <2>1. Matching' <=> Matching
    <3>1. ExpectedState(auth'.mode) = ExpectedState(auth.mode)
      OBVIOUS
    <3> QED
      BY <3>1 DEF Matching, ExpectedState
  <2> QED
    BY <1>1, <1>2, <2>1 DEF MatchInv, At
<1> QED
  BY <1>1, <1>3, <1>4, <1>5, StepKeeps

LEMMA OnCmdVelKeeps ==
  ASSUME BridgeInv, OnCmdVel
  PROVE  BridgeInv'
<1>1. /\ TypesInv /\ LocksInv /\ FramesInv /\ "control" \in Threads
      /\ th["control"].pc = "idle" /\ CanLock("control")
      /\ auth \in AuthRecs
      /\ auth' = [auth EXCEPT !.cmd = "fresh", !.stop_sent = FALSE]
      /\ commanded' = TRUE
      /\ UNCHANGED <<th, motion, tx, cancelled, revoked, status, safety, port,
                     wire>>
  BY DEF BridgeInv, OnCmdVel, TypesInv, Threads, At, session, locks, link
<1>2. ~Revoking /\ ~Sending(th["control"])
  BY <1>1, FreeThread, FreeMeansNotRevoking
<1>3. /\ Moves("control", th["control"])
      /\ FramesGo("control", th["control"])
  BY <1>1, <1>2, StaysMoves
<1>4. /\ auth' \in AuthRecs
      /\ auth'.arming = auth.arming /\ auth'.in_progress = auth.in_progress
      /\ auth'.ack = auth.ack /\ auth'.esp_armed = auth.esp_armed
      /\ auth'.mode = auth.mode /\ auth'.open = auth.open
  BY <1>1 DEF AuthRecs
<1> QED
  BY <1>1, <1>2, <1>3, <1>4, GrantKept

LEMMA RejectVelocityKeeps ==
  ASSUME BridgeInv, RejectVelocity
  PROVE  BridgeInv'
<1>1. /\ TypesInv /\ LocksInv /\ FramesInv /\ "control" \in Threads
      /\ th["control"].pc = "idle" /\ CanLock("control")
      /\ auth \in AuthRecs
      /\ auth' = [auth EXCEPT !.cmd = "none", !.stop_sent = TRUE]
      /\ UNCHANGED <<tx, cancelled, revoked, status, safety, port, wire>>
  BY DEF BridgeInv, RejectVelocity, TypesInv, Threads, At, session, link
<1>2. /\ ~Revoking /\ ~Sending(th["control"])
      /\ motion # "control" /\ tx # "control"
  BY <1>1, FreeThread, FreeMeansNotRevoking
<1>3. /\ auth' \in AuthRecs /\ auth'.cmd = "none"
      /\ auth'.arming = auth.arming /\ auth'.in_progress = auth.in_progress
      /\ auth'.ack = auth.ack /\ auth'.esp_armed = auth.esp_armed
      /\ auth'.mode = auth.mode /\ auth'.open = auth.open
  BY <1>1 DEF AuthRecs
<1>4. \E r : Moves("control", r) /\ FramesGo("control", r)
  <2>1. CASE UNCHANGED <<motion, th>>
    BY <1>1, <1>2, <2>1, StaysMoves
  <2>2. CASE /\ motion' = "control"
             /\ th' = SendThen("control", <<Plain("STOP")>>, "idle")
    <3>1. Plain("STOP") \in Frames /\ Plain("STOP").type # "CMD_VEL"
      BY PlainFrames DEF FrameTypes
    <3>2. "idle" \in Ends
      BY PointsAre
    <3> QED
      BY <1>1, <1>2, <2>2, <3>1, <3>2, OneMoves
  <2> QED
    BY <2>1, <2>2 DEF RejectVelocity
<1> QED
  BY <1>1, <1>2, <1>3, <1>4, GrantKept

LEMMA CommandTickKeeps ==
  ASSUME BridgeInv, CommandTick
  PROVE  BridgeInv'
<1>1. /\ TypesInv /\ LocksInv /\ FramesInv /\ AuthInv /\ RevokedInv
      /\ "command" \in Threads
      /\ th["command"].pc = "idle" /\ CanLock("command")
      /\ auth \in AuthRecs /\ auth.open
      /\ motion' = "command"
      /\ UNCHANGED <<tx, cancelled, commanded, revoked, status, safety, port,
                     wire>>
  BY DEF BridgeInv, CommandTick, TypesInv, Threads, At, session, link
<1>2. /\ ~Revoking /\ motion # "command" /\ tx # "command"
  BY <1>1, FreeThread, FreeMeansNotRevoking
<1>3. "idle" \in Ends
  BY PointsAre
<1>4. CASE /\ auth.cmd = "fresh" /\ UNCHANGED auth
           /\ th' = SendThen("command",
                       <<[Plain("CMD_VEL") EXCEPT !.moving = TRUE]>>, "idle")
  <2> DEFINE f == [Plain("CMD_VEL") EXCEPT !.moving = TRUE]
  <2>1. Plain("CMD_VEL") \in Frames
    BY PlainFrames DEF FrameTypes
  <2>2. f \in Frames
    BY <2>1 DEF Frames
  <2> HIDE DEF f
  <2>3. <<f>> \in Seq(Frames) /\ <<f>> # <<>> /\ Len(<<f>>) = 1
    BY <2>2, OneFrame
  <2>4. th' = SendThen("command", <<f>>, "idle")
    BY <1>4 DEF f
  <2>5. /\ Moves("command", Sends(<<f>>, "idle"))
        /\ Sends(<<f>>, "idle").todo = <<f>>
    BY <1>1, <1>2, <1>3, <2>3, <2>4, SendMoves
  <2>6. ~revoked
    BY <1>1, <1>2 DEF AuthInv, RevokedInv
  <2>7. FramesGo("command", Sends(<<f>>, "idle"))
    <3>1. \A i \in 1 .. Len(<<f>>) : i = 1
      BY <2>3
    <3>2. auth'.open /\ auth'.cmd # "none" /\ ~revoked'
      BY <1>1, <1>4, <2>6
    <3> QED
      BY <1>1, <2>5, <3>1, <3>2 DEF FramesGo
  <2>8. auth'.cmd # "none" => commanded'
    BY <1>1, <1>4 DEF AuthInv
  <2> QED
    BY <1>1, <1>2, <1>4, <2>5, <2>7, <2>8, GrantKept
<1>5. CASE /\ auth' = [auth EXCEPT !.stop_sent = TRUE]
           /\ th' = SendThen("command", <<Plain("STOP")>>, "idle")
  <2>1. Plain("STOP") \in Frames /\ Plain("STOP").type # "CMD_VEL"
    BY PlainFrames DEF FrameTypes
  <2>2. \E r : Moves("command", r) /\ FramesGo("command", r)
    BY <1>1, <1>2, <1>3, <1>5, <2>1, OneMoves
  <2>3. /\ auth' \in AuthRecs /\ auth'.cmd = auth.cmd
        /\ auth'.arming = auth.arming
        /\ auth'.in_progress = auth.in_progress
        /\ auth'.ack = auth.ack /\ auth'.esp_armed = auth.esp_armed
        /\ auth'.mode = auth.mode /\ auth'.open = auth.open
    BY <1>1, <1>5 DEF AuthRecs
  <2>4. auth'.cmd # "none" => commanded'
    BY <1>1, <2>3 DEF AuthInv
  <2> QED
    BY <1>1, <1>2, <2>2, <2>3, <2>4, GrantKept
<1> QED
  BY <1>4, <1>5 DEF CommandTick

LEMMA RevocationFrames ==
  ASSUME NEW new
  PROVE  /\ Revocation(new) \in Seq(Frames)
         /\ NoVelocity(Revocation(new)) /\ Untagged(Revocation(new))
<1>1. /\ Plain("STOP") \in Frames /\ Plain("STOP").type = "STOP"
      /\ Plain("STOP").tag = "none" /\ Plain("ESTOP").tag = "none"
      /\ Plain("DISARM").tag = "none"
      /\ Plain("ESTOP") \in Frames /\ Plain("ESTOP").type = "ESTOP"
      /\ Plain("DISARM") \in Frames /\ Plain("DISARM").type = "DISARM"
  BY PlainFrames DEF FrameTypes, Plain, Frame
<1>2. Revocation(new) \in
        {<<Plain("STOP"), Plain("ESTOP")>>, <<Plain("STOP"), Plain("DISARM")>>,
         <<Plain("ESTOP")>>, <<>>}
  BY Zenon DEF Revocation
<1>3. ASSUME NEW f \in Frames, NEW g \in Frames,
             f.type # "CMD_VEL", g.type # "CMD_VEL",
             f.tag = "none", g.tag = "none"
      PROVE  /\ <<f, g>> \in Seq(Frames)
             /\ NoVelocity(<<f, g>>) /\ Untagged(<<f, g>>)
  <2>1. /\ <<f, g>> \in Seq(Frames) /\ Len(<<f, g>>) = 2
        /\ <<f, g>>[1] = f /\ <<f, g>>[2] = g
    BY TwoFrames
  <2>2. 1 .. 2 = {1, 2}
    OBVIOUS
  <2> QED
    BY <1>3, <2>1, <2>2 DEF NoVelocity, Untagged
<1>4. CASE Revocation(new) = <<Plain("STOP"), Plain("ESTOP")>>
  BY <1>1, <1>3, <1>4
<1>5. CASE Revocation(new) = <<Plain("STOP"), Plain("DISARM")>>
  BY <1>1, <1>3, <1>5
<1>6. CASE Revocation(new) = <<Plain("ESTOP")>>
  <2>1. /\ <<Plain("ESTOP")>> \in Seq(Frames)
        /\ Len(<<Plain("ESTOP")>>) = 1
        /\ <<Plain("ESTOP")>>[1] = Plain("ESTOP")
    BY <1>1, OneFrame
  <2> QED
    BY <1>1, <1>6, <2>1 DEF NoVelocity, Untagged
<1>7. CASE Revocation(new) = <<>>
  <2>1. <<>> \in Seq(Frames) /\ Len(<<>>) = 0
    OBVIOUS
  <2> QED
    BY <1>7, <2>1 DEF NoVelocity, Untagged
<1> QED
  BY <1>2, <1>4, <1>5, <1>6, <1>7

\* The control thread takes _motion_lock to revoke the authority.
LEMMA RevokingMoves ==
  ASSUME TypesInv, LocksInv, th["control"].pc = "idle", CanLock("control"),
         motion' = "control", tx' = tx,
         NEW frames \in Seq(Frames), NoVelocity(frames),
         th' = SendThen("control", frames, "clear")
  PROVE  \E r : /\ Moves("control", r) /\ FramesGo("control", r)
                /\ Dest(r) = "clear"
<1>1. "control" \in Threads /\ "clear" \in Ends /\ "clear" \in Stops
  BY PointsAre DEF Threads
<1>2. motion # "control" /\ tx # "control"
  BY <1>1, FreeThread
<1>3. CASE frames = <<>>
  <2>1. /\ Stopped("clear") \in ThreadRecs
        /\ Stopped("clear").todo = <<>>
        /\ Dest(Stopped("clear")) = "clear"
        /\ Shape(Stopped("clear"))
    BY <1>1, StoppedShape
  <2>2. th' = [th EXCEPT !["control"] = Stopped("clear")]
    BY <1>3, GoIs DEF SendThen
  <2>3. \A u \in Threads \ {"control"} : motion' = u <=> motion = u
    BY DEF CanLock, Threads
  <2>4. MayOwn(Stopped("clear")) /\ ~MustOwn(Stopped("clear"))
    BY <2>1 DEF MayOwn, MustOwn
  <2>5. Moves("control", Stopped("clear"))
    BY <1>1, <1>2, <2>1, <2>2, <2>3, <2>4 DEF Moves, TypesInv
  <2>6. Len(Stopped("clear").todo) = 0
    BY <2>1
  <2> QED
    BY <2>1, <2>5, <2>6 DEF FramesGo
<1>4. CASE frames # <<>>
  <2>1. /\ Moves("control", Sends(frames, "clear"))
        /\ Dest(Sends(frames, "clear")) = "clear"
        /\ Sends(frames, "clear").todo = frames
    BY <1>1, <1>2, <1>4, SendMoves
  <2> QED
    BY <2>1 DEF NoVelocity, FramesGo
<1> QED
  BY <1>3, <1>4

LEMMA OnSafetyStateKeeps ==
  ASSUME BridgeInv, OnSafetyState
  PROVE  BridgeInv'
<1>1. /\ TypesInv /\ LocksInv /\ FramesInv /\ AuthInv /\ RevokedInv
      /\ "control" \in Threads
      /\ th["control"].pc = "idle" /\ CanLock("control")
      /\ auth \in AuthRecs /\ wire \in Seq(Frames)
      /\ UNCHANGED <<tx, cancelled, commanded, status, port, wire>>
  BY DEF BridgeInv, OnSafetyState, TypesInv, Threads, At, link
<1>2. ~Revoking /\ ~Sending(th["control"])
  BY <1>1, FreeThread, FreeMeansNotRevoking
<1>3. PICK new \in SafetyStates :
        /\ safety' = new
        /\ IF Revocation(new) = <<>>
           THEN /\ auth' = Refreshed(auth, new, status)
                /\ UNCHANGED <<motion, th, revoked>>
           ELSE /\ revoked' = TRUE
                /\ motion' = "control"
                /\ th' = SendThen("control",
                           IF port THEN Revocation(new) ELSE <<>>, "clear")
                /\ UNCHANGED auth
  BY Zenon DEF OnSafetyState
<1>4. CASE Revocation(new) = <<>>
  <2>1. /\ auth' = Refreshed(auth, safety', status')
        /\ UNCHANGED <<motion, th, tx>> /\ revoked' = revoked
    BY <1>1, <1>3, <1>4
  <2>2. /\ Moves("control", th["control"])
        /\ FramesGo("control", th["control"])
    BY <1>1, <1>2, <2>1, StaysMoves
  <2> QED
    BY <1>1, <1>2, <2>1, <2>2, RefreshStep
<1>5. CASE Revocation(new) # <<>>
  <2> DEFINE frames == IF port THEN Revocation(new) ELSE <<>>
  <2>1. /\ revoked' = TRUE /\ motion' = "control"
        /\ th' = SendThen("control", frames, "clear") /\ auth' = auth
    BY <1>3, <1>5
  <2>2. frames \in Seq(Frames) /\ NoVelocity(frames)
    <3>1. <<>> \in Seq(Frames) /\ NoVelocity(<<>>)
      BY DEF NoVelocity
    <3> QED
      BY <3>1, RevocationFrames
  <2> HIDE DEF frames
  <2>3. PICK r : /\ Moves("control", r) /\ FramesGo("control", r)
                 /\ Dest(r) = "clear"
    BY <1>1, <2>1, <2>2, RevokingMoves
  <2>4. th'["control"] = r /\ th'["service"] = th["service"]
    BY <1>1, <2>3, MovesThreads DEF Threads
  <2>5. Revoking'
    BY <2>1, <2>3, <2>4 DEF Revoking, Dest, Sending
  <2>6. AuthInv'
    BY <1>1, <2>1 DEF AuthInv
  <2>7. RevokedInv'
    BY <1>1, <2>1, <2>4, <2>5 DEF RevokedInv, ArmPending, Dest, Sending
  <2>8. MatchInv'
    BY <2>5 DEF MatchInv
  <2> QED
    BY <1>1, <2>1, <2>3, <2>6, <2>7, <2>8, StepKeeps
<1> QED
  BY <1>4, <1>5

LEMMA CommandGoesStaleKeeps ==
  ASSUME BridgeInv, CommandGoesStale
  PROVE  BridgeInv'
<1>1. /\ TypesInv /\ LocksInv /\ AuthInv /\ RevokedInv /\ MatchInv /\ FramesInv
      /\ auth \in AuthRecs /\ auth.cmd = "fresh"
      /\ auth' = [auth EXCEPT !.cmd = "stale"]
      /\ UNCHANGED <<th, motion, tx, wire, cancelled, commanded, revoked,
                     status, safety, port>>
  BY DEF BridgeInv, CommandGoesStale, TypesInv, session, locks, link
<1>2. /\ auth' \in AuthRecs /\ auth'.cmd = "stale"
      /\ auth'.arming = auth.arming /\ auth'.in_progress = auth.in_progress
      /\ auth'.ack = auth.ack /\ auth'.esp_armed = auth.esp_armed
      /\ auth'.mode = auth.mode /\ auth'.open = auth.open
  BY <1>1 DEF AuthRecs
<1>3. TypesInv'
  BY <1>1, <1>2 DEF TypesInv
<1>4. LocksInv'
  BY <1>1 DEF LocksInv, At, Shape, MayOwn, MustOwn, Dest, Sending
<1>5. AuthInv'
  BY <1>1, <1>2 DEF AuthInv
<1>6. Revoking' <=> Revoking
  BY <1>1 DEF Revoking, Dest, Sending
<1>7. RevokedInv'
  BY <1>1, <1>2, <1>6 DEF RevokedInv, ArmPending, Dest, Sending
<1>8. MatchInv'
  <2>1. ExpectedState(auth'.mode) = ExpectedState(auth.mode)
    BY <1>2
  <2>2. Matching' <=> Matching
    BY <1>1, <2>1 DEF Matching, ExpectedState
  <2> QED
    BY <1>1, <1>2, <1>6, <2>2 DEF MatchInv, At
<1>9. FramesInv'
  BY <1>1, <1>2 DEF FramesInv, FrameOK
<1> QED
  BY <1>3, <1>4, <1>5, <1>7, <1>8, <1>9 DEF BridgeInv

-----------------------------------------------------------------------------
(* The services                                                            *)

LEMMA ForgottenType ==
  ASSUME NEW frames \in Seq(Frames), NEW t
  PROVE  /\ Forgotten(t, frames) \in Seq(Frames)
         /\ Len(Forgotten(t, frames)) = Len(frames)
<1> DEFINE forget(f) == IF "tag" \in DOMAIN f /\ f.tag = t
                        THEN [f EXCEPT !.tag = "none"] ELSE f
<1>1. ASSUME NEW i \in 1 .. Len(frames)
      PROVE  forget(frames[i]) \in Frames
  <2>1. frames[i] \in Frames
    OBVIOUS
  <2>2. [frames[i] EXCEPT !.tag = "none"] \in Frames
    BY <2>1 DEF Frames
  <2> QED
    BY <2>1, <2>2
<1> HIDE DEF forget
<1>2. /\ DOMAIN frames = 1 .. Len(frames)
      /\ Len(frames) \in Nat
  OBVIOUS
<1>3. Forgotten(t, frames) = [i \in 1 .. Len(frames) |-> forget(frames[i])]
  BY <1>2, Zenon DEF Forgotten, forget
<1>4. [i \in 1 .. Len(frames) |-> forget(frames[i])] \in Seq(Frames)
  BY <1>1, <1>2
<1>5. Len([i \in 1 .. Len(frames) |-> forget(frames[i])]) = Len(frames)
  BY <1>2
<1> QED
  BY <1>3, <1>4, <1>5

LEMMA ServiceStarts ==
  ASSUME BridgeInv,
         \/ ArmCalled \/ RelayCalled \/ RelayReturns
  PROVE  BridgeInv'
<1>1. /\ TypesInv /\ LocksInv /\ "service" \in Threads
      /\ wire' \in Seq(Frames)
      /\ th["service"].pc \in {"idle", "relay_answered"}
      /\ UNCHANGED <<auth, cancelled, commanded, revoked, status, safety,
                     port, tx, motion>>
  BY DEF BridgeInv, TypesInv, ArmCalled, RelayCalled, RelayReturns, Call,
         session, authority, locks, link, Threads, At
<1>2. motion # "service" /\ tx # "service"
  BY <1>1, FreeThread
<1>3. /\ {"arm", "idle"} \subseteq Stops \ {"wait", "armed"}
      /\ {"relay_wait", "idle"} \subseteq Ends
  BY DEF Ends, Stops, Pcs
<1>4. /\ Frame("RELAY", "service") \in Frames
      /\ Frame("RELAY", "service").type # "CMD_VEL"
      /\ Plain("RELAY") \in Frames /\ Plain("RELAY").type # "CMD_VEL"
  BY FrameTypesHold, PlainFrames DEF FrameTypes, Waiters
<1>5. \E r : /\ Moves("service", r) /\ FramesGo("service", r)
             /\ Dest(r) \notin {"arm_wait", "arm_answered"}
  <2>1. CASE \E pc \in {"arm", "idle"} : th' = Go("service", pc)
    BY <1>1, <1>2, <1>3, <2>1, GoMoves
  <2>2. CASE th' = SendThen("service", <<Frame("RELAY", "service")>>,
                            "relay_wait")
    BY <1>1, <1>2, <1>3, <1>4, <2>2, OneMoves
  <2>3. CASE th' = SendThen("service", <<Plain("RELAY")>>, "idle")
    BY <1>1, <1>2, <1>3, <1>4, <2>3, OneMoves
  <2> QED
    BY <2>1, <2>2, <2>3 DEF ArmCalled, RelayCalled, RelayReturns
<1> QED
  BY <1>1, <1>5, QuietStep

LEMMA WaitEndsKeeps ==
  ASSUME BridgeInv, ArmWaitEnds \/ RelayWaitEnds
  PROVE  BridgeInv'
<1>1. PICK pc \in {"arm_wait", "relay_wait"},
           next \in {"arm_answered", "relay_answered"} :
        /\ WaitEnds("service", pc, next)
        /\ next = "arm_answered" => pc = "arm_wait"
  BY DEF ArmWaitEnds, RelayWaitEnds
<1> DEFINE r == [th["service"] EXCEPT !.pc = next]
<1>2. /\ TypesInv /\ LocksInv /\ "service" \in Threads
      /\ wire \in Seq(Frames) /\ th["service"] \in ThreadRecs
      /\ th["service"].pc = pc
      /\ th' = [th EXCEPT !["service"] = r]
      /\ wire' = Forgotten("service", wire)
      /\ UNCHANGED <<auth, cancelled, commanded, revoked, status, safety,
                     port, tx, motion>>
  BY <1>1 DEF BridgeInv, TypesInv, WaitEnds, session, authority, locks,
              Threads, At
<1>3. /\ motion # "service" /\ tx # "service"
      /\ ~Sending(th["service"]) /\ Dest(th["service"]) = pc
  BY <1>1, <1>2, FreeThread
<1>4. next \in Pcs
  BY <1>1 DEF Pcs
<1>5. r \in ThreadRecs /\ r.pc = next /\ r.todo = th["service"].todo
  BY <1>2, <1>4 DEF ThreadRecs
<1> HIDE DEF r
<1>6. Shape(r) /\ Dest(r) = next /\ ~MustOwn(r)
  BY <1>1, <1>3, <1>5 DEF Shape, Sending, Dest, MustOwn
<1>7. Moves("service", r)
  BY <1>2, <1>3, <1>5, <1>6 DEF Moves, TypesInv
<1>8. FramesGo("service", r)
  <2>1. Len(r.todo) = 0
    BY <1>3, <1>5 DEF Sending
  <2> QED
    BY <2>1 DEF FramesGo
<1>9. Dest(r) \in {"arm_wait", "arm_answered"} => ArmPending
  BY <1>1, <1>3, <1>6 DEF ArmPending
<1>10. wire' \in Seq(Frames)
  BY <1>2, ForgottenType
<1> QED
  BY <1>2, <1>7, <1>8, <1>9, <1>10, QuietStep

LEMMA BeginArmKeeps ==
  ASSUME BridgeInv, BeginArm
  PROVE  BridgeInv'
<1>1. /\ TypesInv /\ LocksInv /\ "service" \in Threads
      /\ wire' \in Seq(Frames) /\ auth \in AuthRecs
      /\ th["service"].pc = "arm" /\ CanLock("service")
      /\ auth' = [Cleared EXCEPT !.arming = TRUE, !.in_progress = TRUE]
      /\ revoked' = FALSE /\ tx' = tx /\ motion' = motion
      /\ th' = SendThen("service", <<Frame("ARM", "service")>>, "arm_wait")
  BY DEF BridgeInv, TypesInv, BeginArm, locks, link, Threads, At
<1>2. motion # "service" /\ tx # "service"
  BY <1>1, FreeThread
<1>3. /\ Frame("ARM", "service") \in Frames
      /\ Frame("ARM", "service").type # "CMD_VEL"
      /\ "arm_wait" \in Ends
  BY FrameTypesHold, PointsAre DEF FrameTypes, Waiters
<1>4. \E r : Moves("service", r) /\ NoVelocity(r.todo)
  BY <1>1, <1>2, <1>3, OneMoves
<1>5. /\ auth' \in AuthRecs
      /\ auth'.open = Cleared.open /\ auth'.ack = Cleared.ack
      /\ auth'.cmd = Cleared.cmd
  BY <1>1, ClearedType DEF AuthRecs
<1> QED
  BY <1>1, <1>4, <1>5, ClearedType, ClearStep

LEMMA ArmSucceedsKeeps ==
  ASSUME BridgeInv, ArmSucceeds
  PROVE  BridgeInv'
<1>1. /\ TypesInv /\ LocksInv /\ AuthInv /\ RevokedInv /\ "service" \in Threads
      /\ wire' \in Seq(Frames) /\ auth \in AuthRecs
      /\ th["service"].pc = "arm_answered" /\ CanLock("service")
      /\ ~cancelled
      /\ motion' = "service"
      /\ th' = SendThen("service", <<Plain("CMD_VEL")>>, "armed")
      /\ UNCHANGED <<cancelled, revoked, status, safety, port, tx>>
  BY DEF BridgeInv, TypesInv, ArmSucceeds, ArmAccepted, session, link,
         Threads, At
<1>2. PICK mode \in {"manual", "auto"} : auth' = ArmGranted(mode)
  BY ModesAssumption DEF ArmSucceeds
<1>3. /\ motion # "service" /\ tx # "service"
      /\ Dest(th["service"]) = "arm_answered"
      /\ ~Revoking
  BY <1>1, FreeThread, FreeMeansNotRevoking
<1>4. ~auth.ack /\ ~auth.open /\ ~revoked
  BY <1>1, <1>3 DEF RevokedInv, AuthInv, ArmPending
<1>5. /\ auth' \in AuthRecs
      /\ auth'.arming /\ ~auth'.in_progress
      /\ auth'.open = auth.open /\ auth'.cmd = "none"
  BY <1>1, <1>2 DEF ArmGranted, AuthRecs
<1>6. /\ Plain("CMD_VEL") \in Frames /\ ~Plain("CMD_VEL").moving
      /\ "armed" \in Ends
  BY PlainFrames, PointsAre DEF FrameTypes
<1> DEFINE f == Plain("CMD_VEL")
<1> HIDE DEF f
<1>7. f \in Frames /\ ~f.moving /\ th' = SendThen("service", <<f>>, "armed")
  BY <1>1, <1>6 DEF f
<1>8. <<f>> \in Seq(Frames) /\ <<f>> # <<>> /\ Len(<<f>>) = 1 /\ <<f>>[1] = f
  BY <1>7, OneFrame
<1>9. /\ Moves("service", Sends(<<f>>, "armed"))
      /\ Dest(Sends(<<f>>, "armed")) = "armed"
      /\ Sends(<<f>>, "armed").todo = <<f>>
  <2>1. /\ motion' = "service" /\ CanLock("service")
        /\ tx' = tx /\ tx # "service"
        /\ "armed" \in {"idle", "clear", "wait", "armed"}
    BY <1>1, <1>3
  <2>2. TypesInv /\ "service" \in Threads /\ "armed" \in Ends
    BY <1>1, <1>6
  <2> QED
    BY <1>7, <1>8, <2>1, <2>2, SendMoves
<1>10. FramesGo("service", Sends(<<f>>, "armed"))
  <2>1. \A i \in 1 .. Len(<<f>>) : i = 1 /\ ~<<f>>[i].moving
    BY <1>7, <1>8
  <2> QED
    BY <1>1, <1>4, <1>9, <2>1 DEF FramesGo
<1>11. AuthInv'
  BY <1>4, <1>5 DEF AuthInv
<1>12. ~ArmPending'
  <2>1. th'["service"] = Sends(<<f>>, "armed")
    BY <1>1, <1>9, MovesThreads
  <2> QED
    BY <1>9, <2>1 DEF ArmPending, Dest, Sending
<1>13. RevokedInv'
  BY <1>1, <1>4, <1>12 DEF RevokedInv
<1>14. MatchInv'
  BY <1>4, <1>5 DEF MatchInv
<1> QED
  BY <1>1, <1>5, <1>9, <1>10, <1>11, <1>13, <1>14, StepKeeps

LEMMA ArmReturnsKeeps ==
  ASSUME BridgeInv, ArmReturns
  PROVE  BridgeInv'
<1>1. /\ TypesInv /\ LocksInv /\ AuthInv /\ RevokedInv /\ "service" \in Threads
      /\ wire' \in Seq(Frames) /\ auth \in AuthRecs
      /\ th["service"].pc = "armed"
      /\ UNCHANGED <<cancelled, commanded, revoked, status, safety, port, tx>>
  BY DEF BridgeInv, TypesInv, ArmReturns, session, link, authority, Threads,
         At
<1>2. /\ tx # "service" /\ motion = "service" /\ CanLock("service")
  <2>1. /\ Shape(th["service"])
        /\ tx = "service" => th["service"].pc = "disconnect"
        /\ MustOwn(th["service"]) => motion = "service"
    BY <1>1 DEF LocksInv, At
  <2>2. MustOwn(th["service"])
    BY <1>1, <2>1 DEF Shape, MustOwn, Dest
  <2> QED
    BY <1>1, <2>1, <2>2 DEF CanLock
<1>3. ~Revoking
  BY <1>2 DEF Revoking
<1>4. CASE th["service"].sent
  <2>1. /\ auth' = Refreshed(auth, safety', status')
        /\ motion' = "none" /\ th' = Go("service", "idle")
    BY <1>1, <1>4 DEF ArmReturns
  <2>2. "idle" \in Stops \ {"wait", "armed"}
    BY DEF Stops, Pcs
  <2>3. /\ Moves("service", Stopped("idle"))
        /\ FramesGo("service", Stopped("idle"))
        /\ Dest(Stopped("idle")) = "idle"
    BY <1>1, <1>2, <2>1, <2>2, GoMoves
  <2> QED
    BY <1>1, <1>2, <1>3, <2>1, <2>3, RefreshStep
<1>5. CASE ~th["service"].sent
  <2>1. /\ UNCHANGED <<auth, motion>>
        /\ th' = SendThen("service", <<Plain("DISARM")>>, "clear")
    BY <1>5 DEF ArmReturns, authority
  <2>2. /\ Plain("DISARM") \in Frames /\ Plain("DISARM").type # "CMD_VEL"
        /\ "clear" \in Ends
    BY PlainFrames, PointsAre DEF FrameTypes
  <2>3. \E r : /\ Moves("service", r) /\ FramesGo("service", r)
               /\ Dest(r) = "clear"
    BY <1>1, <1>2, <2>1, <2>2, OneMoves
  <2> QED
    BY <1>1, <1>3, <2>1, <2>3, QuietStep
<1> QED
  BY <1>4, <1>5

LEMMA ArmFailsKeeps ==
  ASSUME BridgeInv, ArmFails
  PROVE  BridgeInv'
<1>1. /\ TypesInv /\ LocksInv /\ "service" \in Threads
      /\ wire' \in Seq(Frames) /\ auth \in AuthRecs
      /\ th["service"].pc = "arm_answered" /\ CanLock("service")
      /\ auth' = Cleared /\ cancelled' = TRUE /\ tx' = tx
  BY DEF BridgeInv, TypesInv, ArmFails, ClearAuthority, session, link,
         Threads, At
<1>2. motion # "service" /\ tx # "service"
  BY <1>1, FreeThread
<1>3. /\ Plain("DISARM") \in Frames /\ Plain("DISARM").type # "CMD_VEL"
      /\ "idle" \in Ends /\ "idle" \in Stops \ {"wait", "armed"}
  BY PlainFrames, PointsAre DEF FrameTypes, Stops, Pcs
<1>4. \E r : Moves("service", r) /\ NoVelocity(r.todo)
  <2>1. CASE /\ motion' = "service"
             /\ th' = SendThen("service", <<Plain("DISARM")>>, "idle")
    BY <1>1, <1>2, <1>3, <2>1, OneMoves
  <2>2. CASE motion' = motion /\ th' = Go("service", "idle")
    BY <1>1, <1>2, <1>3, <2>2, GoMoves
  <2> QED
    BY <2>1, <2>2 DEF ArmFails
<1> QED
  BY <1>1, <1>4, ClearedType, ClearStep

\* A request that is sent, and answered, inside _motion_lock; nothing is sent
\* while the link is down.
LEMMA RequestMoves ==
  ASSUME BridgeInv, NEW t \in Waiters, th[t].pc = "idle", CanLock(t),
         tx' = tx,
         NEW f \in Frames, f.type # "CMD_VEL",
         \/ motion' = t /\ th' = SendThen(t, <<f>>, "wait")
         \/ UNCHANGED <<motion, th>>
  PROVE  \E r : /\ Moves(t, r) /\ FramesGo(t, r) /\ NoVelocity(r.todo)
                /\ Dest(r) \in {"wait", "idle"}
<1>1. TypesInv /\ LocksInv /\ FramesInv /\ t \in Threads /\ "wait" \in Ends
  BY PointsAre DEF BridgeInv, Waiters, Threads
<1>2. /\ motion # t /\ tx # t /\ ~Sending(th[t])
      /\ Dest(th[t]) = "idle"
  BY <1>1, FreeThread
<1>3. CASE motion' = t /\ th' = SendThen(t, <<f>>, "wait")
  BY <1>1, <1>2, <1>3, OneMoves
<1>4. CASE UNCHANGED <<motion, th>>
  <2>1. Moves(t, th[t]) /\ FramesGo(t, th[t])
    BY <1>1, <1>2, <1>4, StaysMoves
  <2>2. Len(th[t].todo) = 0
    BY <1>2 DEF Sending
  <2> QED
    BY <1>2, <2>1, <2>2 DEF NoVelocity
<1> QED
  BY <1>3, <1>4

LEMMA ResetCalledKeeps ==
  ASSUME BridgeInv, ResetCalled
  PROVE  BridgeInv'
<1>1. /\ "service" \in Waiters /\ "service" \in Threads
      /\ th["service"].pc = "idle" /\ CanLock("service")
      /\ wire' \in Seq(Frames) /\ auth \in AuthRecs
      /\ auth' = Cleared /\ cancelled' = TRUE /\ tx' = tx
      /\ \/ /\ motion' = "service"
            /\ th' = SendThen("service", <<Frame("RESET", "service")>>,
                              "wait")
         \/ UNCHANGED <<motion, th>>
  BY DEF BridgeInv, TypesInv, ResetCalled, Call, ClearAuthority, link,
         Waiters, Threads, At
<1>2. /\ Frame("RESET", "service") \in Frames
      /\ Frame("RESET", "service").type # "CMD_VEL"
  BY FrameTypesHold DEF FrameTypes, Waiters
<1>3. \E r : Moves("service", r) /\ NoVelocity(r.todo)
  BY <1>1, <1>2, RequestMoves
<1> QED
  BY <1>1, <1>3, ClearedType, ClearStep

LEMMA ZeroCalledKeeps ==
  ASSUME BridgeInv, NEW call \in ZeroCalls, ZeroCalled(call)
  PROVE  BridgeInv'
<1>1. /\ TypesInv /\ LocksInv /\ AuthInv /\ RevokedInv /\ MatchInv
      /\ "zero" \in Waiters /\ "zero" \in Threads
      /\ th["zero"].pc = "idle" /\ CanLock("zero")
      /\ wire' \in Seq(Frames) /\ auth \in AuthRecs
      /\ UNCHANGED <<status, safety, port, tx>>
      /\ \/ /\ motion' = "zero"
            /\ th' = SendThen("zero", <<Frame(call, "zero")>>, "wait")
         \/ UNCHANGED <<motion, th>>
  BY DEF BridgeInv, TypesInv, ZeroCalled, Call, session, link, Waiters,
         Threads, At
<1>2. Frame(call, "zero") \in Frames /\ Frame(call, "zero").type # "CMD_VEL"
  BY FrameTypesHold DEF FrameTypes, Waiters, ZeroCalls
<1>3. PICK r : /\ Moves("zero", r) /\ FramesGo("zero", r)
               /\ NoVelocity(r.todo)
  BY <1>1, <1>2, RequestMoves
<1>4. CASE call # "STOP"
  <2>1. auth' = Cleared /\ cancelled' = TRUE
    BY <1>4 DEF ZeroCalled, ClearAuthority
  <2> QED
    BY <1>1, <1>3, <2>1, ClearedType, ClearStep
<1>5. CASE call = "STOP"
  <2>1. /\ auth' = [auth EXCEPT !.cmd = "none", !.in_progress = FALSE,
                      !.arming = @ /\ ~auth.in_progress]
        /\ cancelled' = (cancelled \/ auth.in_progress)
        /\ revoked' = (revoked \/ auth.in_progress)
    BY <1>5 DEF ZeroCalled
  <2>2. PICK arming \in BOOLEAN :
          arming = (auth.arming /\ ~auth.in_progress)
    OBVIOUS
  <2>3. auth' = [auth EXCEPT !.cmd = "none", !.in_progress = FALSE,
                   !.arming = arming]
    BY <2>1, <2>2
  <2>4. /\ auth' \in AuthRecs /\ auth'.cmd = "none"
        /\ auth'.in_progress = FALSE /\ auth'.arming = arming
        /\ auth'.ack = auth.ack /\ auth'.esp_armed = auth.esp_armed
        /\ auth'.mode = auth.mode /\ auth'.open = auth.open
    BY <1>1, <2>3 DEF AuthRecs
  <2>5. ~Revoking
    BY <1>1, FreeMeansNotRevoking
  <2>6. AuthInv'
    BY <1>1, <2>2, <2>4 DEF AuthInv
  <2>7. th'["service"] = th["service"] /\ th'["io"] = th["io"]
    BY <1>1, <1>3, MovesThreads DEF Threads
  <2>8. RevokedInv'
    <3>1. revoked' => cancelled' /\ ~auth.ack
      BY <1>1, <2>1, <2>5 DEF RevokedInv, AuthInv
    <3>2. ArmPending' <=> ArmPending
      BY <2>7 DEF ArmPending, Dest, Sending
    <3> QED
      BY <1>1, <2>4, <3>1, <3>2 DEF RevokedInv
  <2>9. MatchInv'
    <3>1. ExpectedState(auth'.mode) = ExpectedState(auth.mode)
      BY <2>4
    <3>2. Matching' <=> Matching
      BY <1>1, <3>1 DEF Matching, ExpectedState
    <3> QED
      BY <1>1, <2>4, <2>5, <2>7, <3>2 DEF MatchInv, At
  <2> QED
    BY <1>1, <1>3, <2>4, <2>6, <2>8, <2>9, StepKeeps
<1> QED
  BY <1>4, <1>5

LEMMA WaiterReturnsKeeps ==
  ASSUME BridgeInv, NEW t \in Waiters, WaiterReturns(t)
  PROVE  BridgeInv'
<1>1. /\ TypesInv /\ LocksInv /\ t \in Threads
      /\ th[t].pc = "wait"
      /\ th' = Go(t, "idle") /\ motion' = "none"
      /\ wire \in Seq(Frames) /\ wire' = Forgotten(t, wire)
      /\ UNCHANGED <<auth, cancelled, commanded, revoked, status, safety,
                     port, tx>>
  BY DEF BridgeInv, TypesInv, WaiterReturns, session, authority, Waiters,
         Threads, At
<1>2. tx # t /\ motion = t /\ CanLock(t)
  <2>1. /\ Shape(th[t])
        /\ tx = t => th[t].pc = "disconnect"
        /\ MustOwn(th[t]) => motion = t
    BY <1>1 DEF LocksInv, At
  <2>2. MustOwn(th[t])
    BY <1>1, <2>1 DEF Shape, MustOwn, Dest
  <2> QED
    BY <1>1, <2>1, <2>2 DEF CanLock
<1>3. "idle" \in Stops \ {"wait", "armed"}
  BY DEF Stops, Pcs
<1>4. /\ Moves(t, Stopped("idle")) /\ FramesGo(t, Stopped("idle"))
      /\ Dest(Stopped("idle")) = "idle"
  BY <1>1, <1>2, <1>3, GoMoves
<1>5. wire' \in Seq(Frames)
  BY <1>1, ForgottenType
<1>6. t # "control" /\ t # "io"
  BY DEF Waiters
<1> QED
  BY <1>1, <1>4, <1>5, <1>6, QuietStep

LEMMA ServicesKeep ==
  ASSUME BridgeInv, Services
  PROVE  BridgeInv'
<1>1. CASE ArmCalled \/ RelayCalled \/ RelayReturns
  BY <1>1, ServiceStarts
<1>2. CASE ArmWaitEnds \/ RelayWaitEnds
  BY <1>2, WaitEndsKeeps
<1>3. CASE BeginArm
  BY <1>3, BeginArmKeeps
<1>4. CASE ArmSucceeds
  BY <1>4, ArmSucceedsKeeps
<1>5. CASE ArmReturns
  BY <1>5, ArmReturnsKeeps
<1>6. CASE ArmFails
  BY <1>6, ArmFailsKeeps
<1>7. CASE ResetCalled
  BY <1>7, ResetCalledKeeps
<1>8. CASE \E call \in ZeroCalls : ZeroCalled(call)
  BY <1>8, ZeroCalledKeeps
<1>9. CASE \E t \in Waiters : WaiterReturns(t)
  BY <1>9, WaiterReturnsKeeps
<1> QED
  BY <1>1, <1>2, <1>3, <1>4, <1>5, <1>6, <1>7, <1>8, <1>9 DEF Services

-----------------------------------------------------------------------------
(* The bridge                                                              *)

LEMMA BridgeInit ==
  ASSUME Init
  PROVE  BridgeInv
<1>1. Init
  OBVIOUS
<1>2. Idle = Stopped("idle")
  BY DEF Idle, Stopped
<1>3. "idle" \in Stops
  BY DEF Stops, Pcs
<1>4. /\ Idle \in ThreadRecs /\ Idle.pc = "idle" /\ Idle.todo = <<>>
      /\ ~Sending(Idle) /\ Dest(Idle) = "idle" /\ Shape(Idle)
  BY <1>2, <1>3, StoppedShape
<1>5. \A t \in Threads : th[t] = Idle
  BY <1>1 DEF Init
<1>6. <<>> \in Seq(Frames)
  OBVIOUS
<1>7. TypesInv
  BY <1>1, <1>4, <1>6, NoAuthType DEF Init, TypesInv
<1>8. LocksInv
  <2>1. ~MustOwn(Idle)
    BY <1>4 DEF MustOwn
  <2>2. motion \notin Threads /\ tx \notin Threads
    BY <1>1 DEF Init, Threads
  <2> QED
    BY <1>4, <1>5, <2>1, <2>2 DEF LocksInv
<1>9. /\ ~auth.open /\ ~auth.ack /\ auth.cmd = "none" /\ ~revoked
  BY <1>1, NoAuthType DEF Init
<1>10. AuthInv /\ RevokedInv /\ MatchInv
  BY <1>9 DEF AuthInv, RevokedInv, MatchInv
<1>11. FramesInv
  <2>1. Len(Idle.todo) = 0
    BY <1>4
  <2> QED
    BY <1>5, <2>1 DEF FramesInv, FrameOK
<1> QED
  BY <1>7, <1>8, <1>10, <1>11 DEF BridgeInv

LEMMA BridgeStep ==
  ASSUME BridgeInv, [Next]_vars
  PROVE  BridgeInv'
<1>1. CASE \E t \in Threads : Serial(t)
  BY <1>1, SerialKeeps
<1>2. CASE Io
  BY <1>2, IoKeeps
<1>3. CASE Control
  BY <1>3, OnCmdVelKeeps, RejectVelocityKeeps, OnSafetyStateKeeps DEF Control
<1>4. CASE CommandTick
  BY <1>4, CommandTickKeeps
<1>5. CASE HeartbeatTick
  BY <1>5, StartDisconnectKeeps DEF HeartbeatTick, At, Threads
<1>6. CASE Services
  BY <1>6, ServicesKeep
<1>7. CASE CommandGoesStale
  BY <1>7, CommandGoesStaleKeeps
<1>8. CASE Firmware
  <2>1. wire \in Seq(Frames)
    BY DEF BridgeInv, TypesInv
  <2>2. wire' \in Seq(Frames)
    <3>1. CASE EspReceives
      BY <2>1, <3>1, RestOfFrames DEF EspReceives
    <3>2. CASE ~EspReceives
      BY <1>8, <2>1, <3>2
         DEF Firmware, EspFaults, EspLosesSession, EspStatus
    <3> QED
      BY <3>1, <3>2
  <2>3. UNCHANGED <<port, safety, status, authority, locks, th, revoked>>
    BY <1>8 DEF Firmware, EspReceives, EspFaults, EspLosesSession, EspStatus,
                session
  <2> QED
    BY <2>2, <2>3, OutsideKeeps
<1>9. CASE UNCHANGED vars
  <2>1. /\ UNCHANGED <<port, safety, status, authority, locks, th, revoked>>
        /\ wire' = wire
    BY <1>9 DEF vars, session, link
  <2> QED
    BY <2>1, OutsideKeeps DEF BridgeInv, TypesInv
<1> QED
  BY <1>1, <1>2, <1>3, <1>4, <1>5, <1>6, <1>7, <1>8, <1>9 DEF Next, Timers

\* The invariant of the locks, the authority and the frames that are pending.
THEOREM BridgeInvariant == Spec => []BridgeInv
<1>1. Init => BridgeInv
  BY BridgeInit
<1>2. BridgeInv /\ [Next]_vars => BridgeInv'
  BY BridgeStep
<1> QED
  BY <1>1, <1>2, PTL DEF Spec

\* The gate to motion is open only for an ARM that was acknowledged and not
\* revoked, in the mode the safety node published, unless the thread that is
\* to close it is on its way.
THEOREM BridgeGateJustified == Spec => []GateJustified
<1>1. BridgeInv => GateJustified
  <2> SUFFICES ASSUME BridgeInv, auth.open
               PROVE  /\ auth.arming /\ auth.ack /\ auth.esp_armed
                      /\ ~auth.in_progress
                      /\ ~revoked \/ motion = "control"
                      /\ ~status.latched
                      /\ \/ safety = ExpectedState(auth.mode)
                         \/ motion = "control"
                         \/ ~port \/ At("io", "opened")
    BY DEF GateJustified
  <2>1. /\ auth.arming /\ auth.ack /\ auth.esp_armed
        /\ ~auth.in_progress /\ ~status.latched
    BY DEF BridgeInv, AuthInv
  <2>2. ~revoked \/ motion = "control"
    BY <2>1 DEF BridgeInv, RevokedInv, Revoking
  <2>3. \/ safety = ExpectedState(auth.mode)
        \/ motion = "control"
        \/ ~port \/ At("io", "opened")
    BY DEF BridgeInv, MatchInv, Matching, Revoking
  <2> QED
    BY <2>1, <2>2, <2>3
<1> QED
  BY <1>1, BridgeInvariant, PTL

\* A frame on the wire is the first of the frames of a thread that sends.
LEMMA WrittenIsFirst ==
  ASSUME BridgeInv, [Next]_vars, Len(wire') > Len(wire)
  PROVE  \E t \in Threads :
           /\ Sent(t)
           /\ 1 \in 1 .. Len(th[t].todo)
           /\ wire'[Len(wire')] = th[t].todo[1]
<1>1. wire \in Seq(Frames) /\ Len(wire) \in Nat
  BY DEF BridgeInv, TypesInv
<1>2. wire' # wire
  BY <1>1
<1>3. ~\E t : wire' = Forgotten(t, wire)
  BY <1>1, ForgottenType
<1>4. ~EspReceives
  <2>1. wire # <<>> => Len(Tail(wire)) < Len(wire)
    BY <1>1
  <2> QED
    BY <1>1, <2>1 DEF EspReceives
<1>5. PICK t \in Threads : Sent(t)
  <2>1. Next
    BY <1>2 DEF vars, link
  <2>2. CASE \E t \in Threads : Serial(t)
    <3>1. PICK t \in Threads : Serial(t)
      BY <2>2
    <3>2. ~(NotSent(t) \/ WriteFails(t) \/ FinishDisconnect(t)
              \/ ClearAndReturn(t))
      BY <1>2 DEF NotSent, WriteFails, StartDisconnect, FinishDisconnect,
                  ClearAndReturn, link
    <3> QED
      BY <3>1, <3>2 DEF Serial
  <2>3. ~Io
    BY <1>2 DEF Io, OpenSerial, Opened, Reset, ReadBytes, ReadFails,
                RepeatHello, HandleHelloAck, Greeted, HandleEvent,
                HandleStatus, SessionLost, PublishStatus, HandleCommandAck,
                VelocityRefused, Refused, Handle, link
  <2>4. ~Control /\ ~Timers /\ ~CommandGoesStale
    BY <1>2 DEF Control, OnCmdVel, RejectVelocity, OnSafetyState, Timers,
                CommandTick, HeartbeatTick, StartDisconnect, CommandGoesStale,
                link
  <2>5. ~Services
    <3>1. ~(ArmCalled \/ BeginArm \/ ArmSucceeds \/ ArmReturns \/ ArmFails)
      BY <1>2 DEF ArmCalled, BeginArm, ArmSucceeds, ArmReturns, ArmFails, link
    <3>2. ~(ResetCalled \/ RelayCalled \/ RelayReturns)
      BY <1>2 DEF ResetCalled, RelayCalled, RelayReturns, link
    <3>3. ~\E call \in ZeroCalls : ZeroCalled(call)
      BY <1>2 DEF ZeroCalled, link
    <3>4. ~(ArmWaitEnds \/ RelayWaitEnds)
      BY <1>3 DEF ArmWaitEnds, RelayWaitEnds, WaitEnds
    <3>5. ~\E u \in Waiters : WaiterReturns(u)
      BY <1>3 DEF WaiterReturns
    <3> QED
      BY <3>1, <3>2, <3>3, <3>4, <3>5 DEF Services
  <2>6. ~Firmware
    BY <1>2, <1>4 DEF Firmware, EspFaults, EspLosesSession, EspStatus
  <2> QED
    BY <2>1, <2>2, <2>3, <2>4, <2>5, <2>6 DEF Next
<1>6. /\ th[t].todo \in Seq(Frames) /\ th[t].todo # <<>>
      /\ wire' = Append(wire, Head(th[t].todo))
  BY <1>5 DEF Sent, At, BridgeInv, LocksInv, Shape, Sending, TypesInv,
              ThreadRecs
<1>7. /\ 1 \in 1 .. Len(th[t].todo) /\ Head(th[t].todo) = th[t].todo[1]
      /\ Head(th[t].todo) \in Frames
  BY <1>6, RestOfFrames
<1>8. wire'[Len(wire')] = Head(th[t].todo)
  BY <1>1, <1>6, <1>7
<1> QED
  BY <1>5, <1>7, <1>8

\* Whatever thread writes a CMD_VEL holds _motion_lock, and nothing has been
\* revoked; one that moves the robot obeys a command it may obey.
LEMMA VelocityWrittenFacts ==
  ASSUME BridgeInv, [Next]_vars, VelocityWritten
  PROVE  /\ ~revoked
         /\ wire'[Len(wire')].moving =>
              /\ auth.open /\ auth.cmd # "none" /\ commanded
              /\ Sent("command") /\ motion = "command"
<1>1. Len(wire') > Len(wire) /\ wire'[Len(wire')].type = "CMD_VEL"
  BY DEF VelocityWritten
<1>2. PICK t \in Threads :
        /\ Sent(t)
        /\ 1 \in 1 .. Len(th[t].todo)
        /\ wire'[Len(wire')] = th[t].todo[1]
  BY <1>1, WrittenIsFirst
<1>3. /\ motion = t /\ ~revoked
      /\ th[t].todo[1].moving =>
           t = "command" /\ auth.open /\ auth.cmd # "none"
  BY <1>1, <1>2 DEF BridgeInv, FramesInv, FrameOK
<1>4. auth.cmd # "none" => commanded
  BY DEF BridgeInv, AuthInv
<1> QED
  BY <1>2, <1>3, <1>4

\* After a DISARM, an ESTOP or a cancelling STOP no CMD_VEL is written until a
\* later ARM was acknowledged, however the threads interleave.
THEOREM BridgeRevocationSticks == Spec => RevocationSticks
<1>1. BridgeInv /\ [Next]_vars => [VelocityWritten => ~revoked]_vars
  BY VelocityWrittenFacts
<1> QED
  BY <1>1, BridgeInvariant, PTL DEF Spec, RevocationSticks

\* The robot is moved only on a command that arrived after the ARM and after
\* the last STOP.
THEOREM BridgeMotionNeedsFreshCommand == Spec => MotionNeedsFreshCommand
<1>1. BridgeInv /\ [Next]_vars
        => [MovingVelocityWritten => commanded /\ auth.cmd # "none"]_vars
  BY VelocityWrittenFacts DEF MovingVelocityWritten
<1> QED
  BY <1>1, BridgeInvariant, PTL DEF Spec, MotionNeedsFreshCommand

-----------------------------------------------------------------------------
(* Answers                                                                 *)

AckFrames ==
  [type : {"ACK"}, of : FrameTypes, tag : Waiters \cup {"none"},
   verdict : {"ok", "refused", "not_armed"}]

EventFrames == [type : {"HELLO_ACK", "EVENT"}]

StatusFrames ==
  [type : {"STATUS"}, armed : BOOLEAN, latched : BOOLEAN, lost : BOOLEAN]

Answers == AckFrames \cup EventFrames \cup StatusFrames

\* What an entry of _pending_acks may say; "none" is no entry.
Verdicts == {"none", "waiting", "woken", "ok", "refused", "not_armed"}

\* A thread has closed the port and will drop the authority.
Closing ==
  \/ \E t \in Threads : tx = t /\ At(t, "disconnect")
  \/ At("io", "disconnect") /\ ~port

\* Where the thread t may be while its entry of _pending_acks exists.
WaitPoints ==
  {"wait", "arm_wait", "arm_answered", "relay_wait", "relay_answered"}

AnsweredPoints == {"arm_answered", "relay_answered"}

AckFor(frame, t) == frame.type = "ACK" /\ frame.tag = t

\* Something on the link still names the request of t.
Named(t) ==
  \/ \E i \in 1 .. Len(wire) : wire[i].tag = t
  \/ \E i \in 1 .. Len(rx) : AckFor(rx[i], t)

\* A frame that asks for an answer is the only one of a handler that waits.
Requests(t, r) ==
  \A i \in 1 .. Len(r.todo) :
    r.todo[i].tag # "none" =>
      /\ r.todo[i].tag = t
      /\ Len(r.todo) = 1
      /\ r.then \in {"wait", "arm_wait", "relay_wait"}

\* An answer is credited to the request it answers, or to none.
PendingInv ==
  /\ rx \in Seq(Answers) /\ batch \in 0 .. Len(rx)
  /\ pending \in [Waiters -> Verdicts]
  /\ \A t \in Waiters :
       /\ Named(t) => pending[t] # "none" /\ th[t].pc \notin AnsweredPoints
       /\ pending[t] # "none" => th[t].pc \in WaitPoints
  /\ \A t \in Threads : Requests(t, th[t])

\* An ARM that was written, and the authority it earned, do not outlive the
\* connection: the thread that closes the port takes them away.
ConnectionInv ==
  /\ ArmPending /\ ~cancelled /\ pending["service"] # "none" /\ ~port
       => Closing
  /\ auth.ack /\ ~port => Closing

Moving(r) ==
  \E i \in 1 .. Len(r.todo) : r.todo[i].type = "CMD_VEL" /\ r.todo[i].moving

MovingPending == Moving(th["command"])

\* No CMD_VEL that moves the robot can be written to a port opened after it
\* was made.
ReopenInv ==
  At("io", "opened") => ~handshake /\ (MovingPending => tx # "none")

AnswerInv == PendingInv /\ ConnectionInv /\ ReopenInv

\* A step of thread t that asks for nothing and answers nothing.
Acts(t, r) ==
  /\ th' = [th EXCEPT ![t] = r]
  /\ Requests(t, r)
  /\ th[t].pc \notin WaitPoints \cup {"disconnect"}
  /\ r.pc # "opened"
  /\ t = "command" => handshake \/ ~Moving(r)
  /\ UNCHANGED <<port, tx, pending>>
  /\ handshake' => handshake \/ t = "io"
  /\ auth'.ack => auth.ack
  /\ t = "service" \/ (cancelled => cancelled')

\* What is on the link names no request that was not named before.
Forgets ==
  /\ rx' \in Seq(Answers) /\ batch' \in 0 .. Len(rx')
  /\ \A t \in Waiters : Named(t)' => Named(t)

\* The same requests wait for an answer as before.
SameAsked ==
  /\ pending' \in [Waiters -> Verdicts]
  /\ \A u \in Waiters : pending'[u] = "none" <=> pending[u] = "none"

\* Thread t, which does not wait, asks for nothing new.
LEMMA PendingStep ==
  ASSUME TypesInv, PendingInv, NEW t \in Threads, NEW r,
         th' = [th EXCEPT ![t] = r], Requests(t, r),
         th[t].pc \notin WaitPoints, SameAsked, Forgets
  PROVE  PendingInv'
<1>1. /\ th'[t] = r
      /\ \A u \in Threads \ {t} : th'[u] = th[u]
      /\ Waiters \subseteq Threads
  BY DEF TypesInv, Threads, Waiters
<1>2. t \in Waiters => pending[t] = "none" /\ ~Named(t)
  BY DEF PendingInv
<1>3. ASSUME NEW u \in Waiters
      PROVE  /\ Named(u)' => /\ pending'[u] # "none"
                             /\ th'[u].pc \notin AnsweredPoints
             /\ pending'[u] # "none" => th'[u].pc \in WaitPoints
  <2>1. /\ Named(u)' => Named(u)
        /\ pending'[u] = "none" <=> pending[u] = "none"
    BY DEF Forgets, SameAsked
  <2>2. CASE u = t
    BY <1>2, <2>1, <2>2
  <2>3. CASE u # t
    <3>1. th'[u] = th[u]
      BY <1>1, <2>3
    <3> QED
      BY <2>1, <3>1 DEF PendingInv
  <2> QED
    BY <2>2, <2>3
<1>4. ASSUME NEW u \in Threads
      PROVE  Requests(u, th'[u])
  BY <1>1 DEF PendingInv
<1> QED
  BY <1>3, <1>4 DEF PendingInv, Requests, Forgets, SameAsked

\* Closing the port and opening it are the business of others.
LEMMA ConnectionKept ==
  ASSUME TypesInv, ConnectionInv, NEW t \in Threads, NEW r,
         th' = [th EXCEPT ![t] = r], th[t].pc # "disconnect",
         UNCHANGED <<port, tx>>,
         ArmPending' /\ ~cancelled' /\ pending'["service"] # "none"
           => ArmPending /\ ~cancelled /\ pending["service"] # "none",
         auth'.ack => auth.ack \/ port \/ Closing
  PROVE  ConnectionInv'
<1>1. \A u \in Threads : th[u].pc = "disconnect" => th'[u] = th[u]
  BY DEF TypesInv
<1>2. Closing => Closing'
  BY <1>1 DEF Closing, At, Threads
<1> QED
  BY <1>2 DEF ConnectionInv

\* An ARM that is not pending does not become so with an entry of its own.
LEMMA ConnectionStep ==
  ASSUME TypesInv, PendingInv, ConnectionInv, NEW t \in Threads, NEW r,
         th' = [th EXCEPT ![t] = r],
         th[t].pc \notin WaitPoints \cup {"disconnect"},
         UNCHANGED <<port, tx>>, SameAsked,
         auth'.ack => auth.ack,
         t = "service" \/ (cancelled => cancelled')
  PROVE  ConnectionInv'
<1>1. "service" \in Waiters /\ "service" \in Threads
  BY DEF Waiters, Threads
<1>2. ASSUME ArmPending', ~cancelled', pending'["service"] # "none"
      PROVE  ArmPending /\ ~cancelled /\ pending["service"] # "none"
  <2>1. pending["service"] # "none"
    BY <1>1, <1>2 DEF SameAsked
  <2>2. t # "service"
    BY <1>1, <2>1 DEF PendingInv
  <2>3. th'["service"] = th["service"] /\ ~cancelled
    BY <1>1, <1>2, <2>2 DEF TypesInv
  <2> QED
    BY <1>2, <2>1, <2>3 DEF ArmPending, Dest, Sending
<1> QED
  BY <1>2, ConnectionKept

LEMMA ReopenStep ==
  ASSUME TypesInv, ReopenInv, NEW t \in Threads, NEW r,
         th' = [th EXCEPT ![t] = r], r.pc # "opened",
         t = "command" => handshake \/ ~Moving(r),
         tx' = tx,
         handshake' => handshake \/ t = "io"
  PROVE  ReopenInv'
<1>1. /\ th'[t] = r
      /\ \A u \in Threads \ {t} : th'[u] = th[u]
      /\ "io" \in Threads /\ "command" \in Threads
  BY DEF TypesInv, Threads
<1>2. ASSUME th'["io"].pc = "opened"
      PROVE  /\ t # "io" /\ th["io"].pc = "opened"
             /\ ~handshake /\ ~handshake'
  BY <1>1, <1>2 DEF ReopenInv, At
<1>3. ASSUME th'["io"].pc = "opened", Moving(th'["command"])
      PROVE  tx' # "none"
  <2>1. Moving(th["command"])
    BY <1>1, <1>2, <1>3
  <2> QED
    BY <1>2, <1>3, <2>1 DEF ReopenInv, At, MovingPending
<1> QED
  BY <1>2, <1>3 DEF ReopenInv, At, MovingPending, Moving

LEMMA OrdinaryStep ==
  ASSUME TypesInv, AnswerInv, NEW t \in Threads, NEW r, Acts(t, r), Forgets
  PROVE  AnswerInv'
<1>1. PendingInv /\ ConnectionInv /\ ReopenInv
  BY DEF AnswerInv
<1>2. SameAsked
  BY <1>1 DEF Acts, SameAsked, PendingInv
<1>3. PendingInv'
  BY <1>1, <1>2, PendingStep DEF Acts
<1>4. ConnectionInv'
  BY <1>1, <1>2, ConnectionStep DEF Acts
<1>5. ReopenInv'
  BY <1>1, ReopenStep DEF Acts
<1> QED
  BY <1>3, <1>4, <1>5 DEF AnswerInv

LEMMA RequestsNothing ==
  ASSUME NEW t, NEW r, r.todo = <<>>
  PROVE  Requests(t, r) /\ ~Moving(r)
<1>1. Len(r.todo) = 0
  OBVIOUS
<1> QED
  BY <1>1 DEF Requests, Moving

LEMMA RequestsOne ==
  ASSUME NEW t, NEW pc, NEW f \in Frames,
         \/ f.tag = "none"
         \/ f.tag = t /\ pc \in {"wait", "arm_wait", "relay_wait"}
  PROVE  /\ Requests(t, Sends(<<f>>, pc))
         /\ f.moving = FALSE => ~Moving(Sends(<<f>>, pc))
<1>1. /\ Sends(<<f>>, pc).todo = <<f>> /\ Sends(<<f>>, pc).then = pc
      /\ Sends(<<f>>, pc).pc = "send"
  BY DEF Sends
<1>2. Len(<<f>>) = 1 /\ <<f>>[1] = f
  BY OneFrame
<1>3. \A i \in 1 .. Len(<<f>>) : <<f>>[i] = f
  BY <1>2
<1> QED
  BY <1>1, <1>2, <1>3 DEF Requests, Moving

\* The first frame of a batch is taken off the link.
LEMMA ForgetsOne ==
  ASSUME PendingInv,
         wire' = wire,
         \/ UNCHANGED <<rx, batch>>
         \/ rx' = rx /\ batch' \in 1 .. Len(rx)
         \/ batch > 0 /\ rx' = Tail(rx) /\ batch' = batch - 1
         \/ batch = 0 /\ rx' = <<>> /\ batch' = batch
  PROVE  Forgets
<1>1. rx \in Seq(Answers) /\ batch \in 0 .. Len(rx) /\ Len(rx) \in Nat
  BY DEF PendingInv
<1>2. CASE rx' = rx
  BY <1>1, <1>2 DEF Forgets, Named, AckFor
<1>3. CASE batch > 0 /\ rx' = Tail(rx) /\ batch' = batch - 1
  <2>1. rx # <<>> /\ Len(rx) > 0
    BY <1>1, <1>3
  <2>2. /\ rx' \in Seq(Answers) /\ Len(rx') = Len(rx) - 1
        /\ \A j \in 1 .. Len(rx') : rx'[j] = rx[j + 1]
                                    /\ j + 1 \in 1 .. Len(rx)
    BY <1>1, <1>3, <2>1
  <2>3. batch' \in 0 .. Len(rx')
    <3>1. ASSUME NEW n \in Nat, NEW b \in 0 .. n, b > 0
          PROVE  b - 1 \in 0 .. n - 1
      BY <3>1
    <3>2. batch - 1 \in 0 .. Len(rx) - 1
      BY <1>1, <1>3, <3>1
    <3> QED
      BY <1>3, <2>2, <3>2
  <2>4. \A t : Named(t)' => Named(t)
    BY <2>2 DEF Named, AckFor
  <2> QED
    BY <2>2, <2>3, <2>4 DEF Forgets
<1>4. CASE batch = 0 /\ rx' = <<>> /\ batch' = batch
  <2>1. Len(rx') = 0 /\ rx' \in Seq(Answers)
    BY <1>4
  <2> QED
    BY <1>4, <2>1 DEF Forgets, Named
<1> QED
  BY <1>1, <1>2, <1>3, <1>4

\* The two ways of a handler to go on.
LEMMA GoActs ==
  ASSUME TypesInv, PendingInv, NEW t \in Threads, NEW pc,
         th' = Go(t, pc), pc # "opened",
         th[t].pc \notin WaitPoints \cup {"disconnect"},
         UNCHANGED <<port, tx, pending>>,
         handshake' => handshake \/ t = "io",
         auth'.ack => auth.ack,
         t = "service" \/ (cancelled => cancelled')
  PROVE  \E r : Acts(t, r)
<1>1. /\ Stopped(pc).todo = <<>> /\ Stopped(pc).pc = pc
      /\ th' = [th EXCEPT ![t] = Stopped(pc)]
  BY GoIs DEF Stopped
<1> QED
  BY <1>1, RequestsNothing DEF Acts

LEMMA SendActs ==
  ASSUME TypesInv, PendingInv, NEW t \in Threads, NEW pc,
         NEW f \in Frames,
         th' = SendThen(t, <<f>>, pc),
         \/ f.tag = "none"
         \/ f.tag = t /\ pc \in {"wait", "arm_wait", "relay_wait"},
         t = "command" => handshake \/ f.moving = FALSE,
         th[t].pc \notin WaitPoints \cup {"disconnect"},
         UNCHANGED <<port, tx, pending>>,
         handshake' => handshake \/ t = "io",
         auth'.ack => auth.ack,
         t = "service" \/ (cancelled => cancelled')
  PROVE  \E r : Acts(t, r)
<1>1. th' = [th EXCEPT ![t] = Sends(<<f>>, pc)]
  BY OneFrame, SendThenIs
<1>2. Sends(<<f>>, pc).pc = "send"
  BY DEF Sends
<1>3. /\ Requests(t, Sends(<<f>>, pc))
      /\ f.moving = FALSE => ~Moving(Sends(<<f>>, pc))
  BY RequestsOne
<1> QED
  BY <1>1, <1>2, <1>3 DEF Acts

LEMMA IoActs ==
  ASSUME BridgeInv, PendingInv,
         \/ Opened \/ RepeatHello \/ Greeted \/ SessionLost \/ VelocityRefused
         \/ HandleHelloAck \/ HandleEvent \/ Refused
  PROVE  (\E r : Acts("io", r)) /\ Forgets
<1>1. /\ TypesInv /\ "io" \in Threads /\ auth \in AuthRecs
      /\ tx' = tx /\ pending' = pending /\ port' = port /\ wire' = wire
      /\ th["io"].pc \notin WaitPoints \cup {"disconnect"}
  BY DEF BridgeInv, TypesInv, Threads, Opened, RepeatHello, Greeted,
         SessionLost, Reset, VelocityRefused, HandleHelloAck, HandleEvent,
         Refused, Handle, locks, link, session, At, WaitPoints
<1>2. /\ auth'.ack => auth.ack
      /\ cancelled => cancelled'
  <2>1. CASE UNCHANGED <<auth, cancelled>>
    BY <2>1
  <2>2. CASE ClearAuthority
    BY <1>1, <2>2, ClearedType DEF ClearAuthority
  <2> QED
    BY <2>1, <2>2
       DEF Opened, RepeatHello, Greeted, SessionLost, Reset, VelocityRefused,
           HandleHelloAck, HandleEvent, Refused, authority
<1>3. Forgets
  <2>1. \/ UNCHANGED <<rx, batch>>
        \/ batch > 0 /\ rx' = Tail(rx) /\ batch' = batch - 1
    BY DEF Opened, RepeatHello, Greeted, SessionLost, Reset, VelocityRefused,
           HandleHelloAck, HandleEvent, Refused, Handle, link
  <2> QED
    BY <1>1, <2>1, ForgetsOne
<1>4. /\ Plain("HELLO") \in Frames /\ Plain("HELLO").tag = "none"
      /\ Plain("DISARM") \in Frames /\ Plain("DISARM").tag = "none"
      /\ Plain("STOP") \in Frames /\ Plain("STOP").tag = "none"
  BY PlainFrames DEF FrameTypes, Plain, Frame
<1>5. \/ \E pc : pc # "opened" /\ th' = Go("io", pc)
      \/ \E f, pc :
           f \in Frames /\ f.tag = "none" /\ th' = SendThen("io", <<f>>, pc)
  <2>1. CASE Opened \/ SessionLost \/ RepeatHello \/ Greeted
             \/ VelocityRefused
    BY <1>4, <2>1
       DEF Opened, SessionLost, Reset, RepeatHello, Greeted, VelocityRefused
  <2>2. CASE HandleHelloAck
    <3>1. \E pc \in {"clear", "greeted"} : th' = Go("io", pc)
      BY <2>2 DEF HandleHelloAck
    <3> QED
      BY <3>1
  <2>3. CASE HandleEvent \/ Refused
    <3>1. th' = Go("io", "clear") \/ th' = Go("io", "idle")
      BY <2>3 DEF HandleEvent, Refused
    <3> QED
      BY <3>1
  <2> QED
    BY <2>1, <2>2, <2>3
<1>6. CASE \E pc : pc # "opened" /\ th' = Go("io", pc)
  <2>1. PICK pc : pc # "opened" /\ th' = Go("io", pc)
    BY <1>6
  <2> QED
    BY <1>1, <1>2, <1>3, <2>1, GoActs
<1>7. CASE \E f, pc :
             f \in Frames /\ f.tag = "none" /\ th' = SendThen("io", <<f>>, pc)
  <2>1. PICK f, pc :
          f \in Frames /\ f.tag = "none" /\ th' = SendThen("io", <<f>>, pc)
    BY <1>7
  <2> QED
    BY <1>1, <1>2, <1>3, <2>1, SendActs
<1> QED
  BY <1>5, <1>6, <1>7

LEMMA HandleStatusActs ==
  ASSUME BridgeInv, PendingInv, HandleStatus
  PROVE  (\E r : Acts("io", r)) /\ Forgets
<1> DEFINE publish == CASE Head(rx).latched -> "status_latched"
                        [] Head(rx).armed -> "status_armed"
                        [] OTHER -> "status_disarmed"
           pc == IF handshake /\ Head(rx).lost THEN "lost" ELSE publish
           r == StatusRec(pc, publish)
<1>1. /\ th["io"].pc = "idle" /\ wire' = wire
      /\ batch > 0 /\ rx' = Tail(rx) /\ batch' = batch - 1
      /\ UNCHANGED <<auth, cancelled, port, tx, pending>>
  BY DEF HandleStatus, Handle, authority, locks, At
<1>2. th' = [th EXCEPT !["io"] = r]
  BY Zenon DEF HandleStatus, StatusRec
<1>3. publish \in StatusStops
  <2>1. CASE Head(rx).latched
    BY <2>1 DEF StatusStops
  <2>2. CASE ~Head(rx).latched /\ Head(rx).armed
    BY <2>2 DEF StatusStops
  <2>3. CASE ~Head(rx).latched /\ ~Head(rx).armed
    BY <2>3 DEF StatusStops
  <2> QED
    BY <2>1, <2>2, <2>3
<1> HIDE DEF publish
<1>4. pc \in StatusStops \cup {"lost"}
  BY <1>3
<1> HIDE DEF pc
<1>5. r.todo = <<>> /\ Dest(r) = pc
  BY <1>3, <1>4, StatusShape
<1> HIDE DEF r
<1>6. r.pc # "opened"
  BY <1>4, <1>5 DEF Dest, Sending, StatusStops
<1>7. Forgets
  BY <1>1, ForgetsOne
<1>8. Acts("io", r)
  BY <1>1, <1>2, <1>5, <1>6, RequestsNothing DEF Acts, WaitPoints
<1> QED
  BY <1>7, <1>8

LEMMA PublishStatusActs ==
  ASSUME BridgeInv, PendingInv, PublishStatus
  PROVE  (\E r : Acts("io", r)) /\ Forgets
<1> DEFINE new == [armed |-> At("io", "status_armed"),
                   latched |-> At("io", "status_latched")]
           a == [auth EXCEPT !.esp_armed = TRUE]
<1>1. /\ TypesInv /\ "io" \in Threads /\ auth \in AuthRecs
      /\ th["io"].pc \in StatusStops
      /\ th' = Go("io", "idle")
      /\ UNCHANGED <<port, tx, wire, pending, rx, batch>>
      /\ handshake' = handshake
  BY DEF BridgeInv, PublishStatus, locks, link, Threads, TypesInv, StatusStops
<1>2. Forgets
  BY <1>1, ForgetsOne
<1>3. (auth'.ack => auth.ack) /\ (cancelled => cancelled')
  <2>1. CASE auth' = Refreshed(a, safety, new) /\ cancelled' = cancelled
    <3>1. a \in AuthRecs /\ a.ack = auth.ack
      BY <1>1 DEF AuthRecs
    <3> HIDE DEF a, new
    <3> QED
      BY <2>1, <3>1, RefreshedType
  <2>2. CASE ClearAuthority
    BY <1>1, <2>2, ClearedType DEF ClearAuthority
  <2>3. CASE auth' = [auth EXCEPT !.esp_armed = FALSE]
             /\ cancelled' = cancelled
    BY <1>1, <2>3 DEF AuthRecs
  <2>4. new.armed \in BOOLEAN /\ new.latched \in BOOLEAN
    BY DEF At
  <2>5. CASE new.armed
    BY <2>1, <2>5 DEF PublishStatus
  <2>6. CASE ~new.armed /\ (new.latched \/ ~auth.in_progress)
    BY <2>2, <2>6 DEF PublishStatus
  <2>7. CASE ~new.armed /\ ~new.latched /\ auth.in_progress
    BY <2>3, <2>7 DEF PublishStatus
  <2> QED
    BY <2>4, <2>5, <2>6, <2>7
<1>4. th["io"].pc \notin WaitPoints \cup {"disconnect"}
  BY <1>1 DEF StatusStops, WaitPoints
<1> QED
  BY <1>1, <1>2, <1>3, <1>4, GoActs DEF BridgeInv

\* A step that leaves the threads where they are.
LEMMA StillStep ==
  ASSUME AnswerInv, UNCHANGED <<th, port, tx, pending>>,
         handshake' => handshake,
         auth'.ack => auth.ack,
         cancelled => cancelled',
         Forgets
  PROVE  AnswerInv'
<1>1. PendingInv /\ ConnectionInv /\ ReopenInv
  BY DEF AnswerInv
<1>2. PendingInv'
  BY <1>1 DEF PendingInv, Forgets, Requests
<1>3. Closing => Closing'
  BY DEF Closing, At
<1>4. ConnectionInv'
  BY <1>1, <1>3 DEF ConnectionInv, ArmPending, Dest, Sending
<1>5. ReopenInv'
  BY <1>1 DEF ReopenInv, At, MovingPending, Moving
<1> QED
  BY <1>2, <1>4, <1>5 DEF AnswerInv

\* Going on with the next frame asks for nothing.
LEMMA RestRequestsNothing ==
  ASSUME NEW t, NEW q, q.todo \in Seq(Frames), q.todo # <<>>,
         Requests(t, q), NEW r, r.todo = Tail(q.todo)
  PROVE  Requests(t, r)
<1>1. /\ \A i \in 1 .. Len(r.todo) :
           /\ r.todo[i] = q.todo[i + 1]
           /\ i + 1 \in 1 .. Len(q.todo) /\ i + 1 # 1
      /\ 1 \in 1 .. Len(q.todo)
  BY RestOfFrames
<1>2. ASSUME NEW i \in 1 .. Len(r.todo), r.todo[i].tag # "none"
      PROVE  FALSE
  <2>1. q.todo[i + 1].tag # "none" /\ i + 1 \in 1 .. Len(q.todo)
    BY <1>1, <1>2
  <2>2. Len(q.todo) = 1
    BY <2>1 DEF Requests
  <2>3. i + 1 # 1 /\ i + 1 \in 1 .. 1
    BY <1>1, <2>1, <2>2
  <2> QED
    BY <2>3
<1> QED
  BY <1>2 DEF Requests

LEMMA NotSentActs ==
  ASSUME BridgeInv, PendingInv, NEW t \in Threads, NotSent(t)
  PROVE  (\E r : Acts(t, r)) /\ Forgets
<1>1. /\ TypesInv /\ LocksInv /\ FramesInv
      /\ th[t].pc = "send" /\ tx = "none"
      /\ UNCHANGED <<auth, cancelled, handshake, port, tx, pending, wire, rx,
                     batch>>
      /\ Continue(t, FALSE)
  BY DEF BridgeInv, NotSent, session, authority, link, At
<1>2. Sending(th[t])
  BY <1>1 DEF LocksInv, Shape
<1>3. /\ tx' \in Threads \cup {"none"} /\ tx' # t
      /\ \A u \in Threads \ {t} : tx' = u <=> tx = u
      /\ FALSE \in BOOLEAN
  BY <1>1 DEF Threads
<1>4. PICK r : /\ Moves(t, r) /\ NoVelocity(r.todo)
               /\ r.todo = Tail(th[t].todo)
               /\ IF Sending(r) THEN r.then = th[t].then /\ r.pc = "send"
                  ELSE r.pc = th[t].then
  BY <1>1, <1>2, <1>3, ContinueMoves
<1>5. /\ th[t].todo \in Seq(Frames) /\ th[t].todo # <<>>
      /\ th[t].then # "opened"
  BY <1>1, <1>2 DEF TypesInv, ThreadRecs, Sending, Ends
<1>6. Requests(t, r)
  BY <1>4, <1>5, RestRequestsNothing DEF PendingInv
<1>7. ~Moving(r)
  BY <1>4 DEF NoVelocity, Moving
<1>8. Forgets
  BY <1>1, ForgetsOne
<1>9. Acts(t, r)
  BY <1>1, <1>4, <1>5, <1>6, <1>7 DEF Acts, Moves, WaitPoints
<1> QED
  BY <1>8, <1>9

LEMMA ClearAndReturnActs ==
  ASSUME BridgeInv, PendingInv, NEW t \in Threads, ClearAndReturn(t)
  PROVE  (\E r : Acts(t, r)) /\ Forgets
<1>1. /\ TypesInv /\ auth \in AuthRecs
      /\ th[t].pc = "clear" /\ th' = Go(t, "idle")
      /\ UNCHANGED <<handshake, port, tx, pending, wire, rx, batch>>
      /\ auth' = Cleared /\ cancelled' = TRUE
  BY DEF BridgeInv, TypesInv, ClearAndReturn, ClearAuthority, session, link,
         At
<1>2. Forgets
  BY <1>1, ForgetsOne
<1>3. ~auth'.ack
  BY <1>1, ClearedType
<1> QED
  BY <1>1, <1>2, <1>3, GoActs DEF WaitPoints

LEMMA RejectVelocityAnswers ==
  ASSUME BridgeInv, AnswerInv, RejectVelocity
  PROVE  AnswerInv'
<1>1. /\ TypesInv /\ PendingInv /\ "control" \in Threads
      /\ th["control"].pc = "idle" /\ auth \in AuthRecs
      /\ auth' = [auth EXCEPT !.cmd = "none", !.stop_sent = TRUE]
      /\ UNCHANGED <<cancelled, handshake, port, tx, pending, wire, rx,
                     batch>>
  BY DEF BridgeInv, AnswerInv, TypesInv, RejectVelocity, session, link,
         Threads, At
<1>2. auth'.ack = auth.ack
  BY <1>1 DEF AuthRecs
<1>3. Forgets
  BY <1>1, ForgetsOne
<1>4. CASE UNCHANGED <<motion, th>>
  BY <1>1, <1>2, <1>3, <1>4, StillStep
<1>5. CASE th' = SendThen("control", <<Plain("STOP")>>, "idle")
  <2>1. Plain("STOP") \in Frames /\ Plain("STOP").tag = "none"
    BY PlainFrames DEF FrameTypes, Plain, Frame
  <2>2. \E r : Acts("control", r)
    BY <1>1, <1>2, <1>5, <2>1, SendActs DEF WaitPoints
  <2> QED
    BY <1>1, <1>3, <2>2, OrdinaryStep
<1> QED
  BY <1>4, <1>5 DEF RejectVelocity

LEMMA OnSafetyStateAnswers ==
  ASSUME BridgeInv, AnswerInv, OnSafetyState
  PROVE  AnswerInv'
<1>1. /\ TypesInv /\ PendingInv /\ "control" \in Threads
      /\ th["control"].pc = "idle" /\ auth \in AuthRecs
      /\ UNCHANGED <<cancelled, handshake, port, tx, pending, wire, rx,
                     batch>>
  BY DEF BridgeInv, AnswerInv, TypesInv, OnSafetyState, link, Threads, At
<1>2. Forgets
  BY <1>1, ForgetsOne
<1>3. PICK new \in SafetyStates :
        IF Revocation(new) = <<>>
        THEN /\ auth' = Refreshed(auth, new, status)
             /\ UNCHANGED <<motion, th, revoked>>
        ELSE /\ revoked' = TRUE
             /\ motion' = "control"
             /\ th' = SendThen("control",
                        IF port THEN Revocation(new) ELSE <<>>, "clear")
             /\ UNCHANGED auth
  BY Zenon DEF OnSafetyState
<1>4. CASE Revocation(new) = <<>>
  <2>1. th' = th /\ auth'.ack = auth.ack
    BY <1>1, <1>3, <1>4, RefreshedType
  <2> QED
    BY <1>1, <1>2, <2>1, StillStep
<1>5. CASE Revocation(new) # <<>>
  <2> DEFINE frames == IF port THEN Revocation(new) ELSE <<>>
  <2>1. th' = SendThen("control", frames, "clear") /\ auth' = auth
    BY <1>3, <1>5
  <2>2. Untagged(frames)
    <3>1. Untagged(<<>>)
      BY DEF Untagged
    <3> QED
      BY <3>1, RevocationFrames
  <2> HIDE DEF frames
  <2>3. \E r : Acts("control", r)
    <3>1. CASE frames = <<>>
      <4>1. th' = Go("control", "clear")
        BY <2>1, <3>1 DEF SendThen
      <4> QED
        BY <1>1, <2>1, <4>1, GoActs DEF WaitPoints
    <3>2. CASE frames # <<>>
      <4>1. th' = [th EXCEPT !["control"] = Sends(frames, "clear")]
        BY <2>1, <3>2, SendThenIs
      <4>2. /\ Sends(frames, "clear").todo = frames
            /\ Sends(frames, "clear").pc = "send"
        BY DEF Sends
      <4>3. Requests("control", Sends(frames, "clear"))
        BY <2>2, <4>2 DEF Requests, Untagged
      <4> QED
        BY <1>1, <2>1, <4>1, <4>2, <4>3 DEF Acts, WaitPoints
    <3> QED
      BY <3>1, <3>2
  <2> QED
    BY <1>1, <1>2, <2>3, OrdinaryStep
<1> QED
  BY <1>4, <1>5

LEMMA CommandTickAnswers ==
  ASSUME BridgeInv, AnswerInv, CommandTick
  PROVE  AnswerInv'
<1>1. /\ TypesInv /\ PendingInv /\ "command" \in Threads
      /\ th["command"].pc = "idle" /\ auth \in AuthRecs
      /\ handshake
      /\ UNCHANGED <<cancelled, handshake, port, tx, pending, wire, rx,
                     batch>>
  BY DEF BridgeInv, AnswerInv, TypesInv, CommandTick, session, link,
         Threads, At
<1>2. Forgets
  BY <1>1, ForgetsOne
<1>3. auth'.ack = auth.ack
  BY <1>1 DEF CommandTick, AuthRecs
<1>4. PICK f \in Frames :
        f.tag = "none" /\ th' = SendThen("command", <<f>>, "idle")
  <2>1. /\ Plain("STOP") \in Frames /\ Plain("STOP").tag = "none"
        /\ Plain("CMD_VEL") \in Frames /\ Plain("CMD_VEL").tag = "none"
    BY PlainFrames DEF FrameTypes, Plain, Frame
  <2>2. /\ [Plain("CMD_VEL") EXCEPT !.moving = TRUE] \in Frames
        /\ [Plain("CMD_VEL") EXCEPT !.moving = TRUE].tag = "none"
    BY <2>1 DEF Frames
  <2> QED
    BY <2>1, <2>2 DEF CommandTick
<1>5. \E r : Acts("command", r)
  BY <1>1, <1>3, <1>4, SendActs DEF WaitPoints
<1> QED
  BY <1>1, <1>2, <1>5, OrdinaryStep

\* The services that ask, and the one that has its answer.
LEMMA ServicesAsk ==
  ASSUME BridgeInv, AnswerInv,
         \/ ArmCalled \/ BeginArm \/ ResetCalled \/ RelayCalled \/ ArmReturns
  PROVE  AnswerInv'
<1>1. /\ TypesInv /\ PendingInv /\ "service" \in Threads /\ auth \in AuthRecs
      /\ th["service"].pc \in {"idle", "arm", "armed"}
      /\ UNCHANGED <<handshake, port, tx, pending, wire, rx, batch>>
  BY DEF BridgeInv, AnswerInv, TypesInv, Threads, ArmCalled, BeginArm,
         ResetCalled, RelayCalled, ArmReturns, Call, session, link, locks, At
<1>2. Forgets
  BY <1>1, ForgetsOne
<1>3. /\ auth'.ack => auth.ack
      /\ BeginArm \/ (cancelled => cancelled')
  <2>1. CASE ArmCalled \/ RelayCalled
    BY <2>1 DEF ArmCalled, RelayCalled, authority
  <2>2. CASE BeginArm
    <3>1. Cleared \in AuthRecs /\ ~Cleared.ack
      BY <1>1, ClearedType
    <3>2. auth'.ack = Cleared.ack
      BY <2>2, <3>1 DEF BeginArm, AuthRecs
    <3> QED
      BY <2>2, <3>1, <3>2
  <2>3. CASE ResetCalled
    BY <1>1, <2>3, ClearedType DEF ResetCalled, ClearAuthority
  <2>4. CASE ArmReturns
    <3>1. /\ auth' = Refreshed(auth, safety, status) \/ auth' = auth
          /\ cancelled' = cancelled
      BY <2>4 DEF ArmReturns, authority
    <3>2. auth'.ack = auth.ack
      BY <1>1, <3>1, RefreshedType
    <3> QED
      BY <3>1, <3>2
  <2> QED
    BY <2>1, <2>2, <2>3, <2>4
<1>4. /\ Frame("ARM", "service") \in Frames
      /\ Frame("ARM", "service").tag = "service"
      /\ Frame("RESET", "service") \in Frames
      /\ Frame("RESET", "service").tag = "service"
      /\ Frame("RELAY", "service") \in Frames
      /\ Frame("RELAY", "service").tag = "service"
      /\ Plain("DISARM") \in Frames /\ Plain("DISARM").tag = "none"
  BY FrameTypesHold, PlainFrames DEF FrameTypes, Waiters, Plain
<1>5. \/ \E pc \in {"arm", "idle"} : th' = Go("service", pc)
      \/ \E f, pc :
           /\ f \in Frames
           /\ \/ f.tag = "none"
              \/ f.tag = "service" /\ pc \in {"wait", "arm_wait", "relay_wait"}
           /\ th' = SendThen("service", <<f>>, pc)
      \/ th' = th /\ ~BeginArm
  <2>1. CASE ArmCalled
    BY <2>1 DEF ArmCalled
  <2>2. CASE BeginArm
    BY <1>4, <2>2 DEF BeginArm
  <2>3. CASE ResetCalled
    <3>1. ~BeginArm
      BY <2>3 DEF ResetCalled, Call, BeginArm, At
    <3> QED
      BY <1>4, <2>3, <3>1 DEF ResetCalled
  <2>4. CASE RelayCalled
    BY <1>4, <2>4 DEF RelayCalled
  <2>5. CASE ArmReturns
    BY <1>4, <2>5 DEF ArmReturns
  <2> QED
    BY <2>1, <2>2, <2>3, <2>4, <2>5
<1>6. CASE th' = th /\ ~BeginArm
  BY <1>1, <1>2, <1>3, <1>6, StillStep
<1>7. CASE \E pc \in {"arm", "idle"} : th' = Go("service", pc)
  <2>1. PICK pc \in {"arm", "idle"} : th' = Go("service", pc)
    BY <1>7
  <2>2. \E r : Acts("service", r)
    BY <1>1, <1>3, <2>1, GoActs DEF WaitPoints
  <2> QED
    BY <1>1, <1>2, <2>2, OrdinaryStep
<1>8. CASE \E f, pc :
             /\ f \in Frames
             /\ \/ f.tag = "none"
                \/ f.tag = "service"
                   /\ pc \in {"wait", "arm_wait", "relay_wait"}
             /\ th' = SendThen("service", <<f>>, pc)
  <2>1. PICK f, pc :
          /\ f \in Frames
          /\ \/ f.tag = "none"
             \/ f.tag = "service" /\ pc \in {"wait", "arm_wait", "relay_wait"}
          /\ th' = SendThen("service", <<f>>, pc)
    BY <1>8
  <2>2. \E r : Acts("service", r)
    BY <1>1, <1>3, <2>1, SendActs DEF WaitPoints
  <2> QED
    BY <1>1, <1>2, <2>2, OrdinaryStep
<1> QED
  BY <1>5, <1>6, <1>7, <1>8

LEMMA ZeroCalledAnswers ==
  ASSUME BridgeInv, AnswerInv, NEW call \in ZeroCalls, ZeroCalled(call)
  PROVE  AnswerInv'
<1>1. /\ TypesInv /\ PendingInv /\ "zero" \in Threads /\ auth \in AuthRecs
      /\ th["zero"].pc = "idle"
      /\ UNCHANGED <<handshake, port, tx, pending, wire, rx, batch>>
      /\ \/ th' = SendThen("zero", <<Frame(call, "zero")>>, "wait")
         \/ th' = th
  BY DEF BridgeInv, AnswerInv, TypesInv, Threads, ZeroCalled, Call, session,
         link, At
<1>2. Forgets
  BY <1>1, ForgetsOne
<1>3. (auth'.ack => auth.ack) /\ (cancelled => cancelled')
  <2>1. CASE call = "STOP"
    <3>1. PICK arming : arming = (auth.arming /\ ~auth.in_progress)
      OBVIOUS
    <3>2. auth' = [auth EXCEPT !.cmd = "none", !.in_progress = FALSE,
                     !.arming = arming]
      BY <2>1, <3>1 DEF ZeroCalled
    <3>3. auth'.ack = auth.ack
      BY <1>1, <3>2 DEF AuthRecs
    <3>4. cancelled => cancelled'
      BY <2>1 DEF ZeroCalled
    <3> QED
      BY <3>3, <3>4
  <2>2. CASE call # "STOP"
    BY <1>1, <2>2, ClearedType DEF ZeroCalled, ClearAuthority
  <2> QED
    BY <2>1, <2>2
<1>4. /\ Frame(call, "zero") \in Frames
      /\ Frame(call, "zero").tag = "zero"
  BY FrameTypesHold DEF FrameTypes, Waiters, ZeroCalls
<1>5. CASE th' = th
  BY <1>1, <1>2, <1>3, <1>5, StillStep
<1>6. CASE th' = SendThen("zero", <<Frame(call, "zero")>>, "wait")
  <2>1. \E r : Acts("zero", r)
    BY <1>1, <1>3, <1>4, <1>6, SendActs DEF WaitPoints
  <2> QED
    BY <1>1, <1>2, <2>1, OrdinaryStep
<1> QED
  BY <1>1, <1>5, <1>6

\* What Forgotten does to a single frame.
Forget(t, f) == IF "tag" \in DOMAIN f /\ f.tag = t
                THEN [f EXCEPT !.tag = "none"] ELSE f

LEMMA ForgottenIs ==
  ASSUME NEW S, NEW q \in Seq(S), NEW t,
         \A f \in S : Forget(t, f) \in S
  PROVE  /\ Forgotten(t, q) \in Seq(S)
         /\ Len(Forgotten(t, q)) = Len(q)
         /\ \A i \in 1 .. Len(q) : Forgotten(t, q)[i] = Forget(t, q[i])
<1>1. DOMAIN q = 1 .. Len(q) /\ Len(q) \in Nat
  OBVIOUS
<1>2. Forgotten(t, q) = [i \in 1 .. Len(q) |-> Forget(t, q[i])]
  BY <1>1, Zenon DEF Forgotten, Forget
<1>3. \A i \in 1 .. Len(q) : Forget(t, q[i]) \in S
  OBVIOUS
<1>4. /\ [i \in 1 .. Len(q) |-> Forget(t, q[i])] \in Seq(S)
      /\ Len([i \in 1 .. Len(q) |-> Forget(t, q[i])]) = Len(q)
  BY <1>1, <1>3
<1> QED
  BY <1>2, <1>4

LEMMA ForgetFrame ==
  ASSUME NEW t \in Waiters, NEW f \in Frames
  PROVE  /\ Forget(t, f) \in Frames
         /\ \A u \in Waiters :
              Forget(t, f).tag = u => f.tag = u /\ u # t
<1>1. "tag" \in DOMAIN f
  BY DEF Frames
<1>2. CASE f.tag = t
  <2>1. Forget(t, f) = [f EXCEPT !.tag = "none"]
    BY <1>1, <1>2 DEF Forget
  <2>2. /\ [f EXCEPT !.tag = "none"] \in Frames
        /\ [f EXCEPT !.tag = "none"].tag = "none"
    BY DEF Frames
  <2> QED
    BY <2>1, <2>2 DEF Waiters
<1>3. CASE f.tag # t
  BY <1>3 DEF Forget
<1> QED
  BY <1>2, <1>3

LEMMA ForgetAnswer ==
  ASSUME NEW t \in Waiters, NEW f \in Answers
  PROVE  /\ Forget(t, f) \in Answers
         /\ \A u \in Waiters :
              AckFor(Forget(t, f), u) => AckFor(f, u) /\ u # t
<1>1. CASE f \in AckFrames
  <2>1. "tag" \in DOMAIN f
    BY <1>1 DEF AckFrames
  <2>2. CASE f.tag = t
    <3>1. Forget(t, f) = [f EXCEPT !.tag = "none"]
      BY <2>1, <2>2 DEF Forget
    <3>2. /\ [f EXCEPT !.tag = "none"] \in AckFrames
          /\ [f EXCEPT !.tag = "none"].tag = "none"
      BY <1>1 DEF AckFrames
    <3> QED
      BY <3>1, <3>2 DEF Waiters, AckFor, Answers
  <2>3. CASE f.tag # t
    BY <2>3 DEF Forget, AckFor
  <2> QED
    BY <2>2, <2>3
<1>2. CASE f \in EventFrames \cup StatusFrames
  <2>1. "tag" \notin DOMAIN f /\ f.type # "ACK"
    BY <1>2 DEF EventFrames, StatusFrames
  <2> QED
    BY <2>1 DEF Forget, AckFor
<1> QED
  BY <1>1, <1>2 DEF Answers

\* When the wait of t is over, nothing on the link names its request.
LEMMA ForgottenUnnames ==
  ASSUME TypesInv, PendingInv, NEW t \in Waiters,
         wire' = Forgotten(t, wire), rx' = Forgotten(t, rx), batch' = batch
  PROVE  /\ Forgets
         /\ ~Named(t)'
<1>1. /\ wire \in Seq(Frames) /\ rx \in Seq(Answers)
      /\ batch \in 0 .. Len(rx)
  BY DEF TypesInv, PendingInv
<1>2. /\ Len(wire') = Len(wire)
      /\ \A i \in 1 .. Len(wire) : wire'[i] = Forget(t, wire[i])
  BY <1>1, ForgetFrame, ForgottenIs
<1>3. /\ rx' \in Seq(Answers)
      /\ Len(rx') = Len(rx)
      /\ \A i \in 1 .. Len(rx) : rx'[i] = Forget(t, rx[i])
  BY <1>1, ForgetAnswer, ForgottenIs
<1>4. \A i \in 1 .. Len(wire) : wire[i] \in Frames
  BY <1>1
<1>5. \A i \in 1 .. Len(rx) : rx[i] \in Answers
  BY <1>1
<1>6. ASSUME NEW u \in Waiters, Named(u)'
      PROVE  Named(u) /\ u # t
  <2>1. CASE \E i \in 1 .. Len(wire') : wire'[i].tag = u
    <3>1. PICK i \in 1 .. Len(wire) : wire'[i].tag = u
      BY <1>2, <2>1
    <3>2. wire[i].tag = u /\ u # t
      BY <1>2, <1>4, <3>1, ForgetFrame
    <3> QED
      BY <3>2 DEF Named
  <2>2. CASE \E i \in 1 .. Len(rx') : AckFor(rx'[i], u)
    <3>1. PICK i \in 1 .. Len(rx) : AckFor(rx'[i], u)
      BY <1>3, <2>2
    <3>2. AckFor(rx[i], u) /\ u # t
      BY <1>3, <1>5, <3>1, ForgetAnswer
    <3> QED
      BY <3>2 DEF Named
  <2> QED
    BY <1>6, <2>1, <2>2 DEF Named, AckFor
<1> QED
  BY <1>1, <1>3, <1>6 DEF Forgets

\* _io_tick opens the port: no CMD_VEL that moves the robot is left from the
\* connection before, or it is stuck behind a thread that disconnects.
LEMMA OpenSerialAnswers ==
  ASSUME BridgeInv, AnswerInv, OpenSerial
  PROVE  AnswerInv'
<1> DEFINE r == Stopped("opened")
<1>1. /\ TypesInv /\ AuthInv /\ FramesInv
      /\ PendingInv /\ ConnectionInv /\ "io" \in Threads
      /\ th["io"].pc = "idle" /\ ~port
      /\ port' = TRUE /\ handshake' = FALSE
      /\ batch = 0 /\ rx' = <<>> /\ batch' = batch
      /\ UNCHANGED <<tx, pending, wire>>
  BY DEF BridgeInv, AnswerInv, OpenSerial, locks, Threads, At
<1>2. /\ th' = [th EXCEPT !["io"] = r]
      /\ r.todo = <<>> /\ r.pc = "opened"
  BY GoIs DEF OpenSerial, Stopped
<1> HIDE DEF r
<1>3. Forgets
  BY <1>1, ForgetsOne
<1>4. SameAsked
  BY <1>1 DEF SameAsked, PendingInv
<1>5. PendingInv'
  BY <1>1, <1>2, <1>3, <1>4, PendingStep, RequestsNothing DEF WaitPoints
<1>6. ConnectionInv'
  BY <1>1 DEF ConnectionInv
<1>7. MovingPending => tx # "none"
  <2>1. ASSUME MovingPending
        PROVE  auth.ack
    BY <1>1, <2>1 DEF MovingPending, Moving, FramesInv, FrameOK, AuthInv,
                      Threads
  <2>2. auth.ack => Closing
    BY <1>1 DEF ConnectionInv
  <2> QED
    BY <1>1, <2>1, <2>2 DEF Closing, At, Threads
<1>8. th'["command"] = th["command"]
  BY <1>1, <1>2 DEF TypesInv, Threads
<1>9. ReopenInv'
  BY <1>1, <1>7, <1>8 DEF ReopenInv, MovingPending, Moving
<1> QED
  BY <1>5, <1>6, <1>9 DEF AnswerInv

\* A thread closes the port, and is going to drop the authority.
LEMMA PortClosed ==
  ASSUME BridgeInv, AnswerInv, NEW t \in Threads, NEW r,
         th' = [th EXCEPT ![t] = r], r.pc = "disconnect", Requests(t, r),
         th[t].pc \in {"idle", "send"},
         r.todo = th[t].todo,
         port' = FALSE, handshake' = FALSE, pending' = pending,
         \/ t = "io" /\ tx' = tx
         \/ tx' = t,
         Forgets
  PROVE  AnswerInv'
<1>1. /\ TypesInv /\ PendingInv /\ ReopenInv
      /\ {"io", "command"} \subseteq Threads
  BY DEF BridgeInv, AnswerInv, Threads
<1>2. SameAsked
  BY <1>1 DEF SameAsked, PendingInv
<1>3. PendingInv'
  BY <1>1, <1>2, PendingStep DEF WaitPoints
<1>4. /\ th'[t] = r
      /\ \A u \in Threads \ {t} : th'[u] = th[u]
  BY <1>1 DEF TypesInv
<1>5. Closing'
  BY <1>4 DEF Closing, At
<1>6. ReopenInv'
  <2>1. ASSUME th'["io"].pc = "opened"
        PROVE  tx' # "none"
    <3>1. t # "io"
      BY <1>4, <2>1
    <3> QED
      BY <3>1 DEF Threads
  <2> QED
    BY <2>1 DEF ReopenInv, At
<1> QED
  BY <1>3, <1>5, <1>6 DEF AnswerInv, ConnectionInv

LEMMA ReadFailsAnswers ==
  ASSUME BridgeInv, AnswerInv, ReadFails
  PROVE  AnswerInv'
<1>1. /\ TypesInv /\ PendingInv /\ LocksInv /\ "io" \in Threads
      /\ th["io"].pc = "idle"
      /\ port' = FALSE /\ handshake' = FALSE
      /\ UNCHANGED <<tx, pending, wire>>
      /\ \/ UNCHANGED <<batch, rx>>
         \/ batch > 0 /\ batch' = batch - 1 /\ rx' = Tail(rx)
  BY DEF BridgeInv, AnswerInv, ReadFails, ClosePort, locks, Threads, At
<1>2. /\ th' = [th EXCEPT !["io"] = Stopped("disconnect")]
      /\ Stopped("disconnect").todo = <<>>
      /\ Stopped("disconnect").pc = "disconnect"
  BY GoIs DEF ReadFails, Stopped
<1>3. th["io"].todo = <<>>
  BY <1>1 DEF LocksInv, Shape, Sending
<1>4. Forgets
  BY <1>1, ForgetsOne
<1>5. Requests("io", Stopped("disconnect"))
  BY <1>2, RequestsNothing
<1> QED
  BY <1>1, <1>2, <1>3, <1>4, <1>5, PortClosed

LEMMA StartDisconnectAnswers ==
  ASSUME BridgeInv, AnswerInv, NEW t \in Threads, StartDisconnect(t),
         th[t].pc \in {"idle", "send"}
  PROVE  AnswerInv'
<1> DEFINE r == [th[t] EXCEPT !.pc = "disconnect"]
<1>1. /\ th[t] \in ThreadRecs /\ th \in [Threads -> ThreadRecs]
      /\ PendingInv
      /\ port' = FALSE /\ handshake' = FALSE /\ tx' = t
      /\ UNCHANGED <<pending, wire, rx, batch>>
  BY DEF BridgeInv, TypesInv, AnswerInv, StartDisconnect, ClosePort, link
<1>2. th' = [th EXCEPT ![t] = r]
  BY <1>1 DEF StartDisconnect
<1>3. r.pc = "disconnect" /\ r.todo = th[t].todo /\ r.then = th[t].then
  BY <1>1 DEF ThreadRecs
<1> HIDE DEF r
<1>4. Requests(t, r)
  BY <1>1, <1>3 DEF PendingInv, Requests
<1>5. Forgets
  BY <1>1, ForgetsOne
<1> QED
  BY <1>1, <1>2, <1>3, <1>4, <1>5, PortClosed

\* A frame is written: from now on its answer is waited for.
LEMMA SentAnswers ==
  ASSUME BridgeInv, AnswerInv, NEW t \in Threads, Sent(t)
  PROVE  AnswerInv'
<1> DEFINE f == Head(th[t].todo)
<1>1. /\ TypesInv /\ LocksInv /\ FramesInv
      /\ PendingInv /\ ConnectionInv /\ ReopenInv
      /\ th[t].pc = "send" /\ tx = "none" /\ port
      /\ UNCHANGED <<auth, cancelled, handshake, port, tx, rx, batch>>
      /\ Continue(t, TRUE)
      /\ wire' = Append(wire, f)
      /\ pending' = IF f.tag = "none" THEN pending
                    ELSE [pending EXCEPT ![f.tag] = "waiting"]
  BY DEF BridgeInv, AnswerInv, Sent, session, authority, At
<1>2. Sending(th[t])
  BY <1>1 DEF LocksInv, Shape
<1>3. /\ tx' \in Threads \cup {"none"} /\ tx' # t
      /\ \A u \in Threads \ {t} : tx' = u <=> tx = u
      /\ TRUE \in BOOLEAN
  BY <1>1 DEF Threads
<1>4. PICK r : /\ Moves(t, r) /\ NoVelocity(r.todo)
               /\ r.todo = Tail(th[t].todo)
               /\ IF Sending(r) THEN r.then = th[t].then /\ r.pc = "send"
                  ELSE r.pc = th[t].then
  BY <1>1, <1>2, <1>3, ContinueMoves
<1>5. /\ th[t].todo \in Seq(Frames) /\ th[t].todo # <<>>
      /\ th[t].then # "opened"
      /\ f \in Frames /\ f = th[t].todo[1] /\ 1 \in 1 .. Len(th[t].todo)
  BY <1>1, <1>2, RestOfFrames DEF TypesInv, ThreadRecs, Sending, Ends
<1> HIDE DEF f
<1>6. /\ Requests(t, r) /\ Requests(t, th[t])
  BY <1>1, <1>4, <1>5, RestRequestsNothing DEF PendingInv
<1>7. ~Moving(r)
  BY <1>4 DEF NoVelocity, Moving
<1>8. /\ th' = [th EXCEPT ![t] = r] /\ r.pc # "opened"
      /\ th[t].pc \notin WaitPoints \cup {"disconnect"}
  BY <1>1, <1>4, <1>5 DEF Moves, WaitPoints
<1>9. wire \in Seq(Frames) /\ rx' \in Seq(Answers) /\ batch' \in 0 .. Len(rx')
  BY <1>1 DEF TypesInv, PendingInv
<1>10. \A u : Named(u)' => Named(u) \/ f.tag = u
  <2>1. /\ Len(wire') = Len(wire) + 1
        /\ \A i \in 1 .. Len(wire') :
             \/ i \in 1 .. Len(wire) /\ wire'[i] = wire[i]
             \/ wire'[i] = f
    BY <1>1, <1>5, <1>9
  <2> QED
    BY <1>1, <2>1 DEF Named, AckFor
<1>11. CASE f.tag = "none"
  <2>1. Forgets
    BY <1>9, <1>10, <1>11 DEF Forgets, Waiters
  <2>2. Acts(t, r)
    BY <1>1, <1>6, <1>7, <1>8, <1>11 DEF Acts
  <2> QED
    BY <1>1, <2>1, <2>2, OrdinaryStep
<1>12. CASE f.tag # "none"
  <2>1. /\ f.tag = t /\ Len(th[t].todo) = 1
        /\ th[t].then \in {"wait", "arm_wait", "relay_wait"}
    BY <1>5, <1>6, <1>12 DEF Requests
  <2>2. t \in Waiters
    BY <1>5, <1>12, <2>1 DEF Frames
  <2>3. r.todo = <<>>
    <3>1. ASSUME NEW q \in Seq(Frames), Len(q) = 1
          PROVE  Tail(q) = <<>>
      <4>1. q # <<>>
        BY <3>1
      <4>2. Tail(q) \in Seq(Frames) /\ Len(Tail(q)) = Len(q) - 1
        BY <4>1
      <4>3. Len(Tail(q)) = 0
        BY <3>1, <4>2
      <4> QED
        BY <4>2, <4>3, EmptySeq
    <3> QED
      BY <1>4, <1>5, <2>1, <3>1
  <2>4. r.pc \in WaitPoints \ AnsweredPoints
    BY <1>4, <2>1, <2>3 DEF Sending, WaitPoints, AnsweredPoints
  <2>5. /\ pending' = [pending EXCEPT ![t] = "waiting"]
        /\ pending' \in [Waiters -> Verdicts]
        /\ pending'[t] # "none"
        /\ \A u \in Waiters \ {t} : pending'[u] = pending[u]
    BY <1>1, <1>12, <2>1, <2>2 DEF PendingInv, Verdicts
  <2>6. /\ th'[t] = r
        /\ \A u \in Threads \ {t} : th'[u] = th[u]
        /\ Waiters \subseteq Threads
    BY <1>1, <1>8 DEF TypesInv, Threads, Waiters
  <2>7. PendingInv'
    <3>1. ASSUME NEW u \in Waiters
          PROVE  /\ Named(u)' => /\ pending'[u] # "none"
                                 /\ th'[u].pc \notin AnsweredPoints
                 /\ pending'[u] # "none" => th'[u].pc \in WaitPoints
      <4>1. CASE u = t
        BY <2>4, <2>5, <2>6, <4>1
      <4>2. CASE u # t
        <5>1. Named(u)' => Named(u)
          BY <1>10, <2>1, <4>2
        <5>2. th'[u] = th[u] /\ pending'[u] = pending[u]
          BY <2>5, <2>6, <4>2
        <5> QED
          BY <1>1, <5>1, <5>2 DEF PendingInv
      <4> QED
        BY <4>1, <4>2
    <3>2. ASSUME NEW u \in Threads
          PROVE  Requests(u, th'[u])
      BY <1>1, <1>6, <2>6 DEF PendingInv
    <3> QED
      BY <1>9, <2>5, <3>1, <3>2 DEF PendingInv, Requests
  <2>8. ConnectionInv'
    BY <1>1 DEF ConnectionInv
  <2>9. ReopenInv'
    BY <1>1, <1>7, <1>8, ReopenStep
  <2> QED
    BY <2>7, <2>8, <2>9 DEF AnswerInv
<1> QED
  BY <1>11, <1>12

\* _disconnect wakes every waiter, and the authority is gone.
LEMMA FinishDisconnectAnswers ==
  ASSUME BridgeInv, AnswerInv, NEW t \in Threads, FinishDisconnect(t)
  PROVE  AnswerInv'
<1>1. /\ TypesInv /\ LocksInv /\ FramesInv
      /\ PendingInv /\ ConnectionInv /\ ReopenInv
      /\ th[t].pc = "disconnect" /\ CanLock(t)
      /\ auth' = NoAuth /\ cancelled' = TRUE
      /\ tx' = IF tx = t THEN "none" ELSE tx
      /\ UNCHANGED <<wire, rx, batch, handshake>>
      /\ pending' = [w \in Waiters |->
                       IF pending[w] = "waiting" THEN "woken" ELSE pending[w]]
  BY DEF BridgeInv, AnswerInv, FinishDisconnect, At, link
<1>2. /\ tx' \in Threads \cup {"none"} /\ tx' # t
      /\ \A u \in Threads \ {t} : tx' = u <=> tx = u
  BY <1>1 DEF Threads, TypesInv
<1>3. PICK r : /\ th' = [th EXCEPT ![t] = r] /\ r.pc # "opened"
               /\ Requests(t, r) /\ ~Moving(r)
  <2>1. CASE th[t].todo # <<>>
    <3>1. Continue(t, FALSE)
      BY <2>1 DEF FinishDisconnect
    <3>2. Sending(th[t]) /\ FALSE \in BOOLEAN
      BY <2>1 DEF Sending
    <3>3. PICK r : /\ Moves(t, r) /\ NoVelocity(r.todo)
                   /\ r.todo = Tail(th[t].todo)
                   /\ IF Sending(r) THEN r.then = th[t].then /\ r.pc = "send"
                      ELSE r.pc = th[t].then
      BY <1>1, <1>2, <3>1, <3>2, ContinueMoves
    <3>4. th[t].todo \in Seq(Frames) /\ th[t].then # "opened"
      BY <1>1 DEF TypesInv, ThreadRecs, Ends
    <3>5. Requests(t, r)
      BY <1>1, <2>1, <3>3, <3>4, RestRequestsNothing DEF PendingInv
    <3>6. ~Moving(r)
      BY <3>3 DEF NoVelocity, Moving
    <3> QED
      BY <3>3, <3>4, <3>5, <3>6 DEF Moves
  <2>2. CASE th[t].todo = <<>>
    <3>1. th' = [th EXCEPT ![t] = Stopped("idle")]
      BY <2>2, GoIs DEF FinishDisconnect
    <3>2. Stopped("idle").todo = <<>> /\ Stopped("idle").pc = "idle"
      BY DEF Stopped
    <3> QED
      BY <3>1, <3>2, RequestsNothing
  <2> QED
    BY <2>1, <2>2
<1>4. SameAsked
  <2>1. ASSUME NEW u \in Waiters
        PROVE  /\ pending'[u] \in Verdicts
               /\ pending'[u] = "none" <=> pending[u] = "none"
    BY <1>1 DEF PendingInv, Verdicts
  <2> QED
    BY <1>1, <2>1 DEF SameAsked
<1>5. Forgets
  BY <1>1, ForgetsOne
<1>6. PendingInv'
  BY <1>1, <1>3, <1>4, <1>5, PendingStep DEF WaitPoints
<1>7. ConnectionInv'
  BY <1>1, NoAuthType DEF ConnectionInv
<1>8. ReopenInv'
  <2>1. /\ th'[t] = r
        /\ \A u \in Threads \ {t} : th'[u] = th[u]
        /\ {"io", "command"} \subseteq Threads
    BY <1>1, <1>3 DEF TypesInv, Threads
  <2>2. ASSUME th'["io"].pc = "opened"
        PROVE  ~handshake
    BY <1>1, <1>3, <2>1, <2>2 DEF ReopenInv, At
  <2>3. ~Moving(th'["command"])
    <3>1. CASE t = "command"
      BY <1>3, <2>1, <3>1
    <3>2. CASE t # "command"
      <4>1. th'["command"] = th["command"]
        BY <2>1, <3>2
      <4>2. Moving(th["command"]) => motion = "command"
        BY <1>1, <2>1 DEF Moving, FramesInv, FrameOK
      <4>3. motion # "command"
        BY <1>1, <3>2 DEF CanLock
      <4> QED
        BY <4>1, <4>2, <4>3
    <3> QED
      BY <3>1, <3>2
  <2> QED
    BY <1>1, <2>2, <2>3 DEF ReopenInv, At, MovingPending, Moving
<1> QED
  BY <1>6, <1>7, <1>8 DEF AnswerInv

\* The answer reaches the entry of the request it names.
LEMMA HandleCommandAckAnswers ==
  ASSUME BridgeInv, AnswerInv, HandleCommandAck
  PROVE  AnswerInv'
<1> DEFINE ack == Head(rx)
<1>1. /\ TypesInv /\ PendingInv /\ ConnectionInv /\ ReopenInv
      /\ "io" \in Threads /\ th["io"].pc = "idle"
      /\ UNCHANGED <<auth, cancelled, handshake, port, tx, wire>>
      /\ batch > 0 /\ rx' = Tail(rx) /\ batch' = batch - 1
      /\ ack.type = "ACK"
      /\ pending' = IF ack.tag = "none" THEN pending
                    ELSE [pending EXCEPT ![ack.tag] = ack.verdict]
  BY DEF BridgeInv, AnswerInv, HandleCommandAck, Handle, authority, locks,
         Threads, At
<1>2. PICK pc \in {"idle", "clear", "velocity_refused", "refused"} :
        th' = Go("io", pc)
  <2> DEFINE pc == CASE ack.verdict # "refused" -> "idle"
                     [] ack.verdict = "refused" /\ ack.of = "ARM" -> "clear"
                     [] ack.verdict = "refused" /\ ack.of = "CMD_VEL"
                          -> "velocity_refused"
                     [] OTHER -> "refused"
  <2>1. th' = Go("io", pc)
    BY Zenon DEF HandleCommandAck
  <2>2. pc \in {"idle", "clear", "velocity_refused", "refused"}
    <3>1. CASE ack.verdict # "refused"
      BY <3>1
    <3>2. CASE ack.verdict = "refused" /\ ack.of = "ARM"
      BY <3>2
    <3>3. CASE ack.verdict = "refused" /\ ack.of = "CMD_VEL"
      BY <3>3
    <3>4. CASE ack.verdict = "refused" /\ ack.of \notin {"ARM", "CMD_VEL"}
      BY <3>4
    <3> QED
      BY <3>1, <3>2, <3>3, <3>4
  <2> QED
    BY <2>1, <2>2
<1>3. rx # <<>> /\ ack = rx[1] /\ 1 \in 1 .. Len(rx) /\ ack \in Answers
  BY <1>1 DEF PendingInv
<1> HIDE DEF ack
<1>4. ack \in AckFrames
  BY <1>1, <1>3 DEF Answers, EventFrames, StatusFrames
<1>5. ack.tag # "none" => ack.tag \in Waiters /\ pending[ack.tag] # "none"
  <2>1. ack.tag # "none" => ack.tag \in Waiters
    BY <1>4 DEF AckFrames
  <2>2. Named(ack.tag)
    BY <1>1, <1>3 DEF Named, AckFor
  <2> QED
    BY <1>1, <2>1, <2>2 DEF PendingInv
<1>6. SameAsked
  <2>1. ack.verdict \in Verdicts /\ ack.verdict # "none"
    BY <1>4 DEF AckFrames, Verdicts
  <2> QED
    BY <1>1, <1>5, <2>1 DEF SameAsked, PendingInv
<1>7. Forgets
  BY <1>1, ForgetsOne
<1>8. /\ th' = [th EXCEPT !["io"] = Stopped(pc)]
      /\ Stopped(pc).todo = <<>> /\ Stopped(pc).pc = pc
  BY <1>2, GoIs DEF Stopped
<1>9. Requests("io", Stopped(pc))
  BY <1>8, RequestsNothing
<1>10. th["io"].pc \notin WaitPoints \cup {"disconnect"}
  BY <1>1 DEF WaitPoints
<1>11. PendingInv'
  BY <1>1, <1>6, <1>7, <1>8, <1>9, <1>10, PendingStep
<1>12. ConnectionInv'
  BY <1>1, <1>6, <1>8, <1>10, ConnectionStep
<1>13. ReopenInv'
  BY <1>1, <1>2, <1>8, ReopenStep
<1> QED
  BY <1>11, <1>12, <1>13 DEF AnswerInv

\* A waiter goes on; nothing on the link names its request any more.
LEMMA WaiterGoesOn ==
  ASSUME TypesInv, AnswerInv, NEW t \in Waiters, NEW r,
         th' = [th EXCEPT ![t] = r], r.pc # "opened", Requests(t, r),
         th[t].pc \in WaitPoints,
         ~Named(t)', Forgets,
         \/ pending' = Popped(t)
         \/ pending' = pending /\ r.pc \in WaitPoints,
         UNCHANGED <<port, tx, handshake>>,
         ArmPending' /\ ~cancelled' /\ pending'["service"] # "none"
           => ArmPending /\ ~cancelled /\ pending["service"] # "none",
         auth'.ack => auth.ack \/ port \/ Closing
  PROVE  AnswerInv'
<1>1. /\ PendingInv /\ ConnectionInv /\ ReopenInv
      /\ t \in Threads /\ t # "command" /\ Waiters \subseteq Threads
  BY DEF AnswerInv, Waiters, Threads
<1>2. /\ th'[t] = r
      /\ \A u \in Threads \ {t} : th'[u] = th[u]
  BY <1>1 DEF TypesInv
<1>3. /\ pending' \in [Waiters -> Verdicts]
      /\ pending'[t] # "none" => r.pc \in WaitPoints
      /\ \A u \in Waiters \ {t} : pending'[u] = pending[u]
  BY <1>1 DEF PendingInv, Verdicts, Popped
<1>4. PendingInv'
  <2>1. ASSUME NEW u \in Waiters
        PROVE  /\ Named(u)' => /\ pending'[u] # "none"
                               /\ th'[u].pc \notin AnsweredPoints
               /\ pending'[u] # "none" => th'[u].pc \in WaitPoints
    <3>1. CASE u = t
      BY <1>2, <1>3, <3>1
    <3>2. CASE u # t
      <4>1. Named(u)' => Named(u)
        BY DEF Forgets
      <4>2. th'[u] = th[u] /\ pending'[u] = pending[u]
        BY <1>1, <1>2, <1>3, <3>2
      <4> QED
        BY <1>1, <4>1, <4>2 DEF PendingInv
    <3> QED
      BY <3>1, <3>2
  <2>2. ASSUME NEW u \in Threads
        PROVE  Requests(u, th'[u])
    BY <1>1, <1>2 DEF PendingInv
  <2> QED
    BY <1>3, <2>1, <2>2 DEF PendingInv, Requests, Forgets
<1>5. ConnectionInv'
  BY <1>1, ConnectionKept DEF WaitPoints
<1>6. ReopenInv'
  BY <1>1, ReopenStep
<1> QED
  BY <1>4, <1>5, <1>6 DEF AnswerInv

\* The wait of an ARM or of a relay command ends.
LEMMA WaitEndsAnswers ==
  ASSUME BridgeInv, AnswerInv, ArmWaitEnds \/ RelayWaitEnds
  PROVE  AnswerInv'
<1> DEFINE t == "service"
<1>1. PICK pc \in {"arm_wait", "relay_wait"},
           next \in {"arm_answered", "relay_answered"} :
        /\ WaitEnds(t, pc, next)
        /\ next = "arm_answered" => pc = "arm_wait"
  BY DEF ArmWaitEnds, RelayWaitEnds
<1> DEFINE r == [th[t] EXCEPT !.pc = next]
<1>2. /\ TypesInv /\ PendingInv /\ LocksInv /\ t \in Waiters /\ t \in Threads
      /\ th[t].pc = pc /\ th' = [th EXCEPT ![t] = r]
      /\ wire' = Forgotten(t, wire) /\ rx' = Forgotten(t, rx)
      /\ UNCHANGED <<batch, port, tx, handshake, auth, cancelled, pending>>
  <2>1. th \in [Threads -> ThreadRecs]
    BY DEF BridgeInv, TypesInv
  <2> QED
    BY <1>1, <2>1 DEF BridgeInv, AnswerInv, Waiters, Threads, WaitEnds, At,
                      session, authority, locks
<1>3. Forgets /\ ~Named(t)'
  BY <1>2, ForgottenUnnames
<1>4. th[t] \in ThreadRecs /\ th[t].todo = <<>>
  BY <1>2 DEF TypesInv, LocksInv, Shape, Sending
<1>5. r.pc = next /\ r.todo = <<>>
  BY <1>4 DEF ThreadRecs
<1>6. Requests(t, r) /\ r.pc # "opened" /\ r.pc \in WaitPoints
      /\ th[t].pc \in WaitPoints
  BY <1>2, <1>5, RequestsNothing DEF WaitPoints
<1>7. ArmPending' => ArmPending
  <2>1. th'[t] = r
    BY <1>2 DEF TypesInv
  <2>2. ArmPending' => next = "arm_answered"
    BY <1>5, <2>1 DEF ArmPending, Dest, Sending
  <2>3. pc = "arm_wait" => ArmPending
    BY <1>2, <1>4 DEF ArmPending, Dest, Sending
  <2> QED
    BY <1>1, <2>2, <2>3
<1> HIDE DEF r, t
<1>8. ArmPending' /\ ~cancelled' /\ pending'["service"] # "none"
           => ArmPending /\ ~cancelled /\ pending["service"] # "none"
  BY <1>2, <1>7
<1>9. pending' = pending /\ r.pc \in WaitPoints
  BY <1>2, <1>6
<1>10. auth'.ack => auth.ack \/ port \/ Closing
  BY <1>2
<1>11. AnswerInv /\ UNCHANGED <<port, tx, handshake>>
  BY <1>2
<1> QED
  BY <1>2, <1>3, <1>6, <1>8, <1>9, <1>10, <1>11, WaiterGoesOn

\* An ARM that is granted was not cancelled, so its connection still stands or
\* is about to take the authority away.
LEMMA AnswersPopped ==
  ASSUME BridgeInv, AnswerInv, ArmSucceeds \/ ArmFails \/ RelayReturns
  PROVE  AnswerInv'
<1>1. /\ TypesInv /\ LocksInv /\ PendingInv /\ ConnectionInv
      /\ "service" \in Waiters /\ "service" \in Threads
      /\ auth \in AuthRecs
      /\ th["service"].pc \in AnsweredPoints
      /\ UNCHANGED <<wire, rx, batch, port, tx, handshake>>
      /\ pending' = Popped("service")
  BY DEF BridgeInv, AnswerInv, TypesInv, Waiters, Threads, ArmSucceeds,
         ArmFails, RelayReturns, session, link, locks, At, AnsweredPoints
<1>2. Forgets
  BY <1>1, ForgetsOne
<1>3. ~Named("service")'
  <2>1. ~Named("service")
    BY <1>1 DEF PendingInv
  <2> QED
    BY <1>1, <2>1 DEF Named, AckFor
<1>4. pending'["service"] = "none"
  BY <1>1 DEF PendingInv, Popped
<1>5. auth'.ack => auth.ack \/ port \/ Closing
  <2>1. CASE ArmSucceeds
    <3>1. th["service"].pc = "arm_answered" /\ ~cancelled
          /\ pending["service"] = "ok"
      BY <2>1 DEF ArmSucceeds, ArmAccepted, At
    <3>2. ArmPending
      BY <1>1, <3>1 DEF LocksInv, Shape, ArmPending, Dest
    <3> QED
      BY <1>1, <3>1, <3>2 DEF ConnectionInv
  <2>2. CASE ArmFails
    BY <1>1, <2>2, ClearedType DEF ArmFails, ClearAuthority
  <2>3. CASE RelayReturns
    BY <2>3 DEF RelayReturns, authority
  <2> QED
    BY <2>1, <2>2, <2>3
<1>6. PICK r : /\ th' = [th EXCEPT !["service"] = r] /\ r.pc # "opened"
               /\ Requests("service", r)
  <2>1. /\ Plain("CMD_VEL") \in Frames /\ Plain("CMD_VEL").tag = "none"
        /\ Plain("DISARM") \in Frames /\ Plain("DISARM").tag = "none"
        /\ Plain("RELAY") \in Frames /\ Plain("RELAY").tag = "none"
    BY PlainFrames DEF FrameTypes, Plain, Frame
  <2>2. \/ th' = Go("service", "idle")
        \/ \E f, pc :
             f \in Frames /\ f.tag = "none" /\ th' = SendThen("service", <<f>>, pc)
    BY <2>1 DEF ArmSucceeds, ArmFails, RelayReturns
  <2>3. CASE th' = Go("service", "idle")
    <3>1. /\ th' = [th EXCEPT !["service"] = Stopped("idle")]
          /\ Stopped("idle").todo = <<>> /\ Stopped("idle").pc = "idle"
      BY <2>3, GoIs DEF Stopped
    <3> QED
      BY <3>1, RequestsNothing
  <2>4. CASE \E f, pc :
               f \in Frames /\ f.tag = "none" /\ th' = SendThen("service", <<f>>, pc)
    <3>1. PICK f, pc :
            f \in Frames /\ f.tag = "none" /\ th' = SendThen("service", <<f>>, pc)
      BY <2>4
    <3>2. th' = [th EXCEPT !["service"] = Sends(<<f>>, pc)]
      BY <3>1, OneFrame, SendThenIs
    <3>3. Sends(<<f>>, pc).pc = "send"
      BY DEF Sends
    <3> QED
      BY <3>1, <3>2, <3>3, RequestsOne
  <2> QED
    BY <2>2, <2>3, <2>4
<1>7. th["service"].pc \in WaitPoints
  BY <1>1 DEF WaitPoints, AnsweredPoints
<1>8. UNCHANGED <<port, tx, handshake>>
  BY <1>1
<1> QED
  BY <1>1, <1>2, <1>3, <1>4, <1>5, <1>6, <1>7, <1>8, WaiterGoesOn

\* A reset, DISARM, STOP or ESTOP returns.
LEMMA WaiterReturnsAnswers ==
  ASSUME BridgeInv, AnswerInv, NEW t \in Waiters, WaiterReturns(t)
  PROVE  AnswerInv'
<1>1. /\ TypesInv /\ PendingInv /\ t \in Threads
      /\ "service" \in Waiters
      /\ th[t].pc = "wait" /\ th' = Go(t, "idle")
      /\ wire' = Forgotten(t, wire) /\ rx' = Forgotten(t, rx)
      /\ pending' = Popped(t)
      /\ UNCHANGED <<batch, port, tx, handshake, auth, cancelled>>
  BY DEF BridgeInv, AnswerInv, Waiters, Threads, WaiterReturns, At,
         session, authority
<1>2. Forgets /\ ~Named(t)'
  BY <1>1, ForgottenUnnames
<1>3. /\ th' = [th EXCEPT ![t] = Stopped("idle")]
      /\ Stopped("idle").todo = <<>> /\ Stopped("idle").pc = "idle"
  BY <1>1, GoIs DEF Stopped
<1>4. Requests(t, Stopped("idle"))
  BY <1>3, RequestsNothing
<1>5. ArmPending' /\ ~cancelled' /\ pending'["service"] # "none"
           => ArmPending /\ ~cancelled /\ pending["service"] # "none"
  <2>1. CASE t = "service"
    BY <1>1, <2>1 DEF PendingInv, Popped
  <2>2. CASE t # "service"
    <3>1. th'["service"] = th["service"]
          /\ pending'["service"] = pending["service"]
      BY <1>1, <1>3, <2>2 DEF PendingInv, Popped, TypesInv, Threads
    <3> QED
      BY <1>1, <3>1 DEF ArmPending, Dest, Sending
  <2> QED
    BY <2>1, <2>2
<1>6. th[t].pc \in WaitPoints /\ Stopped("idle").pc # "opened"
  BY <1>1, <1>3 DEF WaitPoints
<1>7. auth'.ack => auth.ack \/ port \/ Closing
  BY <1>1
<1>8. UNCHANGED <<port, tx, handshake>>
  BY <1>1
<1> QED
  BY <1>1, <1>2, <1>3, <1>4, <1>5, <1>6, <1>7, <1>8, WaiterGoesOn

\* The firmware answers the frame it takes off the link, or nobody.
LEMMA AnswersForget ==
  ASSUME TypesInv, PendingInv, batch' = batch,
         \/ wire' = wire
         \/ wire # <<>> /\ wire' = Tail(wire),
         \/ rx' = rx
         \/ \E a \in Answers :
              /\ rx' = Append(rx, a)
              /\ \A u \in Waiters :
                   AckFor(a, u) =>
                     wire # <<>> /\ Head(wire).tag = u
  PROVE  Forgets
<1>1. /\ wire \in Seq(Frames) /\ rx \in Seq(Answers)
      /\ batch \in 0 .. Len(rx)
  BY DEF TypesInv, PendingInv
<1>2. /\ \A i \in 1 .. Len(wire') : \E j \in 1 .. Len(wire) :
           wire'[i] = wire[j]
      /\ wire # <<>> => Head(wire) = wire[1] /\ 1 \in 1 .. Len(wire)
  <2>1. wire # <<>> =>
          /\ Head(wire) = wire[1] /\ 1 \in 1 .. Len(wire)
          /\ \A j \in 1 .. Len(Tail(wire)) :
               Tail(wire)[j] = wire[j + 1] /\ j + 1 \in 1 .. Len(wire)
    BY <1>1, RestOfFrames
  <2> QED
    BY <1>1, <2>1
<1>3. /\ rx' \in Seq(Answers) /\ batch' \in 0 .. Len(rx')
      /\ \A u \in Waiters : \A i \in 1 .. Len(rx') :
           AckFor(rx'[i], u) =>
             \/ i \in 1 .. Len(rx) /\ AckFor(rx[i], u)
             \/ wire # <<>> /\ Head(wire).tag = u
  <2>1. CASE rx' = rx
    BY <1>1, <2>1
  <2>2. CASE rx' # rx
    <3>1. PICK a \in Answers :
            /\ rx' = Append(rx, a)
            /\ \A u \in Waiters :
                 AckFor(a, u) => wire # <<>> /\ Head(wire).tag = u
      BY <2>2
    <3>2. /\ rx' \in Seq(Answers) /\ Len(rx') = Len(rx) + 1
          /\ \A i \in 1 .. Len(rx') :
               \/ i \in 1 .. Len(rx) /\ rx'[i] = rx[i]
               \/ rx'[i] = a
      BY <1>1, <3>1
    <3>3. batch' \in 0 .. Len(rx')
      <4>1. ASSUME NEW n \in Nat, NEW b \in 0 .. n
            PROVE  b \in 0 .. n + 1
        OBVIOUS
      <4> QED
        BY <1>1, <3>2, <4>1
    <3> QED
      BY <3>1, <3>2, <3>3
  <2> QED
    BY <2>1, <2>2
<1>4. ASSUME NEW u \in Waiters, Named(u)'
      PROVE  Named(u)
  <2>1. CASE \E i \in 1 .. Len(wire') : wire'[i].tag = u
    BY <1>2, <2>1 DEF Named
  <2>2. CASE \E i \in 1 .. Len(rx') : AckFor(rx'[i], u)
    BY <1>2, <1>3, <2>2 DEF Named
  <2> QED
    BY <1>4, <2>1, <2>2 DEF Named, AckFor
<1> QED
  BY <1>3, <1>4 DEF Forgets

\* What the firmware sends are answers.
LEMMA AnswersAre ==
  /\ \A frame \in Frames : \A v \in {"ok", "refused", "not_armed"} :
       /\ Ack(frame, v) \in Answers
       /\ \A u : AckFor(Ack(frame, v), u) => frame.tag = u
  /\ \A type \in {"HELLO_ACK", "EVENT"} :
       /\ [type |-> type] \in Answers
       /\ \A u : ~AckFor([type |-> type], u)
  /\ \A armed, latched, lost \in BOOLEAN :
       LET status_frame == [type |-> "STATUS", armed |-> armed,
                            latched |-> latched, lost |-> lost]
       IN  status_frame \in Answers /\ \A u : ~AckFor(status_frame, u)
<1>1. ASSUME NEW frame \in Frames, NEW v \in {"ok", "refused", "not_armed"}
      PROVE  /\ Ack(frame, v) \in AckFrames
             /\ Ack(frame, v).tag = frame.tag
  BY <1>1 DEF Ack, AckFrames, Frames
<1>2. ASSUME NEW type \in {"HELLO_ACK", "EVENT"}
      PROVE  /\ [type |-> type] \in EventFrames
             /\ [type |-> type].type # "ACK"
  BY <1>2 DEF EventFrames
<1>3. ASSUME NEW armed \in BOOLEAN, NEW latched \in BOOLEAN,
             NEW lost \in BOOLEAN
      PROVE  /\ [type |-> "STATUS", armed |-> armed, latched |-> latched,
                 lost |-> lost] \in StatusFrames
             /\ [type |-> "STATUS", armed |-> armed, latched |-> latched,
                 lost |-> lost].type # "ACK"
  BY <1>3, Zenon DEF StatusFrames
<1>4. \A frame \in Frames : \A v \in {"ok", "refused", "not_armed"} :
       /\ Ack(frame, v) \in Answers
       /\ \A u : AckFor(Ack(frame, v), u) => frame.tag = u
  BY <1>1 DEF Answers, AckFor
<1>5. \A type \in {"HELLO_ACK", "EVENT"} :
       /\ [type |-> type] \in Answers
       /\ \A u : ~AckFor([type |-> type], u)
  BY <1>2 DEF Answers, AckFor
<1>6. \A armed, latched, lost \in BOOLEAN :
       LET status_frame == [type |-> "STATUS", armed |-> armed,
                            latched |-> latched, lost |-> lost]
       IN  status_frame \in Answers /\ \A u : ~AckFor(status_frame, u)
  BY <1>3, Zenon DEF Answers, AckFor
<1> QED
  BY <1>4, <1>5, <1>6

LEMMA EspAnswers ==
  ASSUME NEW frame \in Frames, EspHandles(frame)
  PROVE  \/ rx' = rx
         \/ \E a \in Answers :
              /\ rx' = Append(rx, a)
              /\ \A u \in Waiters : AckFor(a, u) => frame.tag = u
<1>1. \/ \E v \in {"ok", "refused", "not_armed"} : Answer(Ack(frame, v))
      \/ Answer([type |-> "HELLO_ACK"])
      \/ rx' = rx
  <2>1. CASE frame.type = "HELLO"
    BY <2>1, Zenon DEF EspHandles
  <2>2. CASE frame.type = "ARM"
    <3>1. \/ Answer(Ack(frame, "ok")) \/ Answer(Ack(frame, "not_armed"))
          \/ Answer(Ack(frame, "refused"))
      <4>1. CASE esp = "DISARMED"
        BY <2>2, <4>1 DEF EspHandles
      <4>2. CASE esp # "DISARMED"
        BY <2>2, <4>2 DEF EspHandles
      <4> QED
        BY <4>1, <4>2
    <3> QED
      BY <3>1
  <2>3. CASE frame.type = "CMD_VEL"
    <3>1. frame.type \notin ZeroCalls
      BY <2>3 DEF ZeroCalls
    <3>2. rx' = rx \/ Answer(Ack(frame, "refused"))
      BY <2>3, <3>1 DEF EspHandles
    <3> QED
      BY <3>2
  <2>4. CASE frame.type = "RESET"
    <3>1. Answer(Ack(frame, "ok")) \/ Answer(Ack(frame, "refused"))
      BY <2>4 DEF EspHandles
    <3> QED
      BY <3>1
  <2>5. CASE frame.type = "RELAY"
    <3>1. \E v \in {"ok", "refused"} : Answer(Ack(frame, v))
      BY <2>5 DEF EspHandles
    <3> QED
      BY <3>1
  <2>6. CASE frame.type \in ZeroCalls
    <3>1. frame.type \notin {"HELLO", "ARM", "CMD_VEL", "RESET", "RELAY"}
      BY <2>6 DEF ZeroCalls
    <3>2. Answer(Ack(frame, "ok"))
      BY <2>6, <3>1 DEF EspHandles
    <3> QED
      BY <3>2
  <2>7. frame.type \in FrameTypes
    BY DEF Frames
  <2> QED
    BY <2>1, <2>2, <2>3, <2>4, <2>5, <2>6, <2>7 DEF FrameTypes, ZeroCalls
<1>2. CASE \E v \in {"ok", "refused", "not_armed"} : Answer(Ack(frame, v))
  BY <1>2, AnswersAre DEF Answer
<1>3. CASE Answer([type |-> "HELLO_ACK"])
  BY <1>3, AnswersAre DEF Answer
<1> QED
  BY <1>1, <1>2, <1>3

LEMMA FirmwareAnswers ==
  ASSUME BridgeInv, AnswerInv, Firmware
  PROVE  AnswerInv'
<1>1. /\ TypesInv /\ PendingInv
      /\ UNCHANGED <<th, port, tx, pending, handshake, auth, cancelled, batch>>
  BY DEF BridgeInv, AnswerInv, Firmware, EspReceives, EspFaults,
         EspLosesSession, EspStatus, session, authority, locks
<1>2. Forgets
  <2>1. CASE EspReceives
    <3>1. /\ wire # <<>> /\ wire' = Tail(wire)
          /\ EspHandles(Head(wire)) \/ rx' = rx
      BY <2>1 DEF EspReceives
    <3>2. Head(wire) \in Frames
      BY <1>1, <3>1, RestOfFrames DEF TypesInv
    <3> QED
      BY <1>1, <3>1, <3>2, EspAnswers, AnswersForget
  <2>2. CASE EspFaults
    <3>1. wire' = wire /\ Answer([type |-> "EVENT"])
      BY <2>2 DEF EspFaults
    <3> QED
      BY <1>1, <3>1, AnswersAre, AnswersForget DEF Answer
  <2>3. CASE EspLosesSession
    <3>1. wire' = wire /\ rx' = rx
      BY <2>3 DEF EspLosesSession
    <3> QED
      BY <1>1, <3>1, AnswersForget
  <2>4. CASE EspStatus
    <3>1. PICK armed \in BOOLEAN : armed = (esp = "ARMED")
      OBVIOUS
    <3>2. PICK latched \in BOOLEAN : latched = (esp = "LATCHED")
      OBVIOUS
    <3>3. PICK lost \in BOOLEAN : lost = (esp = "DISCONNECTED")
      OBVIOUS
    <3> DEFINE a == [type |-> "STATUS", armed |-> armed, latched |-> latched,
                     lost |-> lost]
    <3>4. wire' = wire /\ rx' = Append(rx, a)
      BY <2>4, <3>1, <3>2, <3>3, Zenon DEF EspStatus
    <3>5. a \in Answers /\ \A u : ~AckFor(a, u)
      BY AnswersAre, Zenon
    <3> HIDE DEF a
    <3> QED
      BY <1>1, <3>4, <3>5, AnswersForget
  <2> QED
    BY <2>1, <2>2, <2>3, <2>4 DEF Firmware
<1> QED
  BY <1>1, <1>2, StillStep

\* The steps of the serial link.
LEMMA SerialAnswers ==
  ASSUME BridgeInv, AnswerInv, NEW t \in Threads, Serial(t)
  PROVE  AnswerInv'
<1>1. TypesInv /\ PendingInv
  BY DEF BridgeInv, AnswerInv
<1>2. CASE Sent(t)
  BY <1>2, SentAnswers
<1>3. CASE NotSent(t)
  BY <1>1, <1>3, NotSentActs, OrdinaryStep
<1>4. CASE WriteFails(t)
  BY <1>4, StartDisconnectAnswers DEF WriteFails, At
<1>5. CASE FinishDisconnect(t)
  BY <1>5, FinishDisconnectAnswers
<1>6. CASE ClearAndReturn(t)
  BY <1>1, <1>6, ClearAndReturnActs, OrdinaryStep
<1> QED
  BY <1>2, <1>3, <1>4, <1>5, <1>6 DEF Serial

LEMMA IoAnswers ==
  ASSUME BridgeInv, AnswerInv, Io
  PROVE  AnswerInv'
<1>1. TypesInv /\ PendingInv /\ "io" \in Threads
  BY DEF BridgeInv, AnswerInv, Threads
<1>2. CASE \/ Opened \/ RepeatHello \/ Greeted \/ SessionLost
           \/ VelocityRefused \/ HandleHelloAck \/ HandleEvent \/ Refused
  BY <1>1, <1>2, IoActs, OrdinaryStep
<1>3. CASE OpenSerial
  BY <1>3, OpenSerialAnswers
<1>4. CASE ReadBytes
  <2>1. /\ batch' \in 1 .. Len(rx)
        /\ UNCHANGED <<th, port, tx, pending, handshake, auth, cancelled,
                       wire, rx>>
    BY <1>4 DEF ReadBytes, session, authority, locks
  <2>2. Forgets
    BY <1>1, <2>1, ForgetsOne
  <2> QED
    BY <2>1, <2>2, StillStep
<1>5. CASE ReadFails
  BY <1>5, ReadFailsAnswers
<1>6. CASE HandleStatus
  BY <1>1, <1>6, HandleStatusActs, OrdinaryStep
<1>7. CASE PublishStatus
  BY <1>1, <1>7, PublishStatusActs, OrdinaryStep
<1>8. CASE HandleCommandAck
  BY <1>8, HandleCommandAckAnswers
<1> QED
  BY <1>2, <1>3, <1>4, <1>5, <1>6, <1>7, <1>8 DEF Io

\* The control thread, the timers, and time.
LEMMA MotionAnswers ==
  ASSUME BridgeInv, AnswerInv, Control \/ Timers \/ CommandGoesStale
  PROVE  AnswerInv'
<1>1. TypesInv /\ PendingInv /\ auth \in AuthRecs
  BY DEF BridgeInv, AnswerInv, TypesInv
<1>2. CASE OnCmdVel \/ CommandGoesStale
  <2>1. UNCHANGED <<th, port, tx, pending, handshake, cancelled, wire, rx,
                    batch>>
    BY <1>2 DEF OnCmdVel, CommandGoesStale, session, locks, link
  <2>2. auth'.ack = auth.ack
    BY <1>1, <1>2 DEF OnCmdVel, CommandGoesStale, AuthRecs
  <2>3. Forgets
    BY <1>1, <2>1, ForgetsOne
  <2> QED
    BY <2>1, <2>2, <2>3, StillStep
<1>3. CASE RejectVelocity
  BY <1>3, RejectVelocityAnswers
<1>4. CASE OnSafetyState
  BY <1>4, OnSafetyStateAnswers
<1>5. CASE CommandTick
  BY <1>5, CommandTickAnswers
<1>6. CASE HeartbeatTick
  <2>1. "heartbeat" \in Threads
    BY DEF Threads
  <2> QED
    BY <1>6, <2>1, StartDisconnectAnswers DEF HeartbeatTick, At
<1> QED
  BY <1>2, <1>3, <1>4, <1>5, <1>6 DEF Control, Timers

LEMMA ServicesAnswers ==
  ASSUME BridgeInv, AnswerInv, Services
  PROVE  AnswerInv'
<1>1. CASE ArmCalled \/ BeginArm \/ ResetCalled \/ RelayCalled \/ ArmReturns
  BY <1>1, ServicesAsk
<1>2. CASE ArmWaitEnds \/ RelayWaitEnds
  BY <1>2, WaitEndsAnswers
<1>3. CASE ArmSucceeds \/ ArmFails \/ RelayReturns
  BY <1>3, AnswersPopped
<1>4. CASE \E call \in ZeroCalls : ZeroCalled(call)
  BY <1>4, ZeroCalledAnswers
<1>5. CASE \E t \in Waiters : WaiterReturns(t)
  BY <1>5, WaiterReturnsAnswers
<1> QED
  BY <1>1, <1>2, <1>3, <1>4, <1>5 DEF Services

\* Nothing is asked, nothing is on the link.
LEMMA AnswerInit ==
  ASSUME Init
  PROVE  AnswerInv
<1>1. /\ rx = <<>> /\ wire = <<>> /\ batch = 0 /\ port = FALSE
      /\ handshake = FALSE
      /\ th = [t \in Threads |-> Idle] /\ auth = NoAuth
      /\ pending = [t \in Waiters |-> "none"]
  BY DEF Init
<1>2. Idle.todo = <<>> /\ Idle.pc = "idle"
  BY DEF Idle
<1>3. \A t : Requests(t, Idle)
  BY <1>2, RequestsNothing
<1>4. Len(rx) = 0 /\ Len(wire) = 0 /\ rx \in Seq(Answers)
  BY <1>1
<1>5. \A t : ~Named(t)
  BY <1>4 DEF Named
<1>6. /\ pending \in [Waiters -> Verdicts]
      /\ \A t \in Waiters : pending[t] = "none"
  BY <1>1 DEF Verdicts
<1>7. batch \in 0 .. Len(rx)
  BY <1>1, <1>4
<1>8. \A t \in Threads : Requests(t, th[t])
  BY <1>1, <1>3
<1>9. PendingInv
  BY <1>4, <1>5, <1>6, <1>7, <1>8 DEF PendingInv
<1>10. ConnectionInv
  BY <1>1, <1>6, NoAuthType DEF ConnectionInv, Waiters
<1>11. ReopenInv
  <2>1. th["io"] = Idle
    BY <1>1 DEF Threads
  <2> QED
    BY <1>2, <2>1 DEF ReopenInv, At
<1> QED
  BY <1>9, <1>10, <1>11 DEF AnswerInv

LEMMA AnswerStep ==
  ASSUME BridgeInv, AnswerInv, [Next]_vars
  PROVE  AnswerInv'
<1>1. CASE UNCHANGED vars
  <2>1. /\ UNCHANGED <<th, port, tx, pending, handshake, auth, cancelled,
                       wire, rx, batch>>
        /\ PendingInv
    BY <1>1 DEF vars, session, authority, locks, link, AnswerInv
  <2>2. Forgets
    BY <2>1, ForgetsOne
  <2> QED
    BY <2>1, <2>2, StillStep
<1>2. CASE \E t \in Threads : Serial(t)
  BY <1>2, SerialAnswers
<1>3. CASE Io
  BY <1>3, IoAnswers
<1>4. CASE Control \/ Timers \/ CommandGoesStale
  BY <1>4, MotionAnswers
<1>5. CASE Services
  BY <1>5, ServicesAnswers
<1>6. CASE Firmware
  BY <1>6, FirmwareAnswers
<1> QED
  BY <1>1, <1>2, <1>3, <1>4, <1>5, <1>6 DEF Next

\* An answer is credited only to the request it answers, however late it
\* comes; an ARM, and the authority it earned, never outlive the connection
\* they were asked on.
THEOREM BridgeAnswers == Spec => []AnswerInv
<1>1. Init => AnswerInv
  BY AnswerInit
<1>2. BridgeInv /\ AnswerInv /\ [Next]_vars => AnswerInv'
  BY AnswerStep
<1> QED
  BY <1>1, <1>2, BridgeInvariant, PTL DEF Spec

\* The mode a moving CMD_VEL is written in is the one that the safety node
\* authorised last, even when the port was closed and opened again between the
\* decision to send it and the write.
THEOREM BridgeMotionMatchesSafety == Spec => MotionMatchesSafety
<1>1. BridgeInv /\ AnswerInv /\ [Next]_vars
        => [MovingVelocityWritten => safety = ExpectedState(auth.mode)]_vars
  <2> SUFFICES ASSUME BridgeInv, AnswerInv, [Next]_vars,
                      MovingVelocityWritten
               PROVE  safety = ExpectedState(auth.mode)
    OBVIOUS
  <2>1. /\ auth.open /\ Sent("command") /\ motion = "command"
    BY VelocityWrittenFacts DEF MovingVelocityWritten
  <2>2. tx = "none" /\ port /\ ~Revoking
    BY <2>1 DEF Sent, Revoking
  <2>3. MovingPending
    <3>1. PICK t \in Threads :
            /\ Sent(t)
            /\ 1 \in 1 .. Len(th[t].todo)
            /\ wire'[Len(wire')] = th[t].todo[1]
      BY WrittenIsFirst DEF MovingVelocityWritten, VelocityWritten
    <3>2. /\ th[t].todo[1].type = "CMD_VEL" /\ th[t].todo[1].moving
      BY <3>1 DEF MovingVelocityWritten, VelocityWritten
    <3>3. t = "command"
      BY <3>1, <3>2 DEF BridgeInv, FramesInv, FrameOK
    <3> QED
      BY <3>1, <3>2, <3>3 DEF MovingPending, Moving
  <2>4. ~At("io", "opened")
    BY <2>2, <2>3 DEF AnswerInv, ReopenInv
  <2> QED
    BY <2>1, <2>2, <2>4 DEF BridgeInv, MatchInv, Matching
<1> QED
  BY <1>1, BridgeInvariant, BridgeAnswers, PTL DEF Spec, MotionMatchesSafety

=============================================================================
