-------------------------- MODULE RouteUploadProofs --------------------------
(***************************************************************************)
(* Proofs about module RouteUpload, for all sizes of routes and polygons:  *)
(* a route that is ready is whole, and the route that is driven stands.    *)
(***************************************************************************)
EXTENDS RouteUpload, SequenceTheorems, TLAPS

States == {"NONE", "UPLOADING", "READY", "INVALID"}
Points == Seq(Nat)

Stores ==
  [state : States, expected : Nat, waypoints : Points,
   corners : Nat, fence : Points, fencing : BOOLEAN, fenced : BOOLEAN,
   sizes : Seq(Sizes), scratch : Points, polygon : Nat,
   forbidding : BOOLEAN, forbidden : BOOLEAN, obstacles : Seq(Points)]

\* The fence is whole once it has been ended.
FenceShape(s) ==
  /\ s.fencing \/ s.fenced => s.corners >= MinPoints
  /\ s.fenced => ~s.fencing /\ Len(s.fence) = s.corners

\* All polygons before the one that is being sent are obstacles.
PolygonShape(s) ==
  /\ Len(s.obstacles) <= Len(s.sizes)
  /\ \A k \in 1..Len(s.obstacles) : Len(s.obstacles[k]) = s.sizes[k]
  /\ s.forbidding =>
       /\ ~s.forbidden
       /\ s.polygon <= Len(s.sizes)
       /\ Len(s.obstacles) = IF s.polygon = 0 THEN 0 ELSE s.polygon - 1
  /\ s.forbidden => Len(s.obstacles) = Len(s.sizes)

StoreOK(s) ==
  /\ s \in Stores
  /\ FenceShape(s) /\ PolygonShape(s)
  /\ s.state = "READY" => Complete(s)

\* All points of a store have one origin.
From(s, o) ==
  /\ \A i \in 1..Len(s.waypoints) : s.waypoints[i] = o
  /\ \A i \in 1..Len(s.fence) : s.fence[i] = o
  /\ \A i \in 1..Len(s.scratch) : s.scratch[i] = o
  /\ \A k \in 1..Len(s.obstacles) :
       \A i \in 1..Len(s.obstacles[k]) : s.obstacles[k][i] = o

\* loop has cleared the store for its GO.
Begun == loop.at = "go" /\ (loop.calls = <<>> \/ Head(loop.calls).op # "begin")

Author == IF Begun THEN GO ELSE uploads

OneAuthor ==
  (~mixed /\ store.state # "INVALID") => \E o \in Nat :
              /\ From(store, o)
              /\ Uploading(store) \/ Begun => o = Author

Ops == {"begin", "waypoint", "begin fence", "corner", "end fence", "forbid", "end"}

\* A GO begins with begin and ends with end.
LoopOK ==
  \/ loop = Idle
  \/ loop.at = "start" /\ loop = [Idle EXCEPT !.at = "start"]
  \/ /\ loop.at = "go"
     /\ loop \in [at : {"go"}, calls : Seq([op : Ops, i : Nat]), checked : BOOLEAN]
     /\ \A j \in 2..Len(loop.calls) : loop.calls[j].op # "begin"
     /\ loop.calls # <<>> => loop.calls[Len(loop.calls)].op = "end"
     /\ Begun /\ ~mixed =>
          /\ store.expected = MaxWaypoints
          /\ loop.calls = <<>> => ~Uploading(store)

ReservationOK ==
  /\ reserved => nav /\ ~begin
  /\ begin /\ nav => active
  /\ active => loop = Idle

StartOK ==
  (loop.at = "start" /\ reserved) =>
    /\ store.state = "READY"
    /\ Len(plan) <= Len(store.waypoints)
    /\ \A i \in 1..Len(plan) : plan[i] = store.waypoints[i]

UploadInv ==
  /\ StoreOK(store) /\ OneAuthor
  /\ LoopOK /\ ReservationOK /\ StartOK
  /\ uploads \in Nat /\ plan \in Points
  /\ DrivenRouteStands

USE UploadAssumption

-----------------------------------------------------------------------------
(* The members of the store                                                *)

\* The empty sequence, and a longer one, have their type.
LEMMA EmptyIsSeq == ASSUME NEW S PROVE <<>> \in Seq(S)
  OBVIOUS

LEMMA AppendIsSeq ==
  ASSUME NEW S, NEW seq \in Seq(S), NEW e \in S
  PROVE  /\ Append(seq, e) \in Seq(S)
         /\ Len(Append(seq, e)) = Len(seq) + 1
         /\ \A i \in 1..Len(seq) : Append(seq, e)[i] = seq[i]
         /\ Append(seq, e)[Len(seq) + 1] = e
  OBVIOUS

\* Short sequences have their type, too.
LEMMA ShortIsSeq ==
  ASSUME NEW S, NEW x \in S, NEW y \in S, NEW z \in S
  PROVE  /\ <<x>> \in Seq(S) /\ Len(<<x>>) = 1 /\ <<x>>[1] = x
         /\ <<x, y, z>> \in Seq(S) /\ Len(<<x, y, z>>) = 3
         /\ <<x, y, z>>[3] = z
  OBVIOUS

\* A sequence that is taken from its front.
LEMMA TailIsSeq ==
  ASSUME NEW S, NEW q \in Seq(S), q # <<>>
  PROVE  /\ Head(q) \in S /\ Head(q) = q[1]
         /\ Tail(q) \in Seq(S) /\ Len(q) \in Nat \ {0}
         /\ Len(Tail(q)) = Len(q) - 1
         /\ \A j \in 1..Len(Tail(q)) : Tail(q)[j] = q[j + 1]
         /\ Tail(q) = <<>> <=> Len(q) = 1
         /\ Tail(q) # <<>> => /\ Head(Tail(q)) = q[2]
                              /\ Tail(q)[Len(Tail(q))] = q[Len(q)]
<1>1. /\ Head(q) \in S /\ Head(q) = q[1]
      /\ Tail(q) \in Seq(S) /\ Len(q) \in Nat \ {0}
  OBVIOUS
<1>2. /\ Len(Tail(q)) = Len(q) - 1
      /\ \A j \in 1..Len(Tail(q)) : Tail(q)[j] = q[j + 1]
  OBVIOUS
<1>3. Tail(q) = <<>> <=> Len(q) = 1
  <2>1. Tail(q) = <<>> <=> Len(Tail(q)) = 0
    BY <1>1, EmptySeq
  <2> QED
    BY <1>1, <1>2, <2>1
<1>4. ASSUME Tail(q) # <<>>
      PROVE  Head(Tail(q)) = q[2] /\ Tail(q)[Len(Tail(q))] = q[Len(q)]
  <2>1. Len(q) > 1 /\ Len(Tail(q)) \in 1..Len(Tail(q)) /\ 1 \in 1..Len(Tail(q))
    BY <1>1, <1>2, <1>3, <1>4
  <2>2. Head(Tail(q)) = Tail(q)[1]
    BY <1>1, <1>4
  <2> QED
    BY <1>1, <1>2, <2>1, <2>2
<1> QED
  BY <1>1, <1>2, <1>3, <1>4

\* The store that stop leaves.
LEMMA ClearedOK == StoreOK(Cleared) /\ \A o \in Nat : From(Cleared, o)
  BY DEF StoreOK, Stores, States, Points, Cleared, FenceShape, PolygonShape, From

\* BeginUpload keeps the points only of a store that it makes invalid.
LEMMA BeginUploadOK ==
  ASSUME NEW s, StoreOK(s), NEW count \in Nat
  PROVE  /\ StoreOK(BeginUpload(s, count))
         /\ BeginUpload(s, count).state \in {"INVALID", "UPLOADING"}
         /\ BeginUpload(s, count).state = "UPLOADING"
              => /\ BeginUpload(s, count).expected = count
                 /\ \A o \in Nat : From(BeginUpload(s, count), o)
<1>1. CASE count \notin Waypoints
  BY <1>1 DEF BeginUpload, StoreOK, Stores, States, FenceShape, PolygonShape
<1>2. CASE count \in Waypoints
  <2> DEFINE r == BeginUpload(s, count)
  <2>1. r = [Cleared EXCEPT !.state = "UPLOADING", !.expected = count]
    BY <1>2 DEF BeginUpload
  <2>2. r \in Stores /\ r.state = "UPLOADING" /\ r.expected = count
    <3>1. <<>> \in Points /\ <<>> \in Seq(Points) /\ <<>> \in Seq(Sizes)
      BY EmptyIsSeq DEF Points
    <3>2. Cleared \in Stores
      BY <3>1 DEF Stores, States, Cleared
    <3> QED
      BY <2>1, <3>2 DEF Stores, States
  <2>3. /\ r.waypoints = <<>> /\ r.fence = <<>> /\ r.scratch = <<>>
        /\ r.obstacles = <<>> /\ r.sizes = <<>>
        /\ ~r.fencing /\ ~r.fenced /\ ~r.forbidding /\ ~r.forbidden
    BY <2>1 DEF Cleared
  <2> HIDE DEF r
  <2>4. FenceShape(r) /\ PolygonShape(r)
    BY <2>3 DEF FenceShape, PolygonShape
  <2>5. \A o \in Nat : From(r, o)
    BY <2>3 DEF From
  <2> QED
    BY <2>2, <2>4, <2>5 DEF StoreOK, r
<1> QED
  BY <1>1, <1>2

\* A waypoint is appended, or the store stays as it is.
LEMMA AddWaypointOK ==
  ASSUME NEW s, StoreOK(s), NEW i, NEW o \in Nat
  PROVE  /\ StoreOK(AddWaypoint(s, i, o))
         /\ From(s, o) => From(AddWaypoint(s, i, o), o)
         /\ AddWaypoint(s, i, o).state = s.state
         /\ AddWaypoint(s, i, o).expected = s.expected
         /\ ~Uploading(s) => AddWaypoint(s, i, o) = s
<1> DEFINE r == AddWaypoint(s, i, o)
<1>1. CASE r = s
  BY <1>1
<1>2. CASE r # s
  <2>1. /\ r = [s EXCEPT !.waypoints = Append(s.waypoints, o)]
        /\ s.state = "UPLOADING"
    BY <1>2 DEF AddWaypoint, TakesWaypoint, Uploading
  <2>2. r \in Stores /\ r.state = s.state /\ r.expected = s.expected
    <3>1. Append(s.waypoints, o) \in Points
      BY DEF StoreOK, Stores, Points
    <3> QED
      BY <2>1, <3>1 DEF StoreOK, Stores
  <2>3. From(s, o) => From(r, o)
    BY <2>1, SMTT(30) DEF StoreOK, Stores, Points, From
  <2>4. FenceShape(r) /\ PolygonShape(r)
    BY <2>1 DEF StoreOK, Stores, FenceShape, PolygonShape
  <2> QED
    BY <2>1, <2>2, <2>3, <2>4 DEF StoreOK, Uploading
<1> QED
  BY <1>1, <1>2

\* A new fence is not whole.
LEMMA BeginBoundaryOK ==
  ASSUME NEW s, StoreOK(s), NEW count
  PROVE  /\ StoreOK(BeginBoundary(s, count))
         /\ \A o \in Nat : From(s, o) => From(BeginBoundary(s, count), o)
         /\ BeginBoundary(s, count).state = s.state
         /\ BeginBoundary(s, count).expected = s.expected
         /\ ~Uploading(s) => BeginBoundary(s, count) = s
<1> DEFINE r == BeginBoundary(s, count)
<1>1. CASE r = s
  BY <1>1
<1>2. CASE r # s
  <2>1. /\ r = [s EXCEPT !.corners = count, !.fence = <<>>,
                         !.fencing = TRUE, !.fenced = FALSE]
        /\ s.state = "UPLOADING" /\ count \in Nat /\ count >= MinPoints
    BY <1>2 DEF BeginBoundary, Uploading, Sizes
  <2>2. r \in Stores
    BY <2>1, EmptyIsSeq DEF StoreOK, Stores, Points
  <2>3. /\ r.state = s.state /\ r.expected = s.expected
        /\ r.waypoints = s.waypoints /\ r.scratch = s.scratch
        /\ r.obstacles = s.obstacles /\ r.sizes = s.sizes
        /\ r.polygon = s.polygon /\ r.forbidding = s.forbidding
        /\ r.forbidden = s.forbidden
        /\ r.corners = count /\ r.fence = <<>> /\ r.fencing = TRUE
        /\ r.fenced = FALSE
    BY <2>1 DEF StoreOK, Stores
  <2> HIDE DEF r
  <2>4. FenceShape(r)
    BY <2>1, <2>3 DEF FenceShape
  <2>5. PolygonShape(r)
    BY <2>3 DEF StoreOK, PolygonShape
  <2>6. \A o \in Nat : From(s, o) => From(r, o)
    BY <2>3 DEF From
  <2> QED
    BY <2>1, <2>2, <2>3, <2>4, <2>5, <2>6 DEF StoreOK, Uploading, r
<1> QED
  BY <1>1, <1>2

\* A corner is appended to a fence that is not ended.
LEMMA AddBoundaryPointOK ==
  ASSUME NEW s, StoreOK(s), NEW i, NEW o \in Nat
  PROVE  /\ StoreOK(AddBoundaryPoint(s, i, o))
         /\ From(s, o) => From(AddBoundaryPoint(s, i, o), o)
         /\ AddBoundaryPoint(s, i, o).state = s.state
         /\ AddBoundaryPoint(s, i, o).expected = s.expected
         /\ ~Uploading(s) => AddBoundaryPoint(s, i, o) = s
<1> DEFINE r == AddBoundaryPoint(s, i, o)
<1>1. CASE r = s
  BY <1>1
<1>2. CASE r # s
  <2>1. /\ r = [s EXCEPT !.fence = Append(s.fence, o)]
        /\ s.state = "UPLOADING" /\ s.fencing
    BY <1>2 DEF AddBoundaryPoint, TakesCorner, Uploading
  <2>2. r \in Stores /\ r.state = s.state /\ r.expected = s.expected
    <3>1. Append(s.fence, o) \in Points
      BY DEF StoreOK, Stores, Points
    <3> QED
      BY <2>1, <3>1 DEF StoreOK, Stores
  <2>3. From(s, o) => From(r, o)
    BY <2>1, SMTT(30) DEF StoreOK, Stores, Points, From
  <2>4. FenceShape(r) /\ PolygonShape(r)
    BY <2>1 DEF StoreOK, Stores, FenceShape, PolygonShape
  <2> QED
    BY <2>1, <2>2, <2>3, <2>4 DEF StoreOK, Uploading
<1> QED
  BY <1>1, <1>2

\* A fence that is ended is whole if all of its corners have come.
LEMMA EndBoundaryOK ==
  ASSUME NEW s, StoreOK(s), NEW simple \in BOOLEAN
  PROVE  /\ StoreOK(EndBoundary(s, simple))
         /\ \A o \in Nat : From(s, o) => From(EndBoundary(s, simple), o)
         /\ EndBoundary(s, simple).state = s.state
         /\ EndBoundary(s, simple).expected = s.expected
         /\ ~Uploading(s) => EndBoundary(s, simple) = s
<1> DEFINE r == EndBoundary(s, simple)
           whole == simple /\ Len(s.fence) = s.corners
<1>1. CASE r = s
  BY <1>1
<1>2. CASE r # s
  <2>1. /\ s.state = "UPLOADING" /\ s.fencing
        /\ r = [s EXCEPT !.fencing = FALSE, !.fenced = @ \/ whole]
    BY <1>2 DEF EndBoundary, Uploading
  <2>2. whole \in BOOLEAN /\ (s.fenced \/ whole) \in BOOLEAN
    OBVIOUS
  <2>3. r \in Stores
    BY <2>1, <2>2 DEF StoreOK, Stores
  <2>4. /\ r.state = s.state /\ r.expected = s.expected
        /\ r.waypoints = s.waypoints /\ r.scratch = s.scratch
        /\ r.obstacles = s.obstacles /\ r.sizes = s.sizes
        /\ r.polygon = s.polygon /\ r.forbidding = s.forbidding
        /\ r.forbidden = s.forbidden
        /\ r.corners = s.corners /\ r.fence = s.fence /\ r.fencing = FALSE
        /\ r.fenced = (s.fenced \/ whole)
    BY <2>1 DEF StoreOK, Stores
  <2> HIDE DEF r
  <2>5. FenceShape(r)
    BY <2>1, <2>4 DEF StoreOK, FenceShape
  <2>6. PolygonShape(r)
    BY <2>4 DEF StoreOK, PolygonShape
  <2>7. \A o \in Nat : From(s, o) => From(r, o)
    BY <2>4 DEF From
  <2> QED
    BY <2>1, <2>3, <2>4, <2>5, <2>6, <2>7 DEF StoreOK, Uploading, r
<1> QED
  BY <1>1, <1>2

\* New polygons begin with none.
LEMMA BeginForbiddenOK ==
  ASSUME NEW s, StoreOK(s), NEW sizes \in Seq(Sizes)
  PROVE  /\ StoreOK(BeginForbidden(s, sizes))
         /\ \A o \in Nat : From(s, o) => From(BeginForbidden(s, sizes), o)
         /\ BeginForbidden(s, sizes).state = s.state
         /\ BeginForbidden(s, sizes).expected = s.expected
         /\ ~Uploading(s) => BeginForbidden(s, sizes) = s
<1> DEFINE r == BeginForbidden(s, sizes)
<1>1. CASE ~Uploading(s)
  BY <1>1 DEF BeginForbidden
<1>2. CASE Uploading(s)
  <2>1. r = [s EXCEPT !.sizes = sizes, !.scratch = <<>>, !.polygon = 0,
                      !.forbidding = TRUE, !.forbidden = FALSE,
                      !.obstacles = <<>>]
    BY <1>2 DEF BeginForbidden
  <2>2. <<>> \in Points /\ <<>> \in Seq(Points)
    BY EmptyIsSeq DEF Points
  <2>3. r \in Stores
    <3> DEFINE q == [s EXCEPT !.sizes = sizes, !.scratch = <<>>, !.polygon = 0]
    <3>1. q \in Stores
      BY <2>2 DEF StoreOK, Stores
    <3>2. r = [q EXCEPT !.forbidding = TRUE, !.forbidden = FALSE,
                        !.obstacles = <<>>]
      BY <2>1
    <3> HIDE DEF q, r
    <3> QED
      BY <2>2, <3>1, <3>2 DEF Stores
  <2>4. /\ r.state = s.state /\ r.expected = s.expected
        /\ r.waypoints = s.waypoints /\ r.scratch = <<>>
        /\ r.obstacles = <<>> /\ r.sizes = sizes
        /\ r.polygon = 0 /\ r.forbidding = TRUE /\ r.forbidden = FALSE
        /\ r.corners = s.corners /\ r.fence = s.fence
        /\ r.fencing = s.fencing /\ r.fenced = s.fenced
    BY <2>1 DEF StoreOK, Stores
  <2> HIDE DEF r
  <2>5. FenceShape(r)
    BY <2>4 DEF StoreOK, FenceShape
  <2>6. PolygonShape(r)
    BY <2>4 DEF PolygonShape
  <2>7. \A o \in Nat : From(s, o) => From(r, o)
    BY <2>4 DEF From
  <2> QED
    BY <1>2, <2>3, <2>4, <2>5, <2>6, <2>7 DEF StoreOK, Uploading, r
<1> QED
  BY <1>1, <1>2

\* A polygon that has been sent to its end becomes an obstacle.
LEMMA CommitOK ==
  ASSUME NEW s, s \in Stores, PolygonShape(s), s.forbidding,
         NEW simple \in BOOLEAN, Commits(s, simple)
  PROVE  /\ Commit(s) \in Stores
         /\ Len(Commit(s).obstacles) = s.polygon
         /\ \A k \in 1..s.polygon : Len(Commit(s).obstacles[k]) = s.sizes[k]
         /\ \A o \in Nat : From(s, o) => From(Commit(s), o)
         /\ Commit(s).scratch = <<>>
         /\ Commit(s).state = s.state /\ Commit(s).expected = s.expected
         /\ Commit(s).waypoints = s.waypoints
         /\ Commit(s).corners = s.corners /\ Commit(s).fence = s.fence
         /\ Commit(s).fencing = s.fencing /\ Commit(s).fenced = s.fenced
         /\ Commit(s).sizes = s.sizes /\ Commit(s).polygon = s.polygon
         /\ Commit(s).forbidding = s.forbidding
         /\ Commit(s).forbidden = s.forbidden
<1> DEFINE r == Commit(s)
           more == Append(s.obstacles, s.scratch)
<1>1. r = [s EXCEPT !.obstacles = more, !.scratch = <<>>]
  BY DEF Commit
<1>2. /\ s.scratch \in Points /\ s.obstacles \in Seq(Points)
      /\ s.polygon \in Nat /\ s.sizes \in Seq(Sizes)
  BY DEF Stores
<1>3. /\ more \in Seq(Points) /\ Len(more) = Len(s.obstacles) + 1
      /\ \A k \in 1..Len(s.obstacles) : more[k] = s.obstacles[k]
      /\ more[Len(s.obstacles) + 1] = s.scratch
  BY <1>2, AppendIsSeq
<1>4. /\ s.polygon > 0 /\ Len(s.obstacles) = s.polygon - 1
      /\ Len(s.scratch) = s.sizes[s.polygon]
  BY <1>2 DEF Commits, PolygonShape
<1> HIDE DEF more
<1>5. r \in Stores
  BY <1>1, <1>3, EmptyIsSeq DEF Stores, Points
<1>6. /\ r.obstacles = more /\ r.scratch = <<>>
      /\ r.state = s.state /\ r.expected = s.expected
      /\ r.waypoints = s.waypoints
      /\ r.corners = s.corners /\ r.fence = s.fence
      /\ r.fencing = s.fencing /\ r.fenced = s.fenced
      /\ r.sizes = s.sizes /\ r.polygon = s.polygon
      /\ r.forbidding = s.forbidding /\ r.forbidden = s.forbidden
  BY <1>1 DEF Stores
<1>7. \A k \in 1..s.polygon : Len(more[k]) = s.sizes[k]
  <2> SUFFICES ASSUME NEW k \in 1..s.polygon
               PROVE  Len(more[k]) = s.sizes[k]
    OBVIOUS
  <2>1. CASE k = s.polygon
    BY <1>2, <1>3, <1>4, <2>1
  <2>2. CASE k \in 1..Len(s.obstacles)
    BY <1>3, <2>2 DEF PolygonShape
  <2> QED
    BY <1>2, <1>4, <2>1, <2>2
<1> HIDE DEF r
<1>8. ASSUME NEW o \in Nat, From(s, o)
      PROVE  From(r, o)
  <2>1. \A k \in 1..Len(more) : \A i \in 1..Len(more[k]) : more[k][i] = o
    <3> SUFFICES ASSUME NEW k \in 1..Len(more), NEW i \in 1..Len(more[k])
                 PROVE  more[k][i] = o
      OBVIOUS
    <3>1. CASE k = Len(s.obstacles) + 1
      BY <1>3, <1>8, <3>1 DEF From
    <3>2. CASE k \in 1..Len(s.obstacles)
      BY <1>3, <1>8, <3>2 DEF From
    <3> QED
      BY <1>2, <1>3, <3>1, <3>2
  <2> QED
    BY <1>6, <1>8, <2>1 DEF From
<1>9. Len(more) = s.polygon
  BY <1>2, <1>3, <1>4
<1> QED
  BY <1>5, <1>6, <1>7, <1>8, <1>9 DEF r

\* A point goes on with its polygon, or begins the next one.
LEMMA AddForbiddenPointOK ==
  ASSUME NEW s, StoreOK(s), NEW p \in Nat \ {0}, NEW i, NEW o \in Nat,
         NEW simple \in BOOLEAN
  PROVE  /\ StoreOK(AddForbiddenPoint(s, p, i, o, simple))
         /\ From(s, o) => From(AddForbiddenPoint(s, p, i, o, simple), o)
         /\ AddForbiddenPoint(s, p, i, o, simple).state = s.state
         /\ AddForbiddenPoint(s, p, i, o, simple).expected = s.expected
         /\ ~Uploading(s) => AddForbiddenPoint(s, p, i, o, simple) = s
<1> DEFINE r == AddForbiddenPoint(s, p, i, o, simple)
<1>1. s \in Stores /\ FenceShape(s) /\ PolygonShape(s)
  BY DEF StoreOK
<1>2. CASE r = s
  BY <1>2
<1>3. CASE r # s /\ NextPolygon(s, p, i, simple)
  <2> DEFINE q == IF p = 1 THEN s ELSE Commit(s)
  <2>1. /\ s.state = "UPLOADING" /\ s.forbidding /\ ~(p > Len(s.sizes))
        /\ r = [q EXCEPT !.polygon = p, !.scratch = <<o>>]
        /\ p = s.polygon + 1
    BY <1>3, Zenon DEF AddForbiddenPoint, NextPolygon, Uploading
  <2>2. /\ q \in Stores
        /\ Len(q.obstacles) = s.polygon
        /\ \A k \in 1..s.polygon : Len(q.obstacles[k]) = s.sizes[k]
        /\ From(s, o) => From(q, o)
        /\ q.state = s.state /\ q.expected = s.expected
        /\ q.waypoints = s.waypoints
        /\ q.corners = s.corners /\ q.fence = s.fence
        /\ q.fencing = s.fencing /\ q.fenced = s.fenced
        /\ q.sizes = s.sizes
        /\ q.forbidding = s.forbidding /\ q.forbidden = s.forbidden
    <3>1. CASE p = 1
      <4>1. s.polygon = 0 /\ q = s
        BY <1>1, <2>1, <3>1 DEF Stores
      <4> QED
        BY <1>1, <2>1, <4>1 DEF PolygonShape
    <3>2. CASE p # 1
      <4>1. Commits(s, simple) /\ q = Commit(s)
        BY <1>3, <3>2 DEF NextPolygon
      <4> HIDE DEF q, r
      <4>2. s \in Stores /\ PolygonShape(s) /\ s.forbidding /\ s.sizes = Commit(s).sizes
        BY <1>1, <2>1, <4>1, CommitOK
      <4> QED
        BY <4>1, <4>2, CommitOK, Zenon
    <3> QED
      BY <3>1, <3>2
  <2> HIDE DEF q
  <2>3. <<o>> \in Points /\ Len(<<o>>) = 1 /\ <<o>>[1] = o
    BY DEF Points
  <2>4. r \in Stores
    <3>1. p \in Nat
      OBVIOUS
    <3> HIDE DEF r
    <3> QED
      BY <2>1, <2>2, <2>3, <3>1 DEF Stores
  <2>5. /\ r.obstacles = q.obstacles /\ r.scratch = <<o>>
        /\ r.state = s.state /\ r.expected = s.expected
        /\ r.waypoints = s.waypoints
        /\ r.corners = s.corners /\ r.fence = s.fence
        /\ r.fencing = s.fencing /\ r.fenced = s.fenced
        /\ r.sizes = s.sizes /\ r.polygon = p
        /\ r.forbidding = s.forbidding /\ r.forbidden = s.forbidden
    BY <2>1, <2>2 DEF Stores
  <2> HIDE DEF r
  <2>6. FenceShape(r)
    BY <1>1, <2>5 DEF FenceShape
  <2>7. PolygonShape(r)
    <3>1. s.polygon \in Nat /\ Len(s.sizes) \in Nat
      BY <1>1 DEF Stores
    <3>2. Len(r.obstacles) = p - 1 /\ p <= Len(r.sizes)
      BY <2>1, <2>2, <2>5, <3>1, SMTT(30)
    <3>3. \A k \in 1..Len(r.obstacles) : Len(r.obstacles[k]) = r.sizes[k]
      BY <2>2, <2>5
    <3> QED
      BY <1>1, <2>1, <2>5, <3>2, <3>3 DEF PolygonShape
  <2>8. From(s, o) => From(r, o)
    BY <2>2, <2>3, <2>5 DEF From
  <2> QED
    BY <2>1, <2>4, <2>5, <2>6, <2>7, <2>8 DEF StoreOK, Uploading, r
<1>4. CASE r # s /\ ~NextPolygon(s, p, i, simple)
  <2>1. /\ s.state = "UPLOADING"
        /\ r = [s EXCEPT !.scratch = Append(s.scratch, o)]
    BY <1>4 DEF AddForbiddenPoint, Uploading
  <2>2. /\ Append(s.scratch, o) \in Points
        /\ From(s, o) => \A n \in 1..Len(Append(s.scratch, o)) :
                           Append(s.scratch, o)[n] = o
    <3>1. s.scratch \in Points
      BY <1>1 DEF Stores
    <3> QED
      BY <3>1, AppendIsSeq DEF Points, From
  <2>3. r \in Stores
    BY <1>1, <2>1, <2>2 DEF Stores
  <2>4. /\ r.obstacles = s.obstacles /\ r.scratch = Append(s.scratch, o)
        /\ r.state = s.state /\ r.expected = s.expected
        /\ r.waypoints = s.waypoints
        /\ r.corners = s.corners /\ r.fence = s.fence
        /\ r.fencing = s.fencing /\ r.fenced = s.fenced
        /\ r.sizes = s.sizes /\ r.polygon = s.polygon
        /\ r.forbidding = s.forbidding /\ r.forbidden = s.forbidden
    BY <1>1, <2>1 DEF Stores
  <2> HIDE DEF r
  <2>5. FenceShape(r) /\ PolygonShape(r)
    BY <1>1, <2>4 DEF FenceShape, PolygonShape
  <2>6. From(s, o) => From(r, o)
    BY <2>2, <2>4 DEF From
  <2> QED
    BY <2>1, <2>3, <2>4, <2>5, <2>6 DEF StoreOK, Uploading, r
<1> QED
  BY <1>2, <1>3, <1>4

\* Polygons that are not complete are forgotten, with the route.
LEMMA EndForbiddenOK ==
  ASSUME NEW s, StoreOK(s), NEW simple \in BOOLEAN
  PROVE  /\ StoreOK(EndForbidden(s, simple))
         /\ \A o \in Nat : From(s, o) => From(EndForbidden(s, simple), o)
         /\ EndForbidden(s, simple).state \in {s.state, "INVALID"}
         /\ EndForbidden(s, simple).expected = s.expected
         /\ ~Uploading(s) => EndForbidden(s, simple) = s
<1> DEFINE r == EndForbidden(s, simple)
           none == Len(s.sizes) = 0 /\ s.polygon = 0
           all == /\ Len(s.sizes) > 0 /\ s.polygon = Len(s.sizes)
                  /\ Commits(s, simple)
<1>1. s \in Stores /\ FenceShape(s) /\ PolygonShape(s)
  BY DEF StoreOK
<1>2. CASE ~Uploading(s) \/ ~s.forbidding
  BY <1>2 DEF EndForbidden
<1>3. CASE Uploading(s) /\ s.forbidding /\ (none \/ all)
  <2> DEFINE q == IF none THEN s ELSE Commit(s)
  <2>1. r = [q EXCEPT !.forbidding = FALSE, !.forbidden = TRUE]
    BY <1>3 DEF EndForbidden
  <2>2. /\ q \in Stores
        /\ Len(q.obstacles) = Len(s.sizes)
        /\ \A k \in 1..Len(s.sizes) : Len(q.obstacles[k]) = s.sizes[k]
        /\ \A o \in Nat : From(s, o) => From(q, o)
        /\ q.state = s.state /\ q.expected = s.expected
        /\ q.waypoints = s.waypoints
        /\ q.corners = s.corners /\ q.fence = s.fence
        /\ q.fencing = s.fencing /\ q.fenced = s.fenced
        /\ q.sizes = s.sizes
    <3>1. CASE none
      BY <1>1, <1>3, <3>1 DEF PolygonShape
    <3>2. CASE ~none
      <4>1. Commits(s, simple) /\ s.polygon = Len(s.sizes) /\ q = Commit(s)
        BY <1>3, <3>2
      <4> HIDE DEF q, r
      <4>2. s \in Stores /\ PolygonShape(s) /\ s.forbidding
        BY <1>1, <1>3
      <4> QED
        BY <4>1, <4>2, CommitOK, Zenon
    <3> QED
      BY <3>1, <3>2
  <2> HIDE DEF q
  <2>3. r \in Stores
    BY <2>1, <2>2 DEF Stores
  <2>4. /\ r.obstacles = q.obstacles /\ r.scratch = q.scratch
        /\ r.state = s.state /\ r.expected = s.expected
        /\ r.waypoints = s.waypoints
        /\ r.corners = s.corners /\ r.fence = s.fence
        /\ r.fencing = s.fencing /\ r.fenced = s.fenced
        /\ r.sizes = s.sizes
        /\ r.forbidding = FALSE /\ r.forbidden = TRUE
    BY <2>1, <2>2 DEF Stores
  <2> HIDE DEF r
  <2>5. FenceShape(r)
    BY <1>1, <2>4 DEF FenceShape
  <2>6. PolygonShape(r)
    BY <2>2, <2>4 DEF PolygonShape
  <2>7. \A o \in Nat : From(s, o) => From(r, o)
    <3> SUFFICES ASSUME NEW o \in Nat, From(s, o)
                 PROVE  From(r, o)
      OBVIOUS
    <3>1. From(q, o)
      BY <2>2
    <3> QED
      BY <2>2, <2>4, <3>1 DEF From
  <2> QED
    BY <1>3, <2>3, <2>4, <2>5, <2>6, <2>7 DEF StoreOK, Uploading, r
<1>4. CASE Uploading(s) /\ s.forbidding /\ ~none /\ ~all
  <2>1. r = [s EXCEPT !.forbidding = FALSE, !.obstacles = <<>>,
                      !.state = "INVALID"]
    BY <1>4 DEF EndForbidden
  <2>2. r \in Stores
    BY <1>1, <2>1, EmptyIsSeq DEF Stores, States
  <2>3. /\ r.obstacles = <<>> /\ r.scratch = s.scratch
        /\ r.state = "INVALID" /\ r.expected = s.expected
        /\ r.waypoints = s.waypoints
        /\ r.corners = s.corners /\ r.fence = s.fence
        /\ r.fencing = s.fencing /\ r.fenced = s.fenced
        /\ r.sizes = s.sizes
        /\ r.forbidding = FALSE /\ r.forbidden = s.forbidden
    BY <1>1, <2>1 DEF Stores
  <2> HIDE DEF r
  <2>4. FenceShape(r)
    BY <1>1, <2>3 DEF FenceShape
  <2>5. PolygonShape(r)
    BY <1>1, <1>4, <2>3 DEF PolygonShape, Stores
  <2>6. \A o \in Nat : From(s, o) => From(r, o)
    BY <2>3 DEF From
  <2> QED
    BY <1>4, <2>2, <2>3, <2>4, <2>5, <2>6 DEF StoreOK, r
<1> QED
  BY <1>2, <1>3, <1>4

\* A route is ready only when it is complete.
LEMMA EndUploadOK ==
  ASSUME NEW s, StoreOK(s), NEW inside \in BOOLEAN
  PROVE  /\ StoreOK(EndUpload(s, inside))
         /\ \A o \in Nat : From(s, o) => From(EndUpload(s, inside), o)
         /\ EndUpload(s, inside).state # "UPLOADING"
         /\ EndUpload(s, inside).expected = s.expected
         /\ ~Uploading(s) => EndUpload(s, inside) = s
<1> DEFINE r == EndUpload(s, inside)
           end == IF Complete(s) /\ inside THEN "READY" ELSE "INVALID"
<1>1. s \in Stores /\ FenceShape(s) /\ PolygonShape(s)
  BY DEF StoreOK
<1>2. CASE ~Uploading(s)
  BY <1>2 DEF EndUpload, Uploading
<1>3. CASE Uploading(s)
  <2>1. r = [s EXCEPT !.state = end]
    BY <1>3 DEF EndUpload
  <2>2. end \in {"READY", "INVALID"} /\ (end = "READY" => Complete(s))
    OBVIOUS
  <2> HIDE DEF end
  <2>3. r \in Stores
    BY <1>1, <2>1, <2>2 DEF Stores, States
  <2>4. /\ r.state = end /\ r.expected = s.expected
        /\ r.waypoints = s.waypoints /\ r.scratch = s.scratch
        /\ r.obstacles = s.obstacles /\ r.sizes = s.sizes
        /\ r.polygon = s.polygon /\ r.forbidding = s.forbidding
        /\ r.forbidden = s.forbidden
        /\ r.corners = s.corners /\ r.fence = s.fence
        /\ r.fencing = s.fencing /\ r.fenced = s.fenced
    BY <1>1, <2>1 DEF Stores
  <2> HIDE DEF r
  <2>5. FenceShape(r) /\ PolygonShape(r)
    BY <1>1, <2>4 DEF FenceShape, PolygonShape
  <2>6. Complete(s) => Complete(r)
    BY <2>4 DEF Complete
  <2>7. \A o \in Nat : From(s, o) => From(r, o)
    BY <2>4 DEF From
  <2> QED
    BY <1>3, <2>2, <2>3, <2>4, <2>5, <2>6, <2>7 DEF StoreOK, r
<1> QED
  BY <1>2, <1>3

-----------------------------------------------------------------------------
(* The calls of a GO                                                       *)

\* A GO begins with begin, only with one, and ends with end.
LEMMA CallsOK ==
  /\ Calls \in Seq([op : Ops, i : Nat])
  /\ Calls # <<>> /\ Calls[1].op = "begin"
  /\ \A j \in 2..Len(Calls) : Calls[j].op # "begin"
  /\ Calls[Len(Calls)].op = "end"
<1> DEFINE C == [op : Ops, i : Nat]
           Later == [op : Ops \ {"begin"}, i : Nat]
           a == <<Call("begin", 0)>>
           b == [i \in Waypoints |-> Call("waypoint", i)]
           c == <<Call("begin fence", 0)>>
           d == [i \in 1..MaxPoints |-> Call("corner", i)]
           e == <<Call("end fence", 0), Call("forbid", 0), Call("end", 0)>>
<1>1. /\ a \in Seq(C) /\ Len(a) = 1 /\ a[1].op = "begin"
      /\ b \in Seq(Later)
      /\ c \in Seq(Later)
      /\ d \in Seq(Later)
      /\ e \in Seq(Later) /\ Len(e) = 3 /\ e[3].op = "end"
  <2>1. /\ Call("begin", 0) \in C /\ Call("begin", 0).op = "begin"
        /\ \A i \in Nat : Call("waypoint", i) \in Later /\ Call("corner", i) \in Later
        /\ Call("begin fence", 0) \in Later /\ Call("end fence", 0) \in Later
        /\ Call("forbid", 0) \in Later /\ Call("end", 0) \in Later
        /\ Call("end", 0).op = "end"
    BY DEF Call, Ops
  <2>2. b \in Seq(Later) /\ d \in Seq(Later)
    <3> HIDE DEF Later
    <3>1. \A i \in Nat : Call("waypoint", i) \in Later /\ Call("corner", i) \in Later
      BY <2>1
    <3>2. /\ \A i \in 1..MaxWaypoints : Call("waypoint", i) \in Later
          /\ \A i \in 1..MaxPoints : Call("corner", i) \in Later
      BY <3>1
    <3>3. b \in [1..MaxWaypoints -> Later] /\ d \in [1..MaxPoints -> Later]
      BY <3>2 DEF Waypoints
    <3> HIDE DEF b, d
    <3> QED
      BY <3>3
  <2> HIDE DEF b, d, C, Later
  <2>3. a \in Seq(C) /\ Len(a) = 1 /\ a[1] = Call("begin", 0) /\ c \in Seq(Later)
    BY <2>1, ShortIsSeq
  <2>4. e \in Seq(Later) /\ Len(e) = 3 /\ e[3] = Call("end", 0)
    BY <2>1, ShortIsSeq
  <2> QED
    BY <2>1, <2>2, <2>3, <2>4
<1>2. Calls = (((a \o b) \o c) \o d) \o e
  BY DEF Calls
<1>3. \A x \in Later : x \in C /\ x.op # "begin"
  OBVIOUS
<1> HIDE DEF a, b, c, d, e, C, Later
<1> DEFINE f == (((a \o b) \o c) \o d) \o e
           AllLater(x) == /\ x \in Seq(C) /\ Len(x) >= 1 /\ x[1].op = "begin"
                          /\ \A j \in 2..Len(x) : x[j].op # "begin"
<1>4. ASSUME NEW x, AllLater(x), NEW y \in Seq(Later)
      PROVE  /\ AllLater(x \o y)
             /\ Len(y) > 0 => (x \o y)[Len(x \o y)] = y[Len(y)]
  <2>1. x \in Seq(C) /\ y \in Seq(C)
    BY <1>3, <1>4
  <2>2. /\ x \o y \in Seq(C) /\ Len(x \o y) = Len(x) + Len(y)
        /\ \A j \in 1..Len(x) + Len(y) :
             (x \o y)[j] = IF j <= Len(x) THEN x[j] ELSE y[j - Len(x)]
    BY <2>1, ConcatProperties
  <2>3. Len(x) \in Nat /\ Len(y) \in Nat /\ \A j \in 1..Len(y) : y[j].op # "begin"
    BY <1>3, <2>1, <1>4
  <2> QED
    BY <1>4, <2>2, <2>3
<1>5. AllLater(a)
  BY <1>1
<1> HIDE DEF AllLater
<1>6. AllLater((a \o b) \o c)
  BY <1>1, <1>4, <1>5
<1>7. AllLater(f) /\ f[Len(f)] = e[3]
  <2>1. AllLater(((a \o b) \o c) \o d)
    BY <1>1, <1>4, <1>6
  <2>2. /\ AllLater((((a \o b) \o c) \o d) \o e)
        /\ Len(e) > 0 => ((((a \o b) \o c) \o d) \o e)[Len((((a \o b) \o c) \o d) \o e)] = e[Len(e)]
    BY ONLY <1>1, <1>4, <2>1
  <2>3. Len(e) = 3
    BY <1>1
  <2>4. Len(e) > 0
    BY ONLY <2>3
  <2> QED
    BY <2>2, <2>3, <2>4, Zenon
<1> HIDE DEF f
<1>8. Calls = f
  BY <1>2 DEF f
<1>9. f \in Seq(C) /\ Len(f) >= 1
  BY <1>7 DEF AllLater
<1> QED
  BY <1>1, <1>7, <1>8, <1>9 DEF AllLater, C

\* A call after begin leaves the store sound, and of one origin.
LEMMA CalledOK ==
  ASSUME NEW s, StoreOK(s), NEW c \in [op : Ops, i : Nat], c.op # "begin"
  PROVE  /\ StoreOK(Called(s, c))
         /\ From(s, GO) => From(Called(s, c), GO)
         /\ Called(s, c).expected = s.expected
         /\ c.op = "end" => ~Uploading(Called(s, c))
         /\ ~Uploading(s) => Called(s, c) = s
<1>0. GO \in Nat /\ c.i \in Nat
  BY DEF GO
<1>1. CASE c.op = "waypoint"
  <2>1. Called(s, c) = AddWaypoint(s, c.i, GO)
    BY <1>1 DEF Called
  <2> QED
    BY <1>0, <1>1, <2>1, AddWaypointOK
<1>2. CASE c.op = "begin fence"
  BY <1>0, <1>2, BeginBoundaryOK DEF Called
<1>3. CASE c.op = "corner"
  BY <1>0, <1>3, AddBoundaryPointOK DEF Called
<1>4. CASE c.op = "end fence"
  BY <1>0, <1>4, EndBoundaryOK DEF Called
<1>5. CASE c.op = "forbid"
  <2> DEFINE t == BeginForbidden(s, <<>>)
  <2>1. <<>> \in Seq(Sizes)
    BY EmptyIsSeq
  <2>2. /\ StoreOK(t) /\ (From(s, GO) => From(t, GO))
        /\ t.expected = s.expected /\ t.state = s.state
        /\ ~Uploading(s) => t = s
    BY <1>0, <2>1, BeginForbiddenOK
  <2> HIDE DEF t
  <2>3. /\ StoreOK(EndForbidden(t, TRUE))
        /\ From(t, GO) => From(EndForbidden(t, TRUE), GO)
        /\ EndForbidden(t, TRUE).expected = t.expected
        /\ ~Uploading(t) => EndForbidden(t, TRUE) = t
    BY <1>0, <2>2, EndForbiddenOK
  <2>4. Called(s, c) = EndForbidden(t, TRUE)
    BY <1>5 DEF Called, t
  <2> QED
    BY <1>5, <2>2, <2>3, <2>4, Zenon DEF Uploading
<1>6. CASE c.op = "end"
  BY <1>0, <1>6, EndUploadOK DEF Called, Uploading
<1> QED
  BY <1>1, <1>2, <1>3, <1>4, <1>5, <1>6 DEF Ops

-----------------------------------------------------------------------------
(* The steps                                                               *)

\* Before anything has happened.
LEMMA UploadInit == Init => UploadInv
<1> SUFFICES ASSUME Init PROVE UploadInv
  OBVIOUS
<1>1. StoreOK(store) /\ OneAuthor
  BY ClearedOK DEF Init, OneAuthor, Uploading, Cleared, Begun, Idle
<1>2. LoopOK /\ ReservationOK /\ StartOK /\ DrivenRouteStands
  BY DEF Init, LoopOK, ReservationOK, StartOK, DrivenRouteStands, Idle
<1>3. plan \in Points /\ uploads \in Nat
  BY EmptyIsSeq DEF Init, Points
<1> QED
  BY <1>1, <1>2, <1>3 DEF UploadInv

\* A line changes a store that is being uploaded, no other.
LEMMA LineKeeps ==
  ASSUME UploadInv, NEW s, StoreOK(s), Line(s),
         From(store, uploads) => From(s, uploads),
         ~Uploading(store) => s = store
  PROVE  UploadInv'
<1>1. /\ store' = s /\ mixed' = (mixed \/ (loop.at = "go" /\ s # store))
      /\ UNCHANGED <<uploads, begin, nav, pending, loop, active, plan, reserved>>
  BY DEF Line
<1>2. ReservationOK' /\ (uploads \in Nat /\ plan \in Points)' /\ StoreOK(store)'
  BY <1>1 DEF UploadInv, ReservationOK
<1>3. store.state = "READY" => s = store
  BY DEF Uploading
<1>4. StartOK' /\ DrivenRouteStands'
  BY <1>1, <1>3 DEF UploadInv, StartOK, DrivenRouteStands
<1>5. Begun' = Begun /\ Author' = Author
  BY <1>1 DEF Begun, Author
<1>6. CASE s = store
  <2>1. LoopOK'
    BY <1>1, <1>5, <1>6 DEF UploadInv, LoopOK
  <2>2. OneAuthor'
    BY <1>1, <1>5, <1>6 DEF UploadInv, OneAuthor
  <2> QED
    BY <1>2, <1>4, <2>1, <2>2 DEF UploadInv
<1>7. CASE s # store
  <2>1. store.state = "UPLOADING"
    BY <1>7 DEF Uploading
  <2>2. LoopOK'
    BY <1>1, <1>5, <1>7 DEF UploadInv, LoopOK
  <2>3. OneAuthor'
    <3> SUFFICES ASSUME ~mixed'
                 PROVE  From(s, uploads) /\ uploads \in Nat /\ ~Begun
      BY <1>1, <1>5 DEF OneAuthor, Author
    <3>1. ~mixed /\ ~Begun
      BY <1>1, <1>7 DEF Begun
    <3>2. From(store, uploads)
      BY <2>1, <3>1 DEF UploadInv, OneAuthor, Uploading, Author
    <3> QED
      BY <3>1, <3>2 DEF UploadInv
  <2> QED
    BY <1>2, <1>4, <2>2, <2>3 DEF UploadInv
<1> QED
  BY <1>6, <1>7

\* The application's lines.
LEMMA WsLines ==
  ASSUME UploadInv, WsWaypoint \/ WsBoundary \/ WsForbidden \/ WsEnd
  PROVE  UploadInv'
<1>1. StoreOK(store) /\ uploads \in Nat
  BY DEF UploadInv
<1>2. ASSUME NEW i \in Waypoints, Line(AddWaypoint(store, i, uploads))
      PROVE  UploadInv'
  BY <1>1, <1>2, AddWaypointOK, LineKeeps
<1>3. ASSUME NEW count \in Sizes, Line(BeginBoundary(store, count))
      PROVE  UploadInv'
  BY <1>1, <1>3, BeginBoundaryOK, LineKeeps
<1>4. ASSUME NEW i \in 1..MaxPoints, Line(AddBoundaryPoint(store, i, uploads))
      PROVE  UploadInv'
  BY <1>1, <1>4, AddBoundaryPointOK, LineKeeps
<1>5. ASSUME NEW simple \in BOOLEAN, Line(EndBoundary(store, simple))
      PROVE  UploadInv'
  BY <1>1, <1>5, EndBoundaryOK, LineKeeps
<1>6. ASSUME NEW n \in 0..MaxPolygons, NEW sizes \in [1..n -> Sizes],
             Line(BeginForbidden(store, sizes))
      PROVE  UploadInv'
  <2>1. sizes \in Seq(Sizes)
    OBVIOUS
  <2> QED
    BY <1>1, <1>6, <2>1, BeginForbiddenOK, LineKeeps
<1>7. ASSUME NEW p \in 1..MaxPolygons, NEW i \in 1..MaxPoints,
             NEW simple \in BOOLEAN,
             Line(AddForbiddenPoint(store, p, i, uploads, simple))
      PROVE  UploadInv'
  <2>1. p \in Nat \ {0}
    OBVIOUS
  <2> QED
    BY <1>1, <1>7, <2>1, AddForbiddenPointOK, LineKeeps
<1>8. ASSUME NEW simple \in BOOLEAN, Line(EndForbidden(store, simple))
      PROVE  UploadInv'
  BY <1>1, <1>8, EndForbiddenOK, LineKeeps
<1>9. ASSUME NEW inside \in BOOLEAN, Line(EndUpload(store, inside))
      PROVE  UploadInv'
  BY <1>1, <1>9, EndUploadOK, LineKeeps
<1> QED
  BY <1>2, <1>3, <1>4, <1>5, <1>6, <1>7, <1>8, <1>9
  DEF WsWaypoint, WsBoundary, WsForbidden, WsEnd

\* What the invariant says only of these is kept when they stay as they are.
LEMMA StoreStays ==
  ASSUME UploadInv, UNCHANGED <<store, uploads, mixed, loop>>
  PROVE  StoreOK(store)' /\ OneAuthor' /\ LoopOK' /\ (uploads \in Nat)'
<1>1. Begun' = Begun /\ Author' = Author
  BY DEF Begun, Author
<1> QED
  BY <1>1 DEF UploadInv, OneAuthor, LoopOK

\* ROUTE_BEGIN is kept off by a navigation that is reserved.
LEMMA WsBegins ==
  ASSUME UploadInv, WsBegin \/ WsBeginUpload
  PROVE  UploadInv'
<1>1. CASE WsBegin
  <2>1. StoreOK(store)' /\ OneAuthor' /\ LoopOK' /\ (uploads \in Nat)'
    BY <1>1, StoreStays DEF WsBegin
  <2>2. (ReservationOK /\ StartOK /\ DrivenRouteStands /\ plan \in Points)'
    BY <1>1 DEF WsBegin, UploadInv, ReservationOK, StartOK, DrivenRouteStands
  <2> QED
    BY <2>1, <2>2 DEF UploadInv
<1>2. CASE WsBeginUpload
  <2>1. PICK count \in 0..MaxWaypoints : store' = BeginUpload(store, count)
    BY <1>2 DEF WsBeginUpload
  <2>2. /\ begin /\ begin' = FALSE /\ uploads' = uploads + 1
        /\ mixed' = (loop.at = "go")
        /\ UNCHANGED <<nav, pending, loop, active, plan, reserved>>
    BY <1>2 DEF WsBeginUpload
  <2>3. count \in Nat /\ uploads' \in Nat /\ StoreOK(store)
    BY <2>2 DEF UploadInv
  <2>4. /\ StoreOK(store') /\ store'.state \in {"INVALID", "UPLOADING"}
        /\ store'.state = "UPLOADING" => \A o \in Nat : From(store', o)
    BY <2>1, <2>3, BeginUploadOK
  <2>5. ~reserved'
    BY <2>2 DEF UploadInv, ReservationOK
  <2>6. OneAuthor'
    BY <2>2, <2>3, <2>4 DEF OneAuthor, Author, Begun
  <2>7. LoopOK'
    BY <2>2 DEF UploadInv, LoopOK
  <2>8. ReservationOK' /\ StartOK' /\ DrivenRouteStands'
    BY <2>2, <2>5 DEF UploadInv, ReservationOK, StartOK, DrivenRouteStands
  <2> QED
    BY <2>2, <2>3, <2>4, <2>6, <2>7, <2>8 DEF UploadInv
<1> QED
  BY <1>1, <1>2

\* The navigation commands are queued, the store stays as it is.
LEMMA WsCommands ==
  ASSUME UploadInv, WsQueue \/ WsStop
  PROVE  UploadInv'
<1>1. StoreOK(store)' /\ OneAuthor' /\ LoopOK' /\ (uploads \in Nat)'
  BY StoreStays DEF WsQueue, WsStop
<1>2. (ReservationOK /\ StartOK /\ DrivenRouteStands /\ plan \in Points)'
  BY DEF WsQueue, WsStop, UploadInv, ReservationOK, StartOK, DrivenRouteStands
<1> QED
  BY <1>1, <1>2 DEF UploadInv

\* loop takes a command, with the reservation that was made for it.
LEMMA Builds ==
  ASSUME UploadInv, Start \/ Go
  PROVE  UploadInv'
<1>1. /\ loop = Idle /\ ~active /\ ~Begun /\ ~Begun'
      /\ plan' = <<>> /\ (reserved' => nav)
      /\ UNCHANGED <<store, uploads, begin, nav, active, mixed>>
  <2>1. ~Begun'
    <3>1. CASE Start
      BY <3>1 DEF Start, Build, Begun, Idle
    <3>2. CASE Go
      <4>1. Calls # <<>> /\ Head(Calls).op = "begin"
        BY CallsOK
      <4> QED
        BY <3>2, <4>1 DEF Go, Build, Begun
    <3> QED
      BY <3>1, <3>2
  <2>2. PICK command, building : Build(command, building)
    BY DEF Start, Go
  <2>3. loop.at = "idle"
    BY <2>2 DEF Build, Idle
  <2>4. ~Begun
    BY <2>3 DEF Begun
  <2>5. reserved' => nav
    BY <2>2, Zenon DEF Build
  <2>6. loop = Idle /\ ~active /\ plan' = <<>>
    BY <2>2 DEF Build
  <2>7. UNCHANGED <<store, uploads, begin, nav, active, mixed>>
    BY <2>2, Zenon DEF Build
  <2> QED
    BY <2>1, <2>4, <2>5, <2>6, <2>7
<1>2. LoopOK'
  <2>1. CASE Start
    BY <2>1 DEF Start, Build, LoopOK, Idle
  <2>2. CASE Go
    <3>1. PICK checked \in BOOLEAN : loop' = [at |-> "go", calls |-> Calls, checked |-> checked]
      BY <2>2 DEF Go, Build
    <3>2. /\ loop'.at = "go" /\ loop'.calls = Calls
          /\ loop' \in [at : {"go"}, calls : Seq([op : Ops, i : Nat]), checked : BOOLEAN]
      BY <3>1, CallsOK
    <3> QED
      BY <1>1, <3>2, CallsOK DEF LoopOK
  <2> QED
    BY <2>1, <2>2
<1>3. OneAuthor'
  BY <1>1 DEF UploadInv, OneAuthor, Author, Uploading
<1>4. ReservationOK' /\ DrivenRouteStands'
  BY <1>1 DEF UploadInv, ReservationOK, DrivenRouteStands
<1>5. StartOK'
  <2>1. CASE Start
    BY <1>1, <2>1 DEF Start, StartOK, UploadInv, StoreOK, Stores
  <2>2. CASE Go
    BY <2>2 DEF Go, Build, StartOK
  <2> QED
    BY <2>1, <2>2
<1>6. StoreOK(store)' /\ (uploads \in Nat)' /\ (plan \in Points)'
  BY <1>1, EmptyIsSeq DEF UploadInv, Points
<1> QED
  BY <1>2, <1>3, <1>4, <1>5, <1>6 DEF UploadInv

\* The plan is read from a store that the reservation keeps as it is.
LEMMA StartKeeps ==
  ASSUME UploadInv, StartAppends \/ StartEnds
  PROVE  UploadInv'
<1>1. loop.at = "start" /\ ~Begun /\ loop # Idle /\ ~active
  BY DEF StartAppends, StartEnds, Begun, Idle, UploadInv, ReservationOK
<1>2. CASE StartAppends
  <2>1. /\ Len(plan) < Len(store.waypoints)
        /\ plan' = Append(plan, store.waypoints[Len(plan) + 1])
        /\ UNCHANGED <<store, uploads, begin, nav, pending, loop, active,
                       reserved, mixed>>
    BY <1>2 DEF StartAppends
  <2>2. StoreOK(store)' /\ OneAuthor' /\ LoopOK' /\ (uploads \in Nat)'
    BY <2>1, StoreStays
  <2>3. plan \in Seq(Nat) /\ store.waypoints \in Seq(Nat)
    BY DEF UploadInv, StoreOK, Stores, Points
  <2>4. store.waypoints[Len(plan) + 1] \in Nat
    BY <2>1, <2>3
  <2>5. /\ plan' \in Seq(Nat) /\ Len(plan') = Len(plan) + 1
        /\ \A i \in 1..Len(plan) : plan'[i] = plan[i]
        /\ plan'[Len(plan) + 1] = store.waypoints[Len(plan) + 1]
    BY <2>1, <2>3, <2>4, AppendIsSeq
  <2>6. StartOK'
    <3> SUFFICES ASSUME reserved
                 PROVE  /\ store.state = "READY"
                        /\ Len(plan') <= Len(store.waypoints)
                        /\ \A i \in 1..Len(plan') : plan'[i] = store.waypoints[i]
      BY <2>1 DEF StartOK
    <3>1. /\ store.state = "READY"
          /\ \A i \in 1..Len(plan) : plan[i] = store.waypoints[i]
      BY <1>1 DEF UploadInv, StartOK
    <3>2. Len(plan') <= Len(store.waypoints)
      BY <2>1, <2>3, <2>5
    <3>3. ASSUME NEW i \in 1..Len(plan')
          PROVE  plan'[i] = store.waypoints[i]
      <4>1. i \in 1..Len(plan) \/ i = Len(plan) + 1
        BY <2>3, <2>5
      <4> QED
        BY <2>5, <3>1, <4>1
    <3> QED
      BY <3>1, <3>2, <3>3
  <2>7. ReservationOK' /\ DrivenRouteStands'
    BY <1>1, <2>1 DEF UploadInv, ReservationOK, DrivenRouteStands
  <2> QED
    BY <2>2, <2>5, <2>6, <2>7 DEF UploadInv, Points
<1>3. CASE StartEnds
  <2>1. /\ loop' = Idle /\ Len(plan) >= Len(store.waypoints)
        /\ UNCHANGED <<store, uploads, begin, mixed>>
    BY <1>3 DEF StartEnds, Activate, GiveUp
  <2>2. ~Begun'
    BY <2>1 DEF Begun, Idle
  <2>3. (StoreOK(store) /\ uploads \in Nat)' /\ LoopOK' /\ OneAuthor'
    BY <1>1, <2>1, <2>2 DEF UploadInv, LoopOK, OneAuthor, Author, Uploading
  <2>4. StartOK'
    BY <2>1 DEF StartOK, Idle
  <2>5. CASE Activates /\ Activate /\ UNCHANGED plan
    <3>1. /\ nav' /\ active' /\ reserved' = reserved
          /\ store.state = "READY" /\ store.fenced /\ plan' = plan
      BY <2>5 DEF Activates, Activate
    <3>2. ReservationOK'
      BY <2>1, <3>1 DEF UploadInv, ReservationOK
    <3>3. plan = store.waypoints \/ ~reserved
      <4> SUFFICES ASSUME reserved PROVE plan = store.waypoints
        OBVIOUS
      <4>1. /\ Len(plan) <= Len(store.waypoints)
            /\ \A i \in 1..Len(plan) : plan[i] = store.waypoints[i]
        BY <1>1 DEF UploadInv, StartOK
      <4>2. plan \in Seq(Nat) /\ store.waypoints \in Seq(Nat)
        BY DEF UploadInv, StoreOK, Stores, Points
      <4>3. Len(plan) = Len(store.waypoints)
        BY <2>1, <4>1, <4>2
      <4> QED
        BY <4>1, <4>2, <4>3, SeqEqual
    <3>4. DrivenRouteStands'
      BY <2>1, <3>1, <3>3 DEF DrivenRouteStands
    <3> QED
      BY <2>3, <2>4, <3>1, <3>2, <3>4 DEF UploadInv
  <2>6. CASE GiveUp
    <3>1. ~nav' /\ ~reserved' /\ plan' = <<>> /\ active' = active
      BY <2>6 DEF GiveUp
    <3>2. ReservationOK' /\ DrivenRouteStands'
      BY <1>1, <2>1, <3>1 DEF ReservationOK, DrivenRouteStands
    <3> QED
      BY <2>3, <2>4, <3>1, <3>2, EmptyIsSeq DEF UploadInv, Points
  <2> QED
    BY <1>3, <2>5, <2>6 DEF StartEnds
<1> QED
  BY <1>2, <1>3

\* A drive that is given up, or stopped, leaves a clear store.
LEMMA StoreClears ==
  ASSUME UploadInv, store' = Cleared, loop' = Idle, uploads' = uploads
  PROVE  StoreOK(store)' /\ OneAuthor' /\ LoopOK' /\ StartOK' /\ (uploads \in Nat)'
<1>1. ~Begun' /\ ~Uploading(store')
  BY DEF Begun, Idle, Uploading, Cleared
<1>2. StoreOK(store') /\ From(store', 0)
  BY ClearedOK
<1> QED
  BY <1>1, <1>2 DEF UploadInv, OneAuthor, LoopOK, StartOK, Idle

\* loop's own calls build one route, from one begin on.
LEMMA GoCallsKeeps ==
  ASSUME UploadInv, GoCalls
  PROVE  UploadInv'
<1> DEFINE c == Head(loop.calls)
           rest == Tail(loop.calls)
<1>1. loop.at = "go" /\ loop.calls # <<>> /\ ~active
  BY DEF GoCalls, UploadInv, ReservationOK, Idle
<1>2. CASE GiveUp /\ store' = StopRoute(store)
  <2>1. /\ loop' = Idle /\ ~nav' /\ ~reserved' /\ plan' = <<>>
        /\ UNCHANGED <<uploads, begin, active>> /\ store' = Cleared
    BY <1>2 DEF GiveUp, StopRoute
  <2>2. ReservationOK' /\ DrivenRouteStands'
    BY <1>1, <2>1 DEF ReservationOK, DrivenRouteStands
  <2> QED
    BY <2>1, <2>2, StoreClears, EmptyIsSeq DEF UploadInv, Points
<1>3. CASE /\ store' = Called(store, c)
           /\ loop' = [loop EXCEPT !.calls = rest]
           /\ mixed' = (mixed /\ c.op # "begin")
           /\ UNCHANGED <<uploads, begin, nav, pending, active, plan, reserved>>
  <2>1. /\ loop \in [at : {"go"}, calls : Seq([op : Ops, i : Nat]), checked : BOOLEAN]
        /\ \A j \in 2..Len(loop.calls) : loop.calls[j].op # "begin"
        /\ loop.calls[Len(loop.calls)].op = "end"
        /\ Begun /\ ~mixed => store.expected = MaxWaypoints
    BY <1>1 DEF UploadInv, LoopOK, Idle
  <2>2. loop.calls \in Seq([op : Ops, i : Nat])
    BY <2>1
  <2>3. /\ c \in [op : Ops, i : Nat] /\ c = loop.calls[1]
        /\ rest \in Seq([op : Ops, i : Nat])
        /\ Len(loop.calls) \in Nat \ {0} /\ Len(rest) = Len(loop.calls) - 1
        /\ \A j \in 1..Len(rest) : rest[j] = loop.calls[j + 1]
        /\ rest = <<>> <=> Len(loop.calls) = 1
        /\ rest # <<>> => /\ Head(rest) = loop.calls[2]
                          /\ rest[Len(rest)] = loop.calls[Len(loop.calls)]
    BY <1>1, <2>2, TailIsSeq, Zenon
  <2>4. /\ loop'.at = "go" /\ loop'.calls = rest
        /\ loop' \in [at : {"go"}, calls : Seq([op : Ops, i : Nat]), checked : BOOLEAN]
    BY <1>3, <2>1, <2>3
  <2> HIDE DEF c, rest
  <2>5. /\ \A j \in 2..Len(rest) : rest[j].op # "begin"
        /\ rest # <<>> => rest[Len(rest)].op = "end"
        /\ rest # <<>> => Head(rest).op # "begin"
        /\ rest = <<>> => c.op = "end"
    <3>1. \A j \in 2..Len(rest) : j + 1 \in 2..Len(loop.calls) /\ j \in 1..Len(rest)
      BY <2>3
    <3>2. rest # <<>> => 2 \in 2..Len(loop.calls)
      BY <2>3
    <3>3. ASSUME NEW j \in 2..Len(rest)
          PROVE  rest[j].op # "begin"
      <4>1. rest[j] = loop.calls[j + 1]
        BY <2>3, <3>1
      <4>2. loop.calls[j + 1].op # "begin"
        BY <2>1, <3>1
      <4> QED
        BY <4>1, <4>2
    <3>4. rest # <<>> => rest[Len(rest)].op = "end" /\ Head(rest).op # "begin"
      BY <2>1, <2>3, <3>2, Zenon
    <3>5. rest = <<>> => c.op = "end"
      BY <2>1, <2>3
    <3> QED
      BY <3>3, <3>4, <3>5, Zenon
  <2>6. Begun'
    BY <2>4, <2>5 DEF Begun
  <2>7. StoreOK(store) /\ uploads \in Nat
    BY DEF UploadInv
  <2> DEFINE CallOK ==
        /\ StoreOK(store')
        /\ ~mixed' => /\ store'.expected = MaxWaypoints
                      /\ rest = <<>> => ~Uploading(store')
                      /\ store'.state # "INVALID" => From(store', GO)
  <2>8. ASSUME c.op = "begin" PROVE CallOK
    <3>1. store' = BeginUpload(store, MaxWaypoints)
      BY <1>3, <2>8 DEF Called
    <3>2. MaxWaypoints \in Waypoints /\ MaxWaypoints \in Nat
      BY DEF Waypoints
    <3>3. store'.state = "UPLOADING"
      BY <3>1, <3>2 DEF BeginUpload, Cleared
    <3>4. /\ StoreOK(store') /\ store'.expected = MaxWaypoints
          /\ From(store', GO)
      BY <2>7, <3>1, <3>2, <3>3, BeginUploadOK DEF GO
    <3>5. rest # <<>>
      BY <2>5, <2>8
    <3> QED
      BY <3>4, <3>5, Zenon
  <2>9. ASSUME c.op # "begin" PROVE CallOK
    <3>1. /\ StoreOK(store')
          /\ From(store, GO) => From(store', GO)
          /\ store'.expected = store.expected
          /\ c.op = "end" => ~Uploading(store')
          /\ ~Uploading(store) => store' = store
      BY <1>3, <2>3, <2>7, <2>9, CalledOK, Zenon
    <3>2. Begun
      BY <1>1, <2>9 DEF Begun, c
    <3>3. ASSUME ~mixed', store'.state # "INVALID"
          PROVE  From(store', GO)
      <4>1. ~mixed /\ store.state # "INVALID"
        BY <1>3, <2>9, <3>1, <3>3 DEF Uploading
      <4> QED
        BY <3>1, <3>2, <4>1 DEF UploadInv, OneAuthor, Author
    <3>4. ~mixed' => ~mixed
      BY <1>3, <2>9
    <3> QED
      BY <2>1, <2>5, <3>1, <3>2, <3>3, <3>4, Zenon
  <2> HIDE DEF CallOK
  <2>10. CallOK
    BY <2>8, <2>9, Zenon
  <2>11. StoreOK(store)'
    BY <2>10 DEF CallOK
  <2>12. LoopOK'
    BY <2>4, <2>5, <2>10 DEF LoopOK, CallOK
  <2>13. OneAuthor'
    BY <2>6, <2>10 DEF OneAuthor, Author, GO, CallOK
  <2>14. ReservationOK' /\ StartOK' /\ DrivenRouteStands'
    BY <1>1, <1>3, <2>4 DEF UploadInv, ReservationOK, StartOK, DrivenRouteStands
  <2> QED
    BY <1>3, <2>7, <2>11, <2>12, <2>13, <2>14 DEF UploadInv
<1> QED
  BY <1>2, <1>3 DEF GoCalls

\* The drive of a GO is made of the same points as its store.
LEMMA GoEndsKeeps ==
  ASSUME UploadInv, GoEnds
  PROVE  UploadInv'
<1>1. /\ loop.at = "go" /\ loop.calls = <<>> /\ Begun /\ ~active
      /\ loop' = Idle /\ UNCHANGED <<uploads, begin, mixed>>
  BY DEF GoEnds, GiveUp, Activate, Begun, UploadInv, ReservationOK, Idle
<1>2. CASE GiveUp /\ store' = StopRoute(store)
  <2>1. /\ ~nav' /\ ~reserved' /\ plan' = <<>> /\ active' = active
        /\ store' = Cleared
    BY <1>2 DEF GiveUp, StopRoute
  <2>2. ReservationOK' /\ DrivenRouteStands'
    BY <1>1, <2>1 DEF ReservationOK, DrivenRouteStands
  <2> QED
    BY <1>1, <2>1, <2>2, StoreClears, EmptyIsSeq DEF UploadInv, Points
<1>3. CASE Activates /\ Activate /\ plan' = [i \in Waypoints |-> GO]
  <2>1. /\ nav' /\ active' /\ reserved' = reserved /\ store' = store
        /\ store.state = "READY" /\ store.fenced
    BY <1>3 DEF Activates, Activate
  <2>2. ~Begun' /\ StartOK'
    BY <1>1 DEF Begun, StartOK, Idle
  <2>3. StoreOK(store)' /\ OneAuthor' /\ LoopOK' /\ (uploads \in Nat)'
    BY <1>1, <2>1, <2>2 DEF UploadInv, OneAuthor, LoopOK, Uploading
  <2>4. ReservationOK'
    BY <1>1, <2>1 DEF UploadInv, ReservationOK
  <2>5. plan' \in Seq(Nat) /\ Len(plan') = MaxWaypoints
    <3>1. plan' \in [1..MaxWaypoints -> Nat]
      BY <1>3 DEF Waypoints, GO
    <3> QED
      BY <3>1
  <2>6. ASSUME ~mixed
        PROVE  plan' = store.waypoints
    <3>1. From(store, GO)
      BY <1>1, <2>1, <2>6 DEF UploadInv, OneAuthor, Author
    <3>2. Len(store.waypoints) = MaxWaypoints
      BY <1>1, <2>1, <2>6 DEF UploadInv, LoopOK, StoreOK, Complete, Idle
    <3>3. store.waypoints \in Seq(Nat)
      BY DEF UploadInv, StoreOK, Stores, Points
    <3>4. \A i \in 1..MaxWaypoints : plan'[i] = store.waypoints[i]
      BY <1>3, <3>1, <3>2 DEF Waypoints, From
    <3> QED
      BY <2>5, <3>2, <3>3, <3>4, SeqEqual
  <2>7. DrivenRouteStands'
    BY <1>1, <2>1, <2>6 DEF DrivenRouteStands
  <2> QED
    BY <2>2, <2>3, <2>4, <2>5, <2>7 DEF UploadInv, Points
<1> QED
  BY <1>2, <1>3 DEF GoEnds

\* A refusal keeps the route that is driven, its end and STOP leave none.
LEMMA LoopEnds ==
  ASSUME UploadInv, Refuse \/ HandleStop \/ RouteEnds
  PROVE  UploadInv'
<1>1. CASE Refuse
  <2>1. StoreOK(store)' /\ OneAuthor' /\ LoopOK' /\ (uploads \in Nat)'
    BY <1>1, StoreStays DEF Refuse
  <2>2. /\ nav' => nav /\ active
        /\ reserved' => reserved /\ nav'
        /\ UNCHANGED <<store, begin, loop, active, plan, mixed>> /\ loop = Idle
    BY <1>1, Zenon DEF Refuse
  <2>3. (ReservationOK /\ StartOK /\ DrivenRouteStands /\ plan \in Points)'
    BY <2>2 DEF UploadInv, ReservationOK, StartOK, DrivenRouteStands, Idle
  <2> QED
    BY <2>1, <2>3 DEF UploadInv
<1>2. CASE HandleStop \/ RouteEnds
  <2>1. /\ loop = Idle /\ loop' = Idle /\ ~active' /\ ~nav' /\ ~reserved'
        /\ plan' = <<>> /\ UNCHANGED <<uploads, begin, loop, mixed>>
        /\ store' \in {store, Cleared}
    BY <1>2 DEF HandleStop, RouteEnds, Stopped, StopRoute
  <2>2. StoreOK(store)' /\ OneAuthor' /\ LoopOK' /\ (uploads \in Nat)'
    <3>1. CASE store' = store
      BY <2>1, <3>1, StoreStays
    <3>2. CASE store' = Cleared
      BY <2>1, <3>2, StoreClears
    <3> QED
      BY <2>1, <3>1, <3>2
  <2>3. (ReservationOK /\ StartOK /\ DrivenRouteStands)'
    BY <2>1 DEF ReservationOK, StartOK, DrivenRouteStands
  <2> QED
    BY <2>1, <2>2, <2>3, EmptyIsSeq DEF UploadInv, Points
<1> QED
  BY <1>1, <1>2

\* Every step keeps the invariant.
LEMMA UploadStep == UploadInv /\ [Next]_vars => UploadInv'
<1> SUFFICES ASSUME UploadInv, [Next]_vars PROVE UploadInv'
  OBVIOUS
<1>1. CASE WsTask
  BY <1>1, WsLines, WsBegins, WsCommands DEF WsTask
<1>2. CASE Loop
  BY <1>2, Builds, StartKeeps, GoCallsKeeps, GoEndsKeeps, LoopEnds DEF Loop
<1>3. CASE UNCHANGED vars
  <2>1. StoreOK(store)' /\ OneAuthor' /\ LoopOK' /\ (uploads \in Nat)'
    BY <1>3, StoreStays DEF vars
  <2>2. (ReservationOK /\ StartOK /\ DrivenRouteStands /\ plan \in Points)'
    BY <1>3 DEF vars, UploadInv, ReservationOK, StartOK, DrivenRouteStands
  <2> QED
    BY <2>1, <2>2 DEF UploadInv
<1> QED
  BY <1>1, <1>2, <1>3 DEF Next

\* The invariant holds for all sizes of routes, fences and polygons.
THEOREM RouteUploadInvariant == Spec => []UploadInv
  BY UploadInit, UploadStep, PTL DEF Spec

-----------------------------------------------------------------------------
(* The theorems                                                            *)

\* A route that is ready is the whole of one upload, whatever the order, the
\* repetitions and the restarts of its lines (Route.cpp:126 to 330), but for
\* lines that are taken while loop fills the store for a GO.
THEOREM RouteReadyIsWhole == Spec => []ReadyIsWhole
<1>1. UploadInv => ReadyIsWhole
  <2> SUFFICES ASSUME UploadInv, store.state = "READY", ~mixed
               PROVE  /\ Len(store.waypoints) = store.expected
                      /\ Len(store.fence) = store.corners
                      /\ store.corners >= MinPoints
                      /\ Len(store.obstacles) = Len(store.sizes)
                      /\ OneUpload(store)
    BY DEF ReadyIsWhole
  <2>1. /\ Complete(store) /\ FenceShape(store) /\ PolygonShape(store)
        /\ store \in Stores
    BY DEF UploadInv, StoreOK
  <2>2. PICK o \in Nat : From(store, o)
    BY DEF UploadInv, OneAuthor
  <2>3. OneUpload(store)
    <3> SUFFICES ASSUME NEW i \in 1..Len(store.waypoints),
                        NEW j \in 1..Len(store.fence)
                 PROVE  /\ store.waypoints[i] = store.waypoints[1]
                        /\ store.fence[j] = store.waypoints[1]
                        /\ \A k \in 1..Len(store.obstacles) :
                             \A n \in 1..Len(store.obstacles[k]) :
                               store.obstacles[k][n] = store.waypoints[1]
      BY DEF OneUpload
    <3>1. 1 \in 1..Len(store.waypoints)
      BY <2>1 DEF Stores, Points
    <3>2. store.waypoints[1] = o
      BY <2>2, <3>1 DEF From
    <3> QED
      BY <2>2, <3>2 DEF From
  <2> QED
    BY <2>1, <2>3 DEF Complete, FenceShape, PolygonShape
<1> QED
  BY <1>1, RouteUploadInvariant, PTL

\* The obstacles of the store are whole polygons, the first of those that were
\* announced (Route.cpp:251 to 301).
THEOREM RoutePolygonsAreWhole == Spec => []PolygonsAreWhole
<1>1. UploadInv => PolygonsAreWhole
  BY DEF UploadInv, StoreOK, PolygonShape, PolygonsAreWhole
<1> QED
  BY <1>1, RouteUploadInvariant, PTL

\* The route that is driven under a reservation is the one in the store, in all
\* of its points, and its fence stands (rover.cpp:7336), but for lines in the
\* middle of a GO.
THEOREM RouteDrivenStands == Spec => []DrivenRouteStands
<1>1. UploadInv => DrivenRouteStands
  BY DEF UploadInv
<1> QED
  BY <1>1, RouteUploadInvariant, PTL

=============================================================================
