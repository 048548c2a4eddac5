----------------------------- MODULE RouteUpload -----------------------------
(***************************************************************************)
(* lib/Route: the one store of the uploaded route, with its fence and its  *)
(* forbidden polygons.  Two tasks write it without a lock: the WebSocket   *)
(* task, line by line as the application uploads a route (WsServer.cpp),   *)
(* and loop(), which fills it for a GO command and makes a plan from it    *)
(* for NAV_START (src/rover.cpp).                                          *)
(*                                                                         *)
(* A point is known by the upload it comes from, GO's or the n-th of the   *)
(* application.  What depends on its place and its metadata is left open:  *)
(* whether a polygon is simple when its repeated points are taken out, or  *)
(* a waypoint lies inside the fence.                                       *)
(***************************************************************************)
EXTENDS Naturals, Sequences

CONSTANTS
  MaxWaypoints, \* NavCore::MAX_WAYPOINTS
  MinPoints,    \* the points of a polygon, 3
  MaxPoints,    \* NavCore::MAX_OBSTACLE_POINTS
  MaxPolygons,  \* NavCore::MAX_OBSTACLES
  MaxUploads    \* bound: ROUTE_BEGINs of the application

ASSUME UploadAssumption ==
  /\ MaxWaypoints \in Nat /\ MaxWaypoints > 1
  /\ MinPoints \in Nat \ {0} /\ MaxPoints \in Nat /\ MinPoints <= MaxPoints
  /\ MaxPolygons \in Nat /\ MaxUploads \in Nat \ {0}

VARIABLES
  store,    \* g_route, with the waypoints and obstacles of its NavCore
  uploads,  \* the uploads the application has begun
  begin,    \* a ROUTE_BEGIN has found no navigation, and will be taken
  nav,      \* WsServer::_navRequested
  pending,  \* g_pendingRouteCommand, with the latch that STOP raises
  loop,     \* what loop() is building: its calls or its waypoints to come
  active,   \* the route executor runs
  plan,     \* the points of its plan
  reserved, \* history: nav stood since loop took the command
  mixed     \* history: a line was taken in the middle of a GO

vars == <<store, uploads, begin, nav, pending, loop, active, plan, reserved,
          mixed>>

GO == 0
Waypoints == 1..MaxWaypoints
Sizes == MinPoints..MaxPoints

Cleared ==
  [state |-> "NONE", expected |-> 0, waypoints |-> <<>>,
   corners |-> 0, fence |-> <<>>, fencing |-> FALSE, fenced |-> FALSE,
   sizes |-> <<>>, scratch |-> <<>>, polygon |-> 0, forbidding |-> FALSE,
   forbidden |-> FALSE, obstacles |-> <<>>]

Idle == [at |-> "idle", calls |-> <<>>, checked |-> FALSE]

Init ==
  /\ store = Cleared
  /\ uploads = 0 /\ begin = FALSE
  /\ nav = FALSE /\ pending = "NONE"
  /\ loop = Idle
  /\ active = FALSE /\ plan = <<>>
  /\ reserved = FALSE /\ mixed = FALSE

-----------------------------------------------------------------------------
(* Route's members: the store after a call, the same one if it is refused  *)

Uploading(s) == s.state = "UPLOADING"

BeginUpload(s, count) ==
  IF count \notin Waypoints THEN [s EXCEPT !.state = "INVALID"]
  ELSE [Cleared EXCEPT !.state = "UPLOADING", !.expected = count]

\* A point that has come before is accepted again, and not looked at.
TakesWaypoint(s, i) == Uploading(s) /\ i \in 1..s.expected /\ i <= Len(s.waypoints) + 1

AddWaypoint(s, i, from) ==
  IF TakesWaypoint(s, i) /\ i = Len(s.waypoints) + 1
  THEN [s EXCEPT !.waypoints = Append(@, from)] ELSE s

BeginBoundary(s, count) ==
  IF Uploading(s) /\ count \in Sizes
  THEN [s EXCEPT !.corners = count, !.fence = <<>>,
                 !.fencing = TRUE, !.fenced = FALSE]
  ELSE s

TakesCorner(s, i) ==
  Uploading(s) /\ s.fencing /\ i \in 1..s.corners /\ i <= Len(s.fence) + 1

AddBoundaryPoint(s, i, from) ==
  IF TakesCorner(s, i) /\ i = Len(s.fence) + 1
  THEN [s EXCEPT !.fence = Append(@, from)] ELSE s

EndBoundary(s, simple) ==
  IF ~Uploading(s) \/ ~s.fencing THEN s
  ELSE [s EXCEPT !.fencing = FALSE,
                 !.fenced = @ \/ (simple /\ Len(s.fence) = s.corners)]

BeginForbidden(s, sizes) ==
  IF ~Uploading(s) THEN s
  ELSE [s EXCEPT !.sizes = sizes, !.scratch = <<>>, !.polygon = 0,
                 !.forbidding = TRUE, !.forbidden = FALSE, !.obstacles = <<>>]

\* commitForbiddenScratch: the polygon that has been sent is an obstacle.
Commits(s, simple) ==
  s.polygon > 0 /\ simple /\ Len(s.scratch) = s.sizes[s.polygon]

Commit(s) ==
  [s EXCEPT !.obstacles = Append(@, s.scratch), !.scratch = <<>>]

\* Mutant: the next polygon is begun whether the last is complete or not.
NextPolygonAtOnce(s, p, i, simple) == i = 1 /\ p = s.polygon + 1

\* Only the last polygon has a copy: the first point of the next commits it.
NextPolygon(s, p, i, simple) ==
  i = 1 /\ p = s.polygon + 1 /\ (p = 1 \/ Commits(s, simple))

AddForbiddenPoint(s, p, i, from, simple) ==
  IF ~Uploading(s) \/ ~s.forbidding \/ p > Len(s.sizes) \/ i > s.sizes[p] THEN s
  ELSE IF NextPolygon(s, p, i, simple)
    THEN [(IF p = 1 THEN s ELSE Commit(s)) EXCEPT
            !.polygon = p, !.scratch = <<from>>]
  ELSE IF p = s.polygon /\ i = Len(s.scratch) + 1
    THEN [s EXCEPT !.scratch = Append(@, from)]
  ELSE s

EndForbidden(s, simple) ==
  LET last == Len(s.sizes)
  IN  IF ~Uploading(s) \/ ~s.forbidding THEN s
      ELSE IF last = 0 /\ s.polygon = 0
        THEN [s EXCEPT !.forbidding = FALSE, !.forbidden = TRUE]
      ELSE IF last > 0 /\ s.polygon = last /\ Commits(s, simple)
        THEN [Commit(s) EXCEPT !.forbidding = FALSE, !.forbidden = TRUE]
      ELSE [s EXCEPT !.forbidding = FALSE, !.obstacles = <<>>,
                     !.state = "INVALID"]

\* Mutant: a fence that is being sent again is not waited for.
CompleteWithOldFence(s) ==
  /\ Len(s.waypoints) = s.expected
  /\ s.forbidden /\ ~s.forbidding

Complete(s) ==
  /\ Len(s.waypoints) = s.expected
  /\ s.fenced /\ ~s.fencing
  /\ s.forbidden /\ ~s.forbidding

\* endUpload: all there, and inside the fence and clear of the polygons.
EndUpload(s, inside) ==
  IF ~Uploading(s) THEN s
  ELSE [s EXCEPT !.state = IF Complete(s) /\ inside THEN "READY" ELSE "INVALID"]

\* stop forgets the waypoints and obstacles, the fence is not looked at again.
StopRoute(s) == Cleared

-----------------------------------------------------------------------------
(* The WebSocket task: WsServer::handleLine                                *)

\* What a line makes of the store.
Line(s) ==
  /\ ~begin
  /\ store' = s
  /\ mixed' = (mixed \/ (loop.at = "go" /\ s # store))
  /\ UNCHANGED <<uploads, begin, nav, pending, loop, active, plan, reserved>>

\* Mutant: a navigation that is only requested does not keep a ROUTE_BEGIN off.
WsBeginWhileRequested ==
  /\ ~begin /\ uploads < MaxUploads
  /\ ~active
  /\ begin' = TRUE
  /\ UNCHANGED <<store, uploads, nav, pending, loop, active, plan, reserved,
                 mixed>>

\* ROUTE_BEGIN looks for a navigation first, ...
WsBegin ==
  /\ ~begin /\ uploads < MaxUploads
  /\ ~nav /\ ~active
  /\ begin' = TRUE
  /\ UNCHANGED <<store, uploads, nav, pending, loop, active, plan, reserved,
                 mixed>>

\* ... and takes the upload then.
WsBeginUpload ==
  /\ begin /\ begin' = FALSE
  /\ uploads' = uploads + 1
  /\ \E count \in 0..MaxWaypoints : store' = BeginUpload(store, count)
  /\ mixed' = (loop.at = "go")
  /\ UNCHANGED <<nav, pending, loop, active, plan, reserved>>

\* The points come in any order and any number of times.
WsWaypoint == \E i \in Waypoints : Line(AddWaypoint(store, i, uploads))

WsBoundary ==
  \/ \E count \in Sizes : Line(BeginBoundary(store, count))
  \/ \E i \in 1..MaxPoints : Line(AddBoundaryPoint(store, i, uploads))
  \/ \E simple \in BOOLEAN : Line(EndBoundary(store, simple))

WsForbidden ==
  \/ \E n \in 0..MaxPolygons : \E sizes \in [1..n -> Sizes] :
       Line(BeginForbidden(store, sizes))
  \/ \E p \in 1..MaxPolygons, i \in 1..MaxPoints, simple \in BOOLEAN :
       Line(AddForbiddenPoint(store, p, i, uploads, simple))
  \/ \E simple \in BOOLEAN : Line(EndForbidden(store, simple))

WsEnd == \E inside \in BOOLEAN : Line(EndUpload(store, inside))

\* NAV_START and the GO commands reserve the navigation when they are queued.
WsQueue ==
  /\ ~begin /\ ~nav /\ ~active /\ pending = "NONE"
  /\ \/ store.state = "READY" /\ pending' = "START"
     \/ pending' = "GO"
  /\ nav' = TRUE
  /\ UNCHANGED <<store, uploads, begin, loop, active, plan, reserved, mixed>>

\* STOP, NAV_STOP and the last client's disconnect.
WsStop ==
  /\ ~begin
  /\ nav' = FALSE /\ pending' = "STOP"
  /\ reserved' = FALSE
  /\ UNCHANGED <<store, uploads, begin, loop, active, plan, mixed>>

WsTask ==
  \/ WsBegin \/ WsBeginUpload \/ WsWaypoint \/ WsBoundary
  \/ WsForbidden \/ WsEnd \/ WsQueue \/ WsStop

-----------------------------------------------------------------------------
(* loop: NAV_START                                                         *)

\* The command is the one that is pending, or comes from the serial console.
Build(command, building) ==
  /\ loop = Idle /\ ~active
  /\ loop' = building
  /\ \/ pending = command /\ pending' = "NONE" /\ reserved' = nav
     \/ pending' = pending /\ reserved' = FALSE
  /\ plan' = <<>>
  /\ UNCHANGED <<store, uploads, begin, nav, active, mixed>>

\* What the store says of the next waypoint is read when it is appended.
Start ==
  /\ pending # "STOP" /\ store.state = "READY"
  /\ Build("START", [Idle EXCEPT !.at = "start"])

StartAppends ==
  /\ loop.at = "start" /\ Len(plan) < Len(store.waypoints)
  /\ plan' = Append(plan, store.waypoints[Len(plan) + 1])
  /\ UNCHANGED <<store, uploads, begin, nav, pending, loop, active, reserved,
                 mixed>>

\* activateRoutePlan: validatePlanFootprint asks for the fence.  What the places
\* and the metadata of the waypoints make of the plan is left open.
Activates == store.state = "READY" /\ store.fenced

Activate ==
  /\ loop' = Idle
  /\ active' = TRUE /\ nav' = TRUE
  /\ UNCHANGED <<uploads, begin, pending, reserved, mixed, store>>

\* A start that fails takes the request back.
GiveUp ==
  /\ loop' = Idle
  /\ nav' = FALSE /\ reserved' = FALSE
  /\ plan' = <<>>
  /\ UNCHANGED <<uploads, begin, pending, active, mixed>>

StartEnds ==
  /\ loop.at = "start" /\ Len(plan) >= Len(store.waypoints)
  /\ \/ Activates /\ Activate /\ UNCHANGED plan
     \/ GiveUp /\ UNCHANGED store

-----------------------------------------------------------------------------
(* loop: GO_FORWARD, GO_L_SHAPE and their like                             *)

Call(op, i) == [op |-> op, i |-> i]

\* Its way, a fence around it and no forbidden polygon.
Calls ==
  <<Call("begin", 0)>>
  \o [i \in Waypoints |-> Call("waypoint", i)]
  \o <<Call("begin fence", 0)>>
  \o [i \in 1..MaxPoints |-> Call("corner", i)]
  \o <<Call("end fence", 0), Call("forbid", 0), Call("end", 0)>>

Go ==
  \E checked \in BOOLEAN :
    Build("GO", [at |-> "go", calls |-> Calls, checked |-> checked])

Called(s, c) ==
  CASE c.op = "begin" -> BeginUpload(s, MaxWaypoints)
    [] c.op = "waypoint" -> AddWaypoint(s, c.i, GO)
    [] c.op = "begin fence" -> BeginBoundary(s, MaxPoints)
    [] c.op = "corner" -> AddBoundaryPoint(s, c.i, GO)
    [] c.op = "end fence" -> EndBoundary(s, TRUE)
    [] c.op = "forbid" -> EndForbidden(BeginForbidden(s, <<>>), TRUE)
    [] c.op = "end" -> EndUpload(s, TRUE)

\* What the call returns.
Accepted(s, c) ==
  CASE c.op = "waypoint" -> TakesWaypoint(s, c.i)
    [] c.op = "corner" -> TakesCorner(s, c.i)
    [] c.op = "end fence" -> EndBoundary(s, TRUE).fenced
    [] c.op = "end" -> EndUpload(s, TRUE).state = "READY"
    [] OTHER -> Uploading(s) \/ c.op = "begin"

\* GO_FORWARD does not look at what the calls return, the debug drives do.
GoCalls ==
  /\ loop.at = "go" /\ loop.calls # <<>>
  /\ LET c == Head(loop.calls)
     IN  IF loop.checked /\ ~Accepted(store, c)
         THEN GiveUp /\ store' = StopRoute(store)
         ELSE /\ store' = Called(store, c)
              /\ loop' = [loop EXCEPT !.calls = Tail(@)]
              /\ mixed' = (mixed /\ c.op # "begin")
              /\ UNCHANGED <<uploads, begin, nav, pending, active, plan,
                             reserved>>

\* Its plan is made of its own points, not of the store's.
GoEnds ==
  /\ loop.at = "go" /\ loop.calls = <<>>
  /\ \/ Activates /\ Activate /\ plan' = [i \in Waypoints |-> GO]
     \/ GiveUp /\ store' = StopRoute(store)

\* A command that meets its gate closed, and the end of the route.
Refuse ==
  /\ loop = Idle /\ pending \in {"START", "GO"}
  /\ pending' = "NONE"
  /\ nav' = (nav /\ active)
  /\ reserved' = (reserved /\ nav')
  /\ UNCHANGED <<store, uploads, begin, loop, active, plan, mixed>>

Stopped ==
  /\ active' = FALSE /\ nav' = FALSE
  /\ plan' = <<>> /\ reserved' = FALSE
  /\ UNCHANGED <<uploads, begin, loop, mixed>>

HandleStop ==
  /\ loop = Idle /\ pending = "STOP"
  /\ pending' = "NONE"
  /\ store' = StopRoute(store)
  /\ Stopped

RouteEnds ==
  /\ loop = Idle /\ active
  /\ store' \in {store, StopRoute(store)}
  /\ Stopped
  /\ UNCHANGED pending

Loop ==
  \/ Start \/ StartAppends \/ StartEnds
  \/ Go \/ GoCalls \/ GoEnds
  \/ Refuse \/ HandleStop \/ RouteEnds

Next == WsTask \/ Loop

Spec == Init /\ [][Next]_vars

-----------------------------------------------------------------------------
(* Properties                                                              *)

\* The points of a store come from one upload.
OneUpload(s) ==
  \A i \in 1..Len(s.waypoints), j \in 1..Len(s.fence) :
    /\ s.waypoints[i] = s.waypoints[1]
    /\ s.fence[j] = s.waypoints[1]
    /\ \A k \in 1..Len(s.obstacles) : \A n \in 1..Len(s.obstacles[k]) :
         s.obstacles[k][n] = s.waypoints[1]

\* A route that is ready is the whole of one upload: its waypoints, its fence and
\* all of its forbidden polygons, whatever the order, the repetitions and the
\* restarts of the lines (Route.cpp:126 to 330).  But for lines that are taken
\* while loop fills the store for a GO.
ReadyIsWhole ==
  (store.state = "READY" /\ ~mixed)
    => /\ Len(store.waypoints) = store.expected
       /\ Len(store.fence) = store.corners /\ store.corners >= MinPoints
       /\ Len(store.obstacles) = Len(store.sizes)
       /\ OneUpload(store)

\* The obstacles are whole polygons, the first of those that were announced: one
\* that was not sent to its end is never one (Route.cpp:251 to 301).
PolygonsAreWhole ==
  /\ Len(store.obstacles) <= Len(store.sizes)
  /\ \A k \in 1..Len(store.obstacles) :
       Len(store.obstacles[k]) = store.sizes[k]

\* The route that is driven is the one that is in the store, in all of its
\* points, and the fence it was checked against stands: an upload that comes
\* while it is begun or driven is kept off by the reservation (rover.cpp:7336).
\* But for routes without one, and for lines in the middle of a GO.
DrivenRouteStands ==
  (active /\ reserved /\ ~mixed)
    => /\ store.state = "READY" /\ store.fenced
       /\ plan = store.waypoints

\* What PROTOCOL.md:219 shows: the waypoints alone make a route.
WaypointsSuffice ==
  [][(/\ Uploading(store) /\ store'.state = "INVALID"
      /\ Len(store.waypoints) = store.expected /\ loop' = loop)
       => store.corners > 0 \/ store.sizes # <<>>]_vars

\* A fence has no corner but its own drive's.
GoFenceIsItsOwn ==
  (loop.at = "go" /\ store.fenced) => \A j \in 1..Len(store.fence) : store.fence[j] = GO

=============================================================================
