---------------------------- MODULE FailsafeProofs ----------------------------
(***************************************************************************)
(* Proofs about the two watchdogs that stop a robot of their own accord,   *)
(* for all times, speeds and clock widths.  The Safety of the rover,       *)
(* module RoverSafety: a bad sky is held in time, and motion is permitted  *)
(* again only when that has been earned.  The failsafe of sound.ino,       *)
(* module Robot: it believes that it is stopping the robot only while it   *)
(* is, and the hoverboard is never sent more than it takes.                *)
(***************************************************************************)
EXTENDS RoverSafety, Robot, TLAPS

\* The five levels, from the best to the worst.
Levels == OK..ESTOP

\* The type of every variable.
Typed ==
  /\ mode \in {"NORMAL", "FIELD"}
  /\ level \in Levels
  /\ now \in 0..ClockMod - 1
  /\ recovery \in 0..ClockMod - 1
  /\ sky \in 0..ClockMod - 1
  /\ healthy \in NotYet..Stable
  /\ dark \in NotYet..ClockMod - 1

\* The stamp of the sky is at most one tick younger than the bad sky itself: a
\* start at the moment 0 is taken for none, and begins anew at the next tick.
SkyAged ==
  /\ dark = NotYet => sky = 0
  /\ dark # NotYet =>
       /\ mode = "FIELD"
       /\ sky = 0 => dark = 0 /\ now = 0
       /\ sky # 0 => /\ Since(sky, now) <= dark
                     /\ dark <= Since(sky, now) + MaxGap

\* While a recovery waits, the candidates have permitted motion for as long.
RecoveryAged ==
  recovery # 0 =>
    Since(recovery, now) < Stable /\ Since(recovery, now) <= healthy

\* What every step preserves.
SafetyInv == Typed /\ SkyAged /\ RecoveryAged /\ SkyIsHeld

USE SafetyAssumption DEF OK, DEGRADED, HOLD, ESTOP, NotYet, Levels

-----------------------------------------------------------------------------
(* The operators                                                           *)

\* The clock's remainder, for differences and sums of two of its readings.
LEMMA Remainder ==
  ASSUME NEW a \in 0..ClockMod - 1
  PROVE  /\ a % ClockMod = a
         /\ (a + ClockMod) % ClockMod = a
         /\ (a - ClockMod) % ClockMod = a
<1> ClockMod \in Nat \ {0}
  OBVIOUS
<1> QED
  BY SMT

\* The age of a stamp, by the place of the clock.
LEMMA SinceIs ==
  ASSUME NEW s \in 0..ClockMod - 1, NEW t \in 0..ClockMod - 1
  PROVE  Since(s, t) = IF s <= t THEN t - s ELSE t - s + ClockMod
<1>1. CASE s <= t
  BY <1>1, Remainder DEF Since
<1>2. CASE s > t
  <2>1. t - s + ClockMod \in 0..ClockMod - 1
    BY <1>2
  <2>2. (t - s + ClockMod - ClockMod) % ClockMod = t - s + ClockMod
    BY <2>1, Remainder
  <2> QED
    BY <1>2, <2>2 DEF Since
<1> QED
  BY <1>1, <1>2

\* It is a difference of two readings of the clock.
LEMMA SinceRange ==
  ASSUME NEW s \in 0..ClockMod - 1, NEW t \in 0..ClockMod - 1
  PROVE  Since(s, t) \in 0..ClockMod - 1
  BY SinceIs

\* What a tick makes of the clock, and of the age of a stamp that is not so old
\* that the clock comes round to it.
LEMMA TickAges ==
  ASSUME NEW s \in 0..ClockMod - 1, NEW n \in 0..ClockMod - 1,
         NEW d \in 0..MaxGap
  PROVE  /\ (n + d) % ClockMod \in 0..ClockMod - 1
         /\ n + d < ClockMod => (n + d) % ClockMod = n + d
         /\ Since((n + d) % ClockMod, (n + d) % ClockMod) = 0
         /\ Since(s, n) + d < ClockMod
              => Since(s, (n + d) % ClockMod) = Since(s, n) + d
<1> DEFINE t == (n + d) % ClockMod
<1>1. t = IF n + d < ClockMod THEN n + d ELSE n + d - ClockMod
  <2>1. CASE n + d < ClockMod
    BY <2>1, Remainder
  <2>2. CASE n + d >= ClockMod
    <3>1. n + d - ClockMod \in 0..ClockMod - 1
      BY <2>2
    <3>2. (n + d - ClockMod + ClockMod) % ClockMod = n + d - ClockMod
      BY <3>1, Remainder
    <3> QED
      BY <2>2, <3>2
  <2> QED
    BY <2>1, <2>2
<1>2. t \in 0..ClockMod - 1
  BY <1>1
<1>3. Since(t, t) = 0
  BY <1>2, SinceIs
<1>4. Since(s, n) = IF s <= n THEN n - s ELSE n - s + ClockMod
  BY SinceIs
<1>5. Since(s, t) = IF s <= t THEN t - s ELSE t - s + ClockMod
  BY <1>2, SinceIs
<1>6. Since(s, n) + d < ClockMod => Since(s, t) = Since(s, n) + d
  <2> HIDE DEF t
  <2> QED
    BY <1>1, <1>4, <1>5
<1> QED
  BY <1>1, <1>2, <1>3, <1>6

\* An age that does not wrap grows with the clock.
LEMMA AgeGrows ==
  ASSUME NEW s \in 0..ClockMod - 1, NEW n \in 0..ClockMod - 1,
         NEW d \in 0..MaxGap, Since(s, n) + d < ClockMod
  PROVE  Since(s, (n + d) % ClockMod) = Since(s, n) + d
BY TickAges

\* Of two numbers.
LEMMA MinOfTwo ==
  ASSUME NEW a \in Int, NEW b \in Int
  PROVE  Min({a, b}) = IF a <= b THEN a ELSE b
<1> DEFINE m == IF a <= b THEN a ELSE b
<1>1. m \in {a, b} /\ \A y \in {a, b} : m <= y
  OBVIOUS
<1>2. \A x \in {a, b} : (\A y \in {a, b} : x <= y) => x = m
  OBVIOUS
<1> QED
  BY <1>1, <1>2 DEF Min

\* The worst of some levels is one of them.
LEMMA WorstIsLevel ==
  ASSUME NEW S \in SUBSET Levels, S # {}
  PROVE  Max(S) \in Levels
<1>1. \E x \in S : \A y \in S : x >= y
  <2>1. CASE 3 \in S
    BY <2>1
  <2>2. CASE 3 \notin S /\ 2 \in S
    BY <2>2
  <2>3. CASE 3 \notin S /\ 2 \notin S /\ 1 \in S
    BY <2>3
  <2>4. CASE 3 \notin S /\ 2 \notin S /\ 1 \notin S
    <3>1. \A x \in S : x = 0
      BY <2>4
    <3>2. PICK x \in S : TRUE
      OBVIOUS
    <3>3. \A y \in S : x >= y
      BY <3>1
    <3> QED
      BY <3>3
  <2> QED
    BY <2>1, <2>2, <2>3, <2>4
<1> QED
  BY <1>1 DEF Max

\* Every trouble has a level in either mode.
LEMMA SeverityIsLevel ==
  \A t \in Troubles :
    Severity.NORMAL[t] \in Levels /\ Severity.FIELD[t] \in Levels
<1> DEFINE normal == Severity.NORMAL
<1>1. normal \in [Troubles -> Levels]
  <2>1. \A t \in Troubles : normal[t] \in Levels
    BY DEF Severity, Troubles
  <2> QED
    BY <2>1 DEF Troubles, Severity
<1> DEFINE field == [normal EXCEPT
                       !.pvtLate = DEGRADED, !.pvtOld = HOLD,
                       !.positionLate = OK, !.positionLost = ESTOP,
                       !.headingLate = OK, !.headingLost = ESTOP,
                       !.imu = OK, !.jumpsFew = HOLD,
                       !.fixedWide = DEGRADED, !.floatWide = DEGRADED]
           changed == {"pvtLate", "pvtOld", "positionLate", "positionLost",
                       "headingLate", "headingLost", "imu", "jumpsFew",
                       "fixedWide", "floatWide"}
<1>2. Severity.FIELD = field
  BY DEF Severity
<1>3. changed \subseteq Troubles
  BY DEF Severity, Troubles
<1> HIDE DEF normal
<1>4. \A t \in Troubles \ changed : field[t] = normal[t]
  BY <1>1
<1>5. /\ field.pvtLate = 1 /\ field.pvtOld = 2
      /\ field.positionLate = 0 /\ field.positionLost = 3
      /\ field.headingLate = 0 /\ field.headingLost = 3
      /\ field.imu = 0 /\ field.jumpsFew = 2
      /\ field.fixedWide = 1 /\ field.floatWide = 1
  BY <1>1, <1>3
<1> HIDE DEF field
<1>6. \A t \in changed : field[t] \in Levels
  BY <1>5
<1> QED
  BY <1>1, <1>2, <1>4, <1>6 DEF normal

\* So what a tick reads is one.
LEMMA ReadingIsLevel ==
  ASSUME NEW m \in {"NORMAL", "FIELD"}, NEW in \in Inputs
  PROVE  Reading(m, in).level \in Levels
<1> DEFINE seen == in.troubles \cap Watched(m, in.motion)
           weights == {OK} \cup {Severity[m][t] : t \in seen}
<1>1. seen \subseteq Troubles
  BY DEF Inputs
<1>2. \A t \in seen : Severity[m][t] \in Levels
  BY <1>1, SeverityIsLevel
<1>3. weights \subseteq Levels /\ weights # {}
  <2> HIDE DEF seen
  <2> QED
    BY <1>2
<1>4. Max(weights) \in Levels
  BY <1>3, WorstIsLevel
<1>5. Reading(m, in).level = Max(weights)
  BY DEF Reading
<1> QED
  BY <1>4, <1>5 DEF Reading

\* A candidate is a level too, and a bad sky that holds asks for a stop.
LEMMA CandidateIsLevel ==
  ASSUME NEW r, r.level \in Levels, NEW bad, NEW t
  PROVE  /\ Candidate(r, bad, t).level \in Levels
         /\ SkyHolds(bad, t) => Candidate(r, bad, t).level >= HOLD
<1>1. CASE SkyHolds(bad, t) /\ r.level <= HOLD
  <2>1. Candidate(r, bad, t) = [level |-> HOLD, stale |-> FALSE]
    BY <1>1 DEF Candidate
  <2> QED
    BY <2>1
<1>2. CASE ~(SkyHolds(bad, t) /\ r.level <= HOLD)
  <2>1. Candidate(r, bad, t) = [level |-> r.level, stale |-> r.stale]
    BY <1>2 DEF Candidate
  <2> QED
    BY <1>2, <2>1
<1> QED
  BY <1>1, <1>2

\* What a tick is, with its candidate named.
LEMMA TickIs ==
  ASSUME Ticks(0..MaxGap), mode \in {"NORMAL", "FIELD"}
  PROVE  \E d \in 0..MaxGap, bad \in BOOLEAN : \E r :
           r.level \in Levels /\ Tick(d, r, bad)
<1>1. PICK m \in {"NORMAL", "FIELD"}, in \in Inputs, d \in 0..MaxGap,
           bad \in BOOLEAN : Tick(d, Reading(m, in), bad)
  BY DEF Ticks, FieldReadings, NormalReadings
<1> DEFINE r == Reading(m, in)
<1>2. r.level \in Levels
  BY ReadingIsLevel
<1> HIDE DEF r
<1> QED
  BY <1>1, <1>2 DEF r

-----------------------------------------------------------------------------
(* The invariant                                                           *)

\* What a tick makes of the level: a candidate that asks for a stop is taken at
\* once, and what permits motion after a stop is taken at once or earned.
LEMMA Settles ==
  ASSUME Typed, NEW r, NEW c, NEW t,
         c.level \in Levels, Recover(r, c, t)
  PROVE  /\ level' \in Levels
         /\ c.level >= HOLD => level' >= HOLD
  BY DEF Typed, Recover, AtOnce, Settle, Freshens

\* A tick keeps the invariant, and what permits motion in it is earned.
LEMMA TickKeeps ==
  ASSUME SafetyInv, NEW d \in 0..MaxGap, NEW bad \in BOOLEAN, NEW r,
         r.level \in Levels, Tick(d, r, bad)
  PROVE  /\ SafetyInv'
         /\ (level >= HOLD /\ level' <= DEGRADED)
              => healthy' >= Stable \/ ~evaluated \/ (stale /\ fresh')
<1> DEFINE t == (now + d) % ClockMod
           c == Candidate(r, bad, t)
           start == IF recovery = 0 THEN t ELSE recovery
           seen == Lasted(c.level <= DEGRADED, healthy, d)
<1>1. Typed /\ SkyAged /\ RecoveryAged
  BY DEF SafetyInv
<1>2. /\ now' = t /\ sky' = SkySince(bad, t)
      /\ Recover(r, c, t)
      /\ healthy' = Min({Stable, seen})
      /\ dark' = Lasted(mode = "FIELD" /\ bad, dark, d)
      /\ dark' < ClockMod
      /\ mode' = mode /\ evaluated' = TRUE /\ fresh' = r.fresh
  BY DEF Tick
<1>3. /\ c.level \in Levels
      /\ SkyHolds(bad, t) => c.level >= HOLD
  BY CandidateIsLevel
<1>4. /\ t \in 0..ClockMod - 1
      /\ now + d < ClockMod => t = now + d
      /\ Since(t, t) = 0
      /\ Since(sky, now) + d < ClockMod => Since(sky, t) = Since(sky, now) + d
      /\ Since(recovery, now) + d < ClockMod
           => Since(recovery, t) = Since(recovery, now) + d
  <2>1. /\ now \in 0..ClockMod - 1 /\ sky \in 0..ClockMod - 1
        /\ recovery \in 0..ClockMod - 1
    BY <1>1 DEF Typed
  <2>2. now + d < ClockMod => t = now + d
    BY <2>1, TickAges
  <2>3. t \in 0..ClockMod - 1
    BY <2>1, TickAges
  <2>4. Since(t, t) = 0
    BY <2>1, TickAges, Zenon
  <2>5. Since(sky, now) + d < ClockMod => Since(sky, t) = Since(sky, now) + d
    BY <2>1, AgeGrows, ZenonT(40)
  <2>6. Since(recovery, now) + d < ClockMod
          => Since(recovery, t) = Since(recovery, now) + d
    BY <2>1, AgeGrows, ZenonT(40)
  <2> QED
    BY <2>2, <2>3, <2>4, <2>5, <2>6
<1>5. /\ Since(sky, now) \in 0..ClockMod - 1
      /\ Since(recovery, now) \in 0..ClockMod - 1
      /\ Since(start, t) \in 0..ClockMod - 1
  BY <1>1, <1>4, SinceRange DEF Typed
<1> HIDE DEF t, c
<1>6. healthy' = IF Stable <= seen THEN Stable ELSE seen
  BY <1>1, <1>2, MinOfTwo DEF Typed, Lasted
<1>7. level' \in Levels /\ (c.level >= HOLD => level' >= HOLD)
  BY <1>1, <1>2, <1>3, Settles
<1>8. \/ Settle(c) /\ (AtOnce(r, c) \/ Since(start, t) >= Stable)
      \/ /\ ~AtOnce(r, c) /\ Since(start, t) < Stable
         /\ recovery' = start /\ UNCHANGED <<level, stale>>
  BY <1>2, <1>5 DEF Recover
<1>9. c.level <= DEGRADED \/ AtOnce(r, c)
  BY <1>1, <1>3 DEF Typed, AtOnce
<1>10. c.level <= DEGRADED =>
         \/ Since(start, t) < Stable /\ Since(start, t) <= healthy'
         \/ Since(start, t) >= Stable /\ healthy' >= Stable
  <2>1. CASE recovery = 0
    <3>1. Since(start, t) = 0
      BY <1>4, <2>1
    <3>2. c.level <= DEGRADED => healthy' >= 0
      BY <1>1, <1>6 DEF Lasted, Typed
    <3> QED
      BY <3>1, <3>2
  <2>2. CASE recovery # 0
    <3>1. Since(start, t) = Since(recovery, now) + d
      BY <1>1, <1>4, <1>5, <2>2 DEF RecoveryAged
    <3>2. c.level <= DEGRADED
            => healthy' = IF Stable <= healthy + d THEN Stable ELSE healthy + d
      BY <1>1, <1>5, <1>6, <2>2 DEF Lasted, Typed, RecoveryAged
    <3> QED
      BY <1>1, <1>5, <2>2, <3>1, <3>2 DEF Typed, RecoveryAged
  <2> QED
    BY <2>1, <2>2
<1>11. Typed'
  BY <1>1, <1>2, <1>4, <1>6, <1>7, <1>8 DEF Typed, Lasted, SkySince, Settle
<1>12. RecoveryAged'
  <2> SUFFICES ASSUME recovery' # 0
               PROVE  Since(recovery', now') < Stable
                      /\ Since(recovery', now') <= healthy'
    BY DEF RecoveryAged
  <2>1. ~AtOnce(r, c) /\ Since(start, t) < Stable /\ recovery' = start
    BY <1>8 DEF Settle
  <2>2. ~(Since(start, t) >= Stable)
    BY <1>5, <2>1
  <2>3. Since(start, t) <= healthy'
    BY <1>9, <1>10, <2>1, <2>2, Zenon
  <2>4. now' = t
    BY <1>2
  <2> QED
    BY <2>1, <2>3, <2>4
<1>13. SkyAged'
  BY <1>1, <1>2, <1>4, <1>5 DEF SkyAged, Typed, SkySince, Lasted
<1>14. SkyIsHeld'
  <2> SUFFICES ASSUME mode' = "FIELD", dark' > SkyHold + MaxGap
               PROVE  level' >= HOLD
    BY DEF SkyIsHeld
  <2>1. bad /\ dark' # NotYet
    BY <1>2 DEF Lasted
  <2>2. sky' # 0 /\ dark' <= Since(sky', now') + MaxGap
    BY <1>13, <2>1 DEF SkyAged
  <2>3. Since(sky', now') \in Int
    BY <1>11, SinceRange DEF Typed
  <2>4. dark' \in Int
    BY <1>11 DEF Typed
  <2>5. Since(sky', now') > SkyHold
    BY <2>2, <2>3, <2>4
  <2>6. sky' = SkySince(bad, t) /\ now' = t /\ mode' = mode
    BY <1>2
  <2>7. SkyHolds(bad, t)
    BY <2>1, <2>5, <2>6 DEF SkyHolds
  <2> QED
    BY <1>3, <1>7, <2>7
<1>15. (level >= HOLD /\ level' <= DEGRADED)
         => healthy' >= Stable \/ ~evaluated \/ (stale /\ fresh')
  <2> SUFFICES ASSUME level >= HOLD, level' <= DEGRADED,
                      evaluated, ~(stale /\ fresh')
               PROVE  healthy' >= Stable
    OBVIOUS
  <2>1. level \in Levels
    BY <1>1 DEF Typed
  <2>2. Settle(c) /\ (AtOnce(r, c) \/ Since(start, t) >= Stable)
    BY <1>8, <2>1
  <2>3. c.level <= DEGRADED /\ c.level # HOLD /\ ~(c.level >= level)
    BY <1>3, <2>1, <2>2 DEF Settle
  <2>4. fresh' = r.fresh
    BY <1>2
  <2>5. ~AtOnce(r, c)
    BY <2>3, <2>4, Zenon DEF AtOnce, Freshens
  <2>6. ~(Since(start, t) < Stable)
    BY <1>5, <2>2, <2>5
  <2> QED
    BY <1>10, <2>3, <2>6, Zenon
<1> QED
  BY <1>11, <1>12, <1>13, <1>14, <1>15 DEF SafetyInv

\* It holds at boot.
LEMMA SafetyInit == Init => SafetyInv
<1> SUFFICES ASSUME Init
             PROVE  SafetyInv
  OBVIOUS
<1>1. Typed
  BY DEF Init, Typed
<1>2. SkyAged /\ RecoveryAged /\ SkyIsHeld
  BY DEF Init, SkyAged, RecoveryAged, SkyIsHeld
<1> QED
  BY <1>1, <1>2 DEF SafetyInv

\* A step that is not a tick begins both holds anew.
LEMMA SetModeKeeps == SafetyInv /\ SetMode => SafetyInv'
<1> SUFFICES ASSUME SafetyInv, SetMode
             PROVE  SafetyInv'
  OBVIOUS
<1>1. Typed'
  BY DEF SafetyInv, Typed, SetMode
<1>2. SkyAged' /\ RecoveryAged' /\ SkyIsHeld'
  BY DEF SetMode, SkyAged, RecoveryAged, SkyIsHeld
<1> QED
  BY <1>1, <1>2 DEF SafetyInv

\* Every step keeps it.
LEMMA SafetyStep == SafetyInv /\ [Next]_vars => SafetyInv'
<1>1. SafetyInv /\ Ticks(0..MaxGap) => SafetyInv'
  BY TickIs, TickKeeps DEF SafetyInv, Typed
<1>2. SafetyInv /\ UNCHANGED vars => SafetyInv'
  BY DEF vars, SafetyInv, Typed, SkyAged, RecoveryAged, SkyIsHeld, Since
<1> QED
  BY <1>1, <1>2, SetModeKeeps DEF Next

\* FIELD motion is not permitted under a sky that has been bad for longer than
\* it may be, however the clock comes round and the modes change
\* (Safety.cpp:195 to 206).
THEOREM RoverSkyIsHeld == Spec => []SkyIsHeld
<1>1. SafetyInv => SkyIsHeld
  BY DEF SafetyInv
<1> QED
  BY <1>1, SafetyInit, SafetyStep, PTL DEF Spec

\* Motion that was stopped is permitted again after the candidates have
\* permitted it for all of the stable time, but for the first tick of a mode and
\* the fresh start of an alignment (Safety.cpp:70 to 118).
THEOREM RoverRecoveryIsEarned == Spec => RecoveryIsEarned
<1> DEFINE Earned ==
      (level >= HOLD /\ level' <= DEGRADED)
        => healthy' >= Stable \/ ~evaluated \/ (stale /\ fresh')
<1>1. SafetyInv /\ [Next]_vars => Earned \/ UNCHANGED vars
  <2>1. SafetyInv /\ Ticks(0..MaxGap) => Earned
    BY TickIs, TickKeeps DEF SafetyInv, Typed
  <2>2. SafetyInv /\ SetMode => Earned
    BY DEF SetMode, SafetyInv, Typed
  <2> QED
    BY <2>1, <2>2 DEF Next
<1> QED
  BY <1>1, SafetyInit, SafetyStep, PTL DEF Spec, RecoveryIsEarned


-----------------------------------------------------------------------------
(* The failsafe of sound.ino                                               *)

\* The failsafe is between its decision and its second zero.
Firing == at \in {"fire left", "fire right"}

\* Each wheel has a target.
TwoTargets == target = [s \in 1..2 |-> target[s]]

\* A callback that moves the wheels takes back the failsafe first.
CallbackShape ==
  /\ call = [writes |-> call.writes, move |-> call.move]
  /\ call.move # Zero =>
       call.writes \in {<<"stamp", "flag", "left", "right">>,
                        <<"flag", "left", "right">>,
                        <<"left", "right">>, <<"right">>}

\* ... and has done so when it comes to the wheels, or the failsafe has fired in
\* the middle of it.
TakenBack ==
  call.move # Zero /\ call.writes \in {<<"left", "right">>, <<"right">>}
    => ~stopping \/ crossed

\* The failsafe that has written one wheel leaves it at rest.
HalfStopped == stopping /\ ~crossed /\ at = "fire right" => target[1] = 0

\* What every step of the robot preserves.
FailsafeInv ==
  /\ stopping \in BOOLEAN /\ crossed \in BOOLEAN
  /\ TwoTargets /\ CallbackShape /\ TakenBack /\ HalfStopped
  /\ FailsafeIsStopping

\* An assignment to one target.
LEMMA OneTarget ==
  ASSUME TwoTargets, NEW side \in 1..2, NEW v,
         target' = [target EXCEPT ![side] = v]
  PROVE  /\ TwoTargets' /\ target'[side] = v
         /\ \A s \in 1..2 : s # side => target'[s] = target[s]
         /\ (\A s \in 1..2 : target'[s] = 0) => target' = Zero
<1>1. TwoTargets'
  BY DEF TwoTargets
<1>2. target'[side] = v /\ \A s \in 1..2 : s # side => target'[s] = target[s]
  BY DEF TwoTargets
<1>3. (\A s \in 1..2 : target'[s] = 0) => target' = Zero
  <2> SUFFICES ASSUME target'[1] = 0, target'[2] = 0 PROVE target' = <<0, 0>>
    BY DEF Zero
  <2>1. target' = [s \in 1..2 |-> target'[s]]
    BY <1>1 DEF TwoTargets
  <2>2. [s \in 1..2 |-> target'[s]] = [s \in 1..2 |-> 0]
    <3>1. \A s \in 1..2 : target'[s] = 0
      OBVIOUS
    <3> QED BY <3>1, Zenon
  <2>3. [s \in 1..2 |-> 0] = <<0, 0>>
    OBVIOUS
  <2> QED BY <2>1, <2>2, <2>3
<1> QED BY <1>1, <1>2, <1>3

\* It holds at boot.
LEMMA FailsafeInit == RobotInit => FailsafeInv
<1> SUFFICES ASSUME RobotInit PROVE FailsafeInv
  OBVIOUS
<1>1. stopping = FALSE /\ crossed = FALSE /\ target = <<0, 0>>
      /\ call = [writes |-> <<>>, move |-> Zero]
  BY DEF RobotInit, Zero, Idle
<1>2. TwoTargets
  BY <1>1 DEF TwoTargets
<1>3. CallbackShape
  BY <1>1 DEF CallbackShape
<1> QED
  BY <1>1, <1>2, <1>3
     DEF FailsafeInv, TakenBack, HalfStopped, FailsafeIsStopping

\* The writes of a callback that moves the wheels.
LEMMA Tails ==
  /\ Tail(<<"stamp", "flag", "left", "right">>) = <<"flag", "left", "right">>
  /\ Tail(<<"flag", "left", "right">>) = <<"left", "right">>
  /\ Tail(<<"left", "right">>) = <<"right">>
  OBVIOUS

\* The heads of the writes a callback may have left.
LEMMA Heads ==
  /\ Head(<<"stamp", "flag", "left", "right">>) = "stamp"
  /\ Head(<<"flag", "left", "right">>) = "flag"
  /\ Head(<<"left", "right">>) = "left"
  /\ Head(<<"right">>) = "right" /\ Len(<<"right">>) = 1
  OBVIOUS

\* What a write leaves of its callback.
LEMMA WriteLeaves ==
  ASSUME CallbackShape, NEW name, Write(name)
  PROVE  /\ CallbackShape' /\ UNCHANGED <<at, crossed>>
         /\ call'.move # Zero =>
              /\ call'.move = call.move
              /\ name \in {"stamp", "flag", "left"}
              /\ call'.writes \in {<<"left", "right">>, <<"right">>}
                   => \/ name = "flag"
                      \/ call.writes = <<"left", "right">>
<1>1. /\ call.writes # <<>> /\ Head(call.writes) = name
      /\ UNCHANGED <<at, crossed>>
  BY DEF Write
<1>2. CASE Len(call.writes) = 1
  BY <1>1, <1>2 DEF Write, Idle, Zero, CallbackShape
<1>3. CASE Len(call.writes) # 1
  <2>1. /\ call'.writes = Tail(call.writes) /\ call'.move = call.move
        /\ call' = [writes |-> call'.writes, move |-> call'.move]
    BY <1>3 DEF Write, CallbackShape
  <2>2. CASE call.move = Zero
    BY <1>1, <2>1, <2>2 DEF CallbackShape
  <2>3. CASE call.move # Zero
    <3>1. \/ call.writes = <<"stamp", "flag", "left", "right">>
          \/ call.writes = <<"flag", "left", "right">>
          \/ call.writes = <<"left", "right">>
      BY <1>3, <2>3, Heads DEF CallbackShape
    <3>2. \/ name = "stamp" /\ call'.writes = <<"flag", "left", "right">>
          \/ name = "flag" /\ call'.writes = <<"left", "right">>
          \/ name = "left" /\ call'.writes = <<"right">>
             /\ call.writes = <<"left", "right">>
      BY <1>1, <2>1, <3>1, Heads, Tails
    <3>3. CallbackShape'
      BY <2>1, <3>2 DEF CallbackShape
    <3>4. call'.writes \in {<<"left", "right">>, <<"right">>}
            => name = "flag" \/ call.writes = <<"left", "right">>
      BY <3>2
    <3> QED BY <1>1, <2>1, <3>2, <3>3, <3>4
  <2> QED BY <2>2, <2>3
<1> QED BY <1>2, <1>3

USE DEF motion, link

\* Steps that leave the wheels' targets, the failsafe and the callback alone.
LEMMA FailsafeRests ==
  ASSUME FailsafeInv, UNCHANGED <<target, stopping, call, crossed>>,
         at' = at \/ (at \notin {"fire left", "fire right"}
                       /\ at' \notin {"fire left", "fire right"})
  PROVE  FailsafeInv'
<1>1. TwoTargets' /\ CallbackShape'
  BY DEF FailsafeInv, TwoTargets, CallbackShape
<1> QED
  BY <1>1 DEF FailsafeInv, TakenBack, HalfStopped, FailsafeIsStopping

\* A callback begins.
LEMMA FailsafeEvents ==
  ASSUME FailsafeInv, WsConnect \/ WsDisconnect \/ WsData
  PROVE  FailsafeInv'
<1>1. PICK writes, move :
        /\ Event(writes, move)
        /\ move # Zero => writes = <<"stamp", "flag", "left", "right">>
  BY DEF WsConnect, WsDisconnect, WsData
<1>2. /\ call' = [writes |-> writes, move |-> move]
      /\ UNCHANGED <<target, stopping, at, crossed>>
  BY <1>1 DEF Event
<1>3. CallbackShape'
  BY <1>1, <1>2 DEF CallbackShape
<1>4. TakenBack'
  BY <1>1, <1>2, Heads DEF TakenBack
<1>5. TwoTargets'
  BY <1>2 DEF FailsafeInv, TwoTargets
<1> QED
  BY <1>2, <1>3, <1>4, <1>5 DEF FailsafeInv, HalfStopped, FailsafeIsStopping

\* A write of the callback that is not to a wheel.
LEMMA FailsafeWrites ==
  ASSUME FailsafeInv, NEW name \in {"stamp", "flag", "cancel", "count",
                                    "pending", "due", "sound"},
         Write(name), UNCHANGED target,
         stopping' = IF name = "flag" THEN FALSE ELSE stopping
  PROVE  FailsafeInv'
<1>1. /\ CallbackShape' /\ UNCHANGED <<at, crossed>>
      /\ call'.move # Zero
           /\ call'.writes \in {<<"left", "right">>, <<"right">>}
             => \/ name = "flag"
                \/ call.writes = <<"left", "right">>
      /\ call'.move # Zero => call'.move = call.move
  BY WriteLeaves DEF FailsafeInv
<1>2. call.writes # <<"left", "right">>
  BY Heads DEF Write
<1>3. TakenBack'
  BY <1>1, <1>2 DEF TakenBack
<1>4. TwoTargets'
  BY DEF FailsafeInv, TwoTargets
<1> QED
  BY <1>1, <1>3, <1>4 DEF FailsafeInv, HalfStopped, FailsafeIsStopping

\* A write to a wheel: while the failsafe stops the robot it is a zero.
LEMMA FailsafeWheels ==
  ASSUME FailsafeInv, WriteLeft \/ WriteRight
  PROVE  FailsafeInv'
<1>1. PICK name \in {"left", "right"}, side \in 1..2 :
        WriteWheel(name, side)
  BY DEF WriteLeft, WriteRight
<1>2. /\ Write(name) /\ UNCHANGED stopping
      /\ target' = [target EXCEPT ![side] = call.move[side]]
  BY <1>1 DEF WriteWheel
<1>3. /\ CallbackShape' /\ UNCHANGED <<at, crossed>>
      /\ call'.move # Zero => call'.move = call.move
      /\ (/\ call'.move # Zero
          /\ call'.writes \in {<<"left", "right">>, <<"right">>})
           => call.writes = <<"left", "right">>
  BY <1>2, WriteLeaves DEF FailsafeInv
<1>4. TwoTargets'
  BY <1>1, <1>2, OneTarget DEF FailsafeInv
<1>5. TakenBack'
  BY <1>2, <1>3 DEF FailsafeInv, TakenBack
<1>6. call.move # Zero => ~stopping \/ crossed
  <2>1. Head(call.writes) \in {"left", "right"}
    BY <1>2 DEF Write
  <2>2. call.move # Zero =>
          call.writes \in {<<"left", "right">>, <<"right">>}
    BY <2>1, Heads DEF FailsafeInv, CallbackShape
  <2> QED BY <2>2 DEF FailsafeInv, TakenBack
<1>7. ASSUME stopping, ~crossed
      PROVE  target'[1] = (IF side = 1 THEN 0 ELSE target[1])
             /\ (target = Zero => target' = Zero)
  BY <1>2, <1>4, <1>6, <1>7 DEF FailsafeInv, TwoTargets, Zero
<1>8. HalfStopped'
  BY <1>2, <1>3, <1>7 DEF FailsafeInv, HalfStopped
<1>9. FailsafeIsStopping'
  BY <1>2, <1>3, <1>7 DEF FailsafeInv, FailsafeIsStopping
<1> QED BY <1>2, <1>3, <1>4, <1>5, <1>8, <1>9 DEF FailsafeInv

\* The client count of a callback that does not move the wheels.
LEMMA FailsafeCountsOut ==
  ASSUME FailsafeInv, CountOut
  PROVE  FailsafeInv'
<1>1. /\ Head(call.writes) = "uncount"
      /\ UNCHANGED <<target, stopping, at, crossed>>
  BY DEF CountOut
<1>2. call.move = Zero
  BY <1>1, Heads DEF FailsafeInv, CallbackShape
<1>3. CallbackShape' /\ call'.move = Zero
  BY <1>2 DEF CountOut, Idle, Zero, FailsafeInv, CallbackShape
<1>4. TwoTargets'
  BY <1>1 DEF FailsafeInv, TwoTargets
<1> QED
  BY <1>1, <1>3, <1>4
     DEF FailsafeInv, TakenBack, HalfStopped, FailsafeIsStopping

\* The failsafe fires, writes its two zeros, and is over at rest.
LEMMA FailsafeFires ==
  ASSUME FailsafeInv, Fire \/ FireLeft \/ FireRight \/ Ramp
  PROVE  FailsafeInv'
<1>1. CASE Fire
  <2>1. /\ at' = "fire left" /\ stopping' = TRUE
        /\ crossed' = (crossed \/ call # Idle)
        /\ UNCHANGED <<target, call>>
    BY <1>1 DEF Fire, At
  <2>2. TwoTargets' /\ CallbackShape'
    BY <2>1 DEF FailsafeInv, TwoTargets, CallbackShape
  <2>3. TakenBack'
    <3>1. CASE call = Idle
      BY <2>1, <3>1 DEF TakenBack, Idle
    <3>2. CASE call # Idle
      BY <2>1, <3>2 DEF TakenBack
    <3> QED BY <3>1, <3>2
  <2> QED BY <2>1, <2>2, <2>3
          DEF FailsafeInv, HalfStopped, FailsafeIsStopping
<1>2. CASE FireLeft
  <2>1. /\ at' = "fire right" /\ target' = [target EXCEPT ![1] = 0]
        /\ UNCHANGED <<stopping, call, crossed>>
    BY <1>2 DEF FireLeft, FireWheel, At
  <2>2. TwoTargets' /\ target'[1] = 0
    <3>1. 1 \in 1..2 /\ TwoTargets
      BY DEF FailsafeInv
    <3> QED BY <2>1, <3>1, OneTarget
  <2>3. CallbackShape'
    BY <2>1 DEF FailsafeInv, CallbackShape
  <2> QED BY <2>1, <2>2, <2>3
          DEF FailsafeInv, TakenBack, HalfStopped, FailsafeIsStopping
<1>3. CASE FireRight
  <2>1. /\ at = "fire right" /\ at' = "ramp"
        /\ target' = [target EXCEPT ![2] = 0]
        /\ UNCHANGED <<stopping, call, crossed>>
    BY <1>3 DEF FireRight, FireWheel, At
  <2>2. TwoTargets' /\ (target[1] = 0 => target' = Zero)
    <3>1. 2 \in 1..2 /\ TwoTargets
      BY DEF FailsafeInv
    <3>2. /\ TwoTargets' /\ target'[2] = 0
          /\ (\A s \in 1..2 : s # 2 => target'[s] = target[s])
          /\ (\A s \in 1..2 : target'[s] = 0) => target' = Zero
      BY <2>1, <3>1, OneTarget
    <3>3. target[1] = 0 => \A s \in 1..2 : target'[s] = 0
      BY <3>2
    <3> QED BY <3>2, <3>3
  <2>3. CallbackShape'
    BY <2>1 DEF FailsafeInv, CallbackShape
  <2> QED BY <2>1, <2>2, <2>3
          DEF FailsafeInv, TakenBack, HalfStopped, FailsafeIsStopping
<1>4. CASE Ramp
  <2>1. /\ at = "ramp" /\ at' = "send"
        /\ stopping' = (stopping /\ ~(wheels' = Zero /\ target = Zero))
        /\ UNCHANGED <<target, call, crossed>>
    BY <1>4 DEF Ramp, At
  <2>2. TwoTargets' /\ CallbackShape'
    BY <2>1 DEF FailsafeInv, TwoTargets, CallbackShape
  <2> QED BY <2>1, <2>2
          DEF FailsafeInv, TakenBack, HalfStopped, FailsafeIsStopping
<1> QED BY <1>1, <1>2, <1>3, <1>4

\* Every step of the robot keeps the invariant.
LEMMA FailsafeStep == FailsafeInv /\ [RobotNext]_robotVars => FailsafeInv'
<1> SUFFICES ASSUME FailsafeInv, [RobotNext]_robotVars PROVE FailsafeInv'
  OBVIOUS
<1>1. CASE UNCHANGED robotVars
  BY <1>1, FailsafeRests DEF robotVars
<1>2. CASE WsConnect \/ WsDisconnect \/ WsData
  BY <1>2, FailsafeEvents
<1>3. CASE Stamp \/ TakeBack \/ CancelFarewell \/ CountIn
             \/ PlanFarewell \/ DelayFarewell \/ AskSound
  BY <1>3, FailsafeWrites
     DEF Stamp, TakeBack, CancelFarewell, CountIn, PlanFarewell,
         DelayFarewell, AskSound
<1>4. CASE WriteLeft \/ WriteRight
  BY <1>4, FailsafeWheels
<1>5. CASE CountOut
  BY <1>5, FailsafeCountsOut
<1>6. CASE Fire \/ FireLeft \/ FireRight \/ Ramp
  BY <1>6, FailsafeFires
<1>7. CASE LoopBegin \/ Failsafe \/ NoRamp \/ Send \/ NoSend
             \/ Farewell \/ Withdraw \/ Tell
  BY <1>7, FailsafeRests
     DEF LoopBegin, Failsafe, NoRamp, Send, NoSend, Farewell,
         Withdraw, Tell, At
<1>8. CASE Battery \/ SoundTask \/ Silence \/ Grace
  BY <1>8, FailsafeRests DEF Battery, SoundTask, Silence, Grace
<1> QED BY <1>1, <1>2, <1>3, <1>4, <1>5, <1>6, <1>7, <1>8
        DEF RobotNext, WsTask, Loop

\* While the failsafe of sound.ino believes that it is stopping the robot, the
\* robot is asked to stand still, unless the failsafe fired in the middle of a
\* callback: for any speeds, slews, commands and number of clients.
THEOREM RobotFailsafeIsStopping == RobotSpec => []FailsafeIsStopping
<1>1. FailsafeInv => FailsafeIsStopping
  BY DEF FailsafeInv
<1> QED BY <1>1, FailsafeInit, FailsafeStep, PTL DEF RobotSpec

-----------------------------------------------------------------------------
(* The clamps of updateRamp and drive never bind: module Robot leaves them *)
(* out                                                                     *)

\* What a clamp to limit leaves as it is.
Within(limit) == -limit..limit

\* A step towards a goal never passes it: it stays where both ends are, comes no
\* farther from the goal, and changes by no more than the step.
LEMMA StepTowardBounds ==
  ASSUME NEW limit \in Nat, NEW cur \in Within(limit),
         NEW goal \in Within(limit), NEW step \in Nat
  PROVE  LET n == StepToward(cur, goal, step)
         IN  /\ n \in Within(limit)
             /\ n - cur \in Within(step)
             /\ cur <= goal => cur <= n /\ n <= goal
             /\ goal <= cur => goal <= n /\ n <= cur
  BY DEF StepToward, Clamp, Within

\* A product grows with its factor.
LEMMA ProductGrows ==
  ASSUME NEW a \in Nat, NEW m \in Nat, NEW b \in Nat, a <= m
  PROVE  a * b <= m * b
<1>1. m = a + (m - a) /\ m - a \in Nat
  OBVIOUS
<1>2. m * b = a * b + (m - a) * b
  BY <1>1, SMT
<1>3. (m - a) * b \in Nat /\ a * b \in Nat /\ m * b \in Nat
  BY <1>1, SMT
<1> QED BY <1>2, <1>3

\* A quotient by b of what is at most h times b is at most h.
LEMMA QuotientBounds ==
  ASSUME NEW b \in Nat \ {0}, NEW h \in Nat, NEW a \in Within(h * b)
  PROVE  Quotient(a, b) \in Within(h)
<1>1. ASSUME NEW c \in Nat, c <= h * b PROVE c \div b \in 0..h
  <2>1. /\ c \div b \in Int /\ c \div b >= 0
        /\ b * (c \div b) <= c
    BY SMT
  <2> DEFINE q == c \div b
  <2>2. q \in Nat /\ b * q <= c
    BY <2>1
  <2>3. q * b <= h * b
    BY <1>1, <2>2
  <2> HIDE DEF q
  <2>4. ASSUME q > h PROVE FALSE
    <3>1. (h + 1) * b <= q * b
      BY <2>2, <2>4, ProductGrows
    <3>2. (h + 1) * b = h * b + b /\ h * b \in Nat
      BY SMT
    <3>3. q * b \in Nat /\ b > 0
      BY <2>2, SMT
    <3> DEFINE x == q * b
               y == h * b
               z == (h + 1) * b
    <3>4. x \in Nat /\ y \in Nat /\ z <= x /\ x <= y /\ z = y + b /\ b > 0
      BY <2>3, <3>1, <3>2, <3>3
    <3> HIDE DEF x, y, z
    <3> QED BY <3>4
  <2> QED BY <2>2, <2>4 DEF q
<1>2. h * b \in Nat
  BY SMT
<1>3. CASE a < 0
  <2>1. -a \in Nat /\ -a <= h * b
    BY <1>2, <1>3 DEF Within
  <2>2. (-a) \div b \in 0..h
    BY <1>1, <2>1
  <2> QED BY <1>3, <2>2 DEF Quotient, Within
<1>4. CASE ~(a < 0)
  <2>1. a \in Nat /\ a <= h * b
    BY <1>2, <1>4 DEF Within
  <2>2. a \div b \in 0..h
    BY <1>1, <2>1
  <2> QED BY <1>4, <2>2 DEF Quotient, Within
<1> QED BY <1>3, <1>4

\* What drive makes of the wheels is within what the hoverboard takes.
LEMMA MixedBounds ==
  ASSUME NEW w \in Wheels
  PROVE  /\ Mixed(w).speed \in Within(HoverMax)
         /\ Mixed(w).steer \in Within(HoverMax)
<1> DEFINE top == 2 * MaxSpeed
<1>1. top \in Nat \ {0} /\ HoverMax \in Nat /\ HoverMax * top \in Nat
  BY RobotAssumption, SMT
<1>2. /\ w[1] + w[2] \in Within(top) /\ w[2] - w[1] \in Within(top)
  BY RobotAssumption DEF Wheels, Within
<1> HIDE DEF top
<1>3. ASSUME NEW d \in Within(top)
      PROVE  Quotient(d * HoverMax, top) \in Within(HoverMax)
  <2>1. d * HoverMax \in Within(HoverMax * top)
    <3>1. CASE d >= 0
      <4>1. d \in Nat /\ d <= top
        BY <1>1, <1>3, <3>1 DEF Within
      <4>2. d * HoverMax <= top * HoverMax
        BY <1>1, <4>1, ProductGrows
      <4>3. d * HoverMax \in Nat /\ top * HoverMax = HoverMax * top
        BY <1>1, <4>1, SMT
      <4> QED BY <1>1, <4>2, <4>3 DEF Within
    <3>2. CASE ~(d >= 0)
      <4>1. -d \in Nat /\ -d <= top /\ d \in Int
        BY <1>1, <1>3, <3>2 DEF Within
      <4>2. (-d) * HoverMax <= top * HoverMax
        BY <1>1, <4>1, ProductGrows
      <4>3. /\ (-d) * HoverMax \in Nat /\ top * HoverMax = HoverMax * top
            /\ d * HoverMax = -((-d) * HoverMax)
        BY <1>1, <4>1, SMT
      <4> QED BY <1>1, <4>2, <4>3 DEF Within
    <3> QED BY <3>1, <3>2
  <2> QED BY <1>1, <2>1, QuotientBounds
<1> QED BY <1>2, <1>3 DEF Mixed, top

\* Targets, wheels and what the hoverboard is sent stay in their ranges, without
\* a clamp.
InRange ==
  /\ target \in Wheels /\ wheels \in Wheels
  /\ \A a \in {"speed", "steer"} :
       cmd[a] \in Within(HoverMax) /\ Mixed(wheels)[a] \in Within(HoverMax)

\* What every step preserves: a callback's move is within the limits too.
DriveInv ==
  /\ target \in Wheels /\ wheels \in Wheels /\ call.move \in Wheels
  /\ DOMAIN cmd = {"speed", "steer"}
  /\ \A a \in {"speed", "steer"} : cmd[a] \in Within(HoverMax)
  /\ call = [writes |-> call.writes, move |-> call.move]

\* It holds at boot.
LEMMA DriveInit == RobotInit => DriveInv
<1>1. <<0, 0>> \in Wheels
  BY RobotAssumption DEF Wheels
<1>2. 0 \in Within(HoverMax)
  BY RobotAssumption DEF Within
<1> QED BY <1>1, <1>2 DEF RobotInit, Zero, Rest, Idle, DriveInv

\* Steps that leave the wheels, their targets and the hoverboard alone.
LEMMA DriveRests ==
  ASSUME DriveInv, UNCHANGED <<target, wheels, cmd>>,
         \/ call' = call
         \/ \E writes : call' = [writes |-> writes, move |-> call.move]
         \/ \E writes : \E move \in Wheels :
              call' = [writes |-> writes, move |-> move]
  PROVE  DriveInv'
  BY DEF DriveInv

\* The write of a callback leaves it or ends it.
LEMMA DriveWrites ==
  ASSUME DriveInv,
         \/ \E name : Write(name)
         \/ CountOut
  PROVE  \E writes : \E move \in Wheels :
           call' = [writes |-> writes, move |-> move]
<1>1. <<0, 0>> \in Wheels
  BY RobotAssumption DEF Wheels
<1>2. \/ call' = [writes |-> <<>>, move |-> <<0, 0>>]
      \/ call' = [call EXCEPT !.writes = Tail(call.writes)]
  BY DEF Write, CountOut, Idle, Zero
<1>3. CASE call' = [writes |-> <<>>, move |-> <<0, 0>>]
  BY <1>1, <1>3
<1>4. CASE call' = [call EXCEPT !.writes = Tail(call.writes)]
  <2>1. call' = [writes |-> Tail(call.writes), move |-> call.move]
    BY <1>4 DEF DriveInv
  <2> QED BY <2>1 DEF DriveInv
<1> QED BY <1>2, <1>3, <1>4

\* A target is set to what a wheel may be asked for.
LEMMA DriveTargets ==
  ASSUME DriveInv, NEW side \in 1..2,
         NEW v \in Within(MaxSpeed), target' = [target EXCEPT ![side] = v]
  PROVE  target' \in Wheels
  BY DEF DriveInv, Wheels, Within

\* Every step keeps it.
LEMMA DriveStep ==
  ASSUME DriveInv, [RobotNext]_robotVars
  PROVE  DriveInv'
<1>0. Zero \in Wheels
  BY RobotAssumption DEF Wheels, Zero
<1>1. CASE UNCHANGED robotVars
  BY <1>1, DriveRests DEF robotVars
<1>2. CASE WsConnect \/ WsDisconnect \/ WsData
  <2>1. PICK writes, move : Event(writes, move) /\ move \in Wheels
    BY <1>0, <1>2, RobotAssumption DEF WsConnect, WsDisconnect, WsData
  <2> QED BY <2>1, DriveRests DEF Event
<1>3. CASE Stamp \/ TakeBack \/ CancelFarewell \/ CountIn
             \/ CountOut \/ PlanFarewell \/ DelayFarewell \/ AskSound
  <2>1. /\ UNCHANGED <<target, wheels, cmd>>
        /\ (\E name : Write(name)) \/ CountOut
    BY <1>3 DEF Stamp, TakeBack, CancelFarewell, CountIn, CountOut,
                PlanFarewell, DelayFarewell, AskSound
  <2> QED BY <2>1, DriveWrites, DriveRests
<1>4. CASE WriteLeft \/ WriteRight
  <2>1. PICK name \in {"left", "right"}, side \in 1..2 :
          WriteWheel(name, side)
    BY <1>4 DEF WriteLeft, WriteRight
  <2>2. /\ Write(name) /\ UNCHANGED <<wheels, cmd>>
        /\ target' = [target EXCEPT ![side] = call.move[side]]
    BY <2>1 DEF WriteWheel
  <2>3. call.move[side] \in Within(MaxSpeed)
    BY DEF DriveInv, Wheels, Within
  <2>4. target' \in Wheels
    BY <2>2, <2>3, DriveTargets
  <2>5. PICK move \in Wheels :
          \E writes : call' = [writes |-> writes, move |-> move]
    <3>1. \E n : Write(n)
      BY <2>2
    <3>2. \E writes : \E move \in Wheels :
            call' = [writes |-> writes, move |-> move]
      BY <3>1, DriveWrites
    <3> QED BY <3>2
  <2> QED BY <2>2, <2>4, <2>5 DEF DriveInv
<1>5. CASE FireLeft \/ FireRight
  <2>1. PICK side \in 1..2 :
          /\ target' = [target EXCEPT ![side] = 0]
          /\ UNCHANGED <<wheels, cmd, call>>
    <3>1. 1 \in 1..2 /\ 2 \in 1..2
      OBVIOUS
    <3> QED BY <1>5, <3>1, Zenon DEF FireLeft, FireRight, FireWheel
  <2>2. 0 \in Within(MaxSpeed)
    BY RobotAssumption DEF Within
  <2>3. target' \in Wheels
    BY <2>1, <2>2, DriveTargets
  <2> QED BY <2>1, <2>3 DEF DriveInv
<1>6. CASE Ramp
  <2>1. /\ wheels' = [s \in 1..2 |-> StepToward(wheels[s], target[s], 1)]
        /\ UNCHANGED <<target, cmd, call>>
    BY <1>6 DEF Ramp
  <2>2. ASSUME NEW s \in 1..2
        PROVE  StepToward(wheels[s], target[s], 1) \in Within(MaxSpeed)
    <3>1. /\ wheels[s] \in Within(MaxSpeed) /\ target[s] \in Within(MaxSpeed)
          /\ MaxSpeed \in Nat /\ 1 \in Nat
      BY RobotAssumption DEF DriveInv, Wheels, Within
    <3> QED BY <3>1, StepTowardBounds
  <2>3. wheels' \in Wheels
    BY <2>1, <2>2 DEF Wheels, Within
  <2> QED BY <2>1, <2>3 DEF DriveInv
<1>7. CASE Send
  <2>1. /\ cmd' = [a \in {"speed", "steer"} |->
                     StepToward(cmd[a], Mixed(wheels)[a], SlewStep)]
        /\ UNCHANGED <<target, wheels, call>>
    BY <1>7 DEF Send
  <2>2. ASSUME NEW a \in {"speed", "steer"}
        PROVE  StepToward(cmd[a], Mixed(wheels)[a], SlewStep)
                 \in Within(HoverMax)
    <3>1. /\ cmd[a] \in Within(HoverMax)
          /\ Mixed(wheels)[a] \in Within(HoverMax)
          /\ HoverMax \in Nat /\ SlewStep \in Nat
      BY RobotAssumption, MixedBounds DEF DriveInv
    <3> QED BY <3>1, StepTowardBounds
  <2> QED BY <2>1, <2>2 DEF DriveInv
<1>8. CASE Fire \/ LoopBegin \/ Failsafe \/ NoRamp \/ NoSend
             \/ Farewell \/ Withdraw \/ Tell
  BY <1>8, DriveRests
     DEF Fire, LoopBegin, Failsafe, NoRamp, NoSend, Farewell,
         Withdraw, Tell
<1>9. CASE Battery \/ SoundTask \/ Silence \/ Grace
  BY <1>9, DriveRests DEF Battery, SoundTask, Silence, Grace
<1> QED BY <1>1, <1>2, <1>3, <1>4, <1>5, <1>6, <1>7, <1>8, <1>9
        DEF RobotNext, WsTask, Loop

\* The clamps in drive and updateRamp never bind: every target, wheel and
\* hoverboard command stays in its range by the arithmetic alone, for any limits
\* and any moves within them (sound.ino:271 to 285 and 307 to 322).
THEOREM ClampsNeverBind == RobotSpec => []InRange
<1>1. RobotInit => DriveInv
  BY DriveInit
<1>2. DriveInv /\ [RobotNext]_robotVars => DriveInv'
  BY DriveStep
<1>3. DriveInv => InRange
  BY MixedBounds DEF DriveInv, InRange
<1> QED BY <1>1, <1>2, <1>3, PTL DEF RobotSpec
=============================================================================
