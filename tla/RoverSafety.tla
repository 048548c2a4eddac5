----------------------------- MODULE RoverSafety -----------------------------
(***************************************************************************)
(* lib/Safety of the rover: the watchdog that loop() runs in every pass    *)
(* (src/rover.cpp), before anything that drives.  It weighs the troubles   *)
(* it is shown into a level, and takes the level over: a worse one at      *)
(* once, a better one only when it has lasted.                             *)
(*                                                                         *)
(* What is measured is known by how it compares with the thresholds of     *)
(* RtkConfig.h.  Of the reasons only pvt_stale decides anything.           *)
(***************************************************************************)
EXTENDS Integers, FiniteSets, FiniteSetsExt

CONSTANTS
  Stable,      \* FIELD_RECOVERY_STABLE_MS
  SkyHold,     \* FIELD_SKY_BAD_HOLD_MS
  MaxGap,      \* bound: the time from one tick to the next
  ClockMod     \* millis() comes round

ASSUME SafetyAssumption ==
  /\ Stable \in Nat \ {0} /\ SkyHold \in Nat \ {0} /\ MaxGap \in Nat \ {0}
  /\ ClockMod \in Nat /\ ClockMod > Stable + SkyHold + MaxGap

VARIABLES
  mode,      \* _mode
  level,     \* _level
  stale,     \* _reason is pvt_stale
  evaluated, \* _evaluated
  now,       \* the millis() of the last tick
  recovery,  \* _recoverySinceMs, 0 for none
  sky,       \* _skyBadSinceMs, 0 for none
  healthy,   \* history: for how long the candidates have permitted motion
  dark,      \* history: for how long FIELD motion has gone on under a bad sky
  fresh      \* history: the last tick was the fresh start of an alignment

vars == <<mode, level, stale, evaluated, now, recovery, sky, healthy, dark, fresh>>

OK == 0
DEGRADED == 1
HOLD == 2
ESTOP == 3

NotYet == -1

\* begin.
Init ==
  /\ mode = "NORMAL"
  /\ level = ESTOP /\ stale = FALSE /\ evaluated = FALSE
  /\ now = 0 /\ recovery = 0 /\ sky = 0
  /\ healthy = NotYet /\ dark = NotYet /\ fresh = FALSE

-----------------------------------------------------------------------------
(* What tick makes of its SafetyInput                                      *)

\* An age or a spread is late, old or lost by the thresholds that it exceeds.
Severity ==
  LET normal ==
        [hardware |-> ESTOP, feedback |-> ESTOP, zone |-> ESTOP,
         link |-> ESTOP, silence |-> ESTOP,
         pvtLate |-> ESTOP, pvtOld |-> ESTOP, pvtLost |-> ESTOP,
         positionLate |-> HOLD, positionOld |-> HOLD, positionLost |-> HOLD,
         headingLate |-> HOLD, headingOld |-> HOLD, headingLost |-> HOLD,
         rtcm |-> ESTOP, imu |-> ESTOP, unready |-> HOLD,
         jumpsFew |-> OK, jumps |-> HOLD, noFix |-> HOLD,
         fixedWide |-> HOLD, fixedFar |-> HOLD,
         float |-> DEGRADED, floatWide |-> HOLD, floatFar |-> HOLD]
  IN  [NORMAL |-> normal,
       FIELD |-> [normal EXCEPT
         !.pvtLate = DEGRADED, !.pvtOld = HOLD,
         !.positionLate = OK, !.positionLost = ESTOP,
         !.headingLate = OK, !.headingLost = ESTOP,
         !.imu = OK, !.jumpsFew = HOLD,
         !.fixedWide = DEGRADED, !.floatWide = DEGRADED]]

Troubles == DOMAIN Severity.NORMAL

PvtTroubles == {"pvtLate", "pvtOld", "pvtLost"}
FixTroubles == {"noFix", "fixedWide", "fixedFar", "float", "floatWide", "floatFar"}

\* The troubles that matter to a motion, a set of what asks for it: a drive of
\* the route, a command of the serial console, an alignment or turning wheels.
Watched(m, motion) ==
  LET nav == "nav" \in motion
      align == "align" \in motion
      serial == "serial" \in motion
  IN  {"hardware"}
      \cup (IF motion = {} THEN {}
            ELSE PvtTroubles
                 \cup {"feedback", "positionLate", "positionOld", "positionLost"})
      \cup (IF motion = {} \/ (m = "FIELD" /\ serial) THEN {} ELSE {"link"})
      \cup (IF motion = {} \/ align THEN {}
            ELSE {"headingLate", "headingOld", "headingLost"})
      \cup (IF nav THEN {"zone", "jumpsFew", "jumps"} ELSE {})
      \cup (IF nav /\ ~(m = "FIELD" /\ serial) THEN {"silence"} ELSE {})
      \cup (IF nav /\ ~align THEN {"imu", "unready"} ELSE {})
      \cup (IF nav \/ align THEN {"rtcm"} ELSE {})
      \cup (IF nav \/ serial THEN FixTroubles ELSE {})

\* Between equals the reason that is looked at last stays.
Earlier == {"hardware", "feedback", "zone", "link", "silence"} \cup PvtTroubles

\* A candidate but for the sky: its level and whether its reason is pvt_stale.
Reading(m, in) ==
  LET weight == Severity[m]
      seen == in.troubles \cap Watched(m, in.motion)
      worst == Max({OK} \cup {weight[t] : t \in seen})
      reasons == {t \in seen : weight[t] = worst}
  IN  [level |-> worst,
       stale |-> /\ worst > OK
                 /\ reasons \subseteq Earlier
                 /\ reasons \cap PvtTroubles # {},
       moving |-> in.motion # {}, fresh |-> in.fresh]

\* rover.cpp: a fresh FIXED position at the start of an alignment, wheels still.
FreshAtStart(in) ==
  /\ "align" \in in.motion /\ "motor" \notin in.motion
  /\ in.troubles \cap (PvtTroubles \cup FixTroubles) = {}

\* Bound: two troubles at once.
Inputs ==
  {in \in [motion : SUBSET {"nav", "serial", "align", "motor"},
           troubles : {{}} \cup {{t, u} : t, u \in Troubles},
           fresh : BOOLEAN] :
     in.fresh => FreshAtStart(in)}

NormalReadings == {Reading("NORMAL", in) : in \in Inputs}
FieldReadings == {Reading("FIELD", in) : in \in Inputs}

-----------------------------------------------------------------------------
(* The actions                                                             *)

SetMode ==
  /\ mode' \in {"NORMAL", "FIELD"}
  /\ evaluated' = FALSE
  /\ recovery' = 0 /\ sky' = 0 /\ dark' = NotYet
  /\ UNCHANGED <<level, stale, now, healthy, fresh>>

Since(start, t) == (t - start) % ClockMod

\* Mutant: the start of a bad sky is not kept.
SkySinceNow(bad, t) == IF mode = "FIELD" /\ bad THEN t ELSE 0

\* In FIELD a bad sky has to last, and a start at 0 is taken for none.
SkySince(bad, t) ==
  IF mode = "FIELD" /\ bad
  THEN IF sky = 0 THEN t ELSE sky
  ELSE 0

SkyHolds(bad, t) ==
  bad /\ (mode = "FIELD" => Since(SkySince(bad, t), t) > SkyHold)

\* Sky is looked at after PVT, and its reason is another one.
Candidate(r, bad, t) ==
  IF SkyHolds(bad, t) /\ r.level <= HOLD
  THEN [level |-> HOLD, stale |-> FALSE]
  ELSE [level |-> r.level, stale |-> r.stale]

\* The fresh position that an alignment begins with ends a PVT that was stale.
Freshens(r, c) ==
  r.fresh /\ level >= HOLD /\ stale /\ c.level <= DEGRADED

\* Everything but what permits motion again, or full speed, is taken at once.
AtOnce(r, c) ==
  \/ ~evaluated
  \/ Freshens(r, c)
  \/ c.level >= level
  \/ c.level = HOLD

\* changeLevel.
Settle(c) == level' = c.level /\ stale' = c.stale /\ recovery' = 0

\* Mutant: a level that stays the same leaves the recovery's start alone.
RecoverThroughRelapse(r, c, t) ==
  LET start == IF recovery = 0 THEN t ELSE recovery
  IN  IF c.level = level /\ evaluated
        THEN stale' = c.stale /\ UNCHANGED <<level, recovery>>
      ELSE IF AtOnce(r, c) \/ Since(start, t) >= Stable THEN Settle(c)
      ELSE recovery' = start /\ UNCHANGED <<level, stale>>

\* Mutant: a recovery that has to wait begins anew with every tick.
RecoverAnew(r, c, t) ==
  IF AtOnce(r, c) THEN Settle(c)
  ELSE recovery' = t /\ UNCHANGED <<level, stale>>

\* applyCandidate.
Recover(r, c, t) ==
  LET start == IF recovery = 0 THEN t ELSE recovery
  IN  IF AtOnce(r, c) \/ Since(start, t) >= Stable THEN Settle(c)
      ELSE recovery' = start /\ UNCHANGED <<level, stale>>

\* How long something has lasted, when it does and d has passed.
Lasted(lasts, age, d) ==
  IF ~lasts THEN NotYet ELSE IF age = NotYet THEN 0 ELSE age + d

Tick(d, r, bad) ==
  LET t == (now + d) % ClockMod
      c == Candidate(r, bad, t)
  IN  /\ now' = t
      /\ sky' = SkySince(bad, t)
      /\ Recover(r, c, t)
      /\ evaluated' = TRUE
      /\ healthy' = Min({Stable, Lasted(c.level <= DEGRADED, healthy, d)})
      /\ dark' = Lasted(mode = "FIELD" /\ bad, dark, d)
      /\ dark' < ClockMod   \* bound: the sky is not bad for 49 days
      /\ fresh' = r.fresh
      /\ UNCHANGED mode

\* The sky matters to every motion.
Ticks(gaps) ==
  \E r \in IF mode = "FIELD" THEN FieldReadings ELSE NormalReadings :
    \E d \in gaps, bad \in IF r.moving THEN BOOLEAN ELSE {FALSE} : Tick(d, r, bad)

Next == SetMode \/ Ticks(0..MaxGap)

Spec == Init /\ [][Next]_vars

\* loop goes on, and so does the clock.
FairSpec == Spec /\ WF_vars(Ticks(1..MaxGap))

-----------------------------------------------------------------------------
(* Properties                                                              *)

\* Motion that was not permitted is permitted again only after the candidates
\* have permitted it for all of the two seconds, whatever came in between: the
\* first tick of a mode, and the fresh position that an alignment begins with,
\* are the only ones that do not wait (Safety.cpp:70 to 118).
RecoveryIsEarned ==
  [][(level >= HOLD /\ level' <= DEGRADED)
       => \/ healthy' >= Stable
          \/ ~evaluated
          \/ stale /\ fresh']_vars

\* FIELD motion does not go on under a sky that has been bad for longer than it
\* may be, by more than the tick it begins with (Safety.cpp:195 to 206).
SkyIsHeld ==
  (mode = "FIELD" /\ dark > SkyHold + MaxGap) => level >= HOLD

\* Candidates that permit motion for good let the robot move again, however they
\* change between full and reduced speed (Safety.cpp:103 to 117).
RecoveryComes ==
  <>[](healthy # NotYet) => []<>(level <= DEGRADED)

\* What Safety.cpp:103 says: motion is permitted again after two seconds.  A mode
\* that is given again, the same one even, permits it at once.
HoldWaits ==
  [][(level = HOLD /\ ~stale /\ level' <= DEGRADED) => healthy' >= Stable]_vars

=============================================================================
