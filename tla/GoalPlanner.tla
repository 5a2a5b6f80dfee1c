---------------------------- MODULE GoalPlanner ----------------------------
(***************************************************************************)
(* The goal callback of ik_fcl_ompl_planner.cpp, which the planner's only  *)
(* thread runs from the goal to its trajectory: the candidates (the goal   *)
(* itself, then the goal drawn back towards the shoulder step by step),    *)
(* the seeds of inverse kinematics for each, OMPL, the times of the        *)
(* waypoints and the checks before publication.                            *)
(*                                                                         *)
(* TRAC-IK, OMPL and the geometry are seen through their verdicts.  What a *)
(* posture of the robot touches is a set of pairs of links, positions of   *)
(* joints are integers, lengths are in steps of fallback_step.             *)
(***************************************************************************)
EXTENDS Integers, Sequences, FiniteSets

CONSTANTS
  Retractions,    \* max_retract_step: fallback_max_retraction / fallback_step
  Distances,      \* distances of goals from the shoulder
  TooClose,       \* the least distance that has an adaptive orientation
  RandomTries,    \* ik_random_seed_tries
  Budget,         \* fallback_total_timeout_s
  GoalWait,       \* the wait for the transform of the goal (0.5 s)
  LinkWait,       \* the wait for the transform of another link (0.2 s)
  IkTime,         \* ik_timeout, per seed
  SolveTime,      \* planning_timeout and simplify_timeout, per candidate
  Chain,          \* base_link and the links of the arm, in order
  SkipPairs,      \* collision_skip_pairs, as configured
  Body,           \* the other links with a collision geometry
  Postures,       \* what the robot may touch: sets of pairs of links
  Joints,         \* the arm's joints
  Lower, Upper,   \* their limits
  Angles,         \* the joint angles of states OMPL may return
  Slow,           \* per joint, time for a unit: 1 / (velocity limit * scale)
  MinStep,        \* min_time_step
  Grain,          \* the nanosecond, to which time_from_start is rounded
  MaxPoints       \* bound: waypoints of a path

ASSUME PlannerAssumption ==
  /\ Retractions \in Nat /\ RandomTries \in Nat /\ Budget \in Nat
  /\ IkTime \in Nat /\ SolveTime \in Nat /\ GoalWait \in Nat /\ LinkWait \in Nat
  /\ Distances \subseteq Nat /\ TooClose \in Nat
  /\ IsFiniteSet(Joints) /\ Angles \subseteq [Joints -> Int]
  /\ Lower \in Int /\ Upper \in Int /\ Lower <= Upper
  /\ Slow \in [Joints -> Nat]
  /\ MinStep \in Nat /\ Grain \in Nat \ {0} /\ Grain <= MinStep
  /\ MaxPoints \in Nat

VARIABLES
  adaptive,       \* adaptive_orientation_enabled
  collision_detection_enabled,
  pc,             \* where the callback is
  shapes,         \* the links in link_collisions
  here,           \* what the start state touches
  last,           \* the number of candidates
  k, tries,       \* the candidate, the seeds tried for it
  waited,         \* for transforms, before fallback_start_time
  elapsed,        \* since fallback_start_time
  found,          \* what the accepted solution touches
  path, clock,    \* the waypoints so far, cumulative_time
  sent            \* the trajectory published for this goal

search == <<here, last, k, tries, waited, elapsed, found>>
setup == <<adaptive, collision_detection_enabled, shapes>>
vars == <<pc, setup, search, path, clock, sent>>

Nothing == [points |-> <<>>, touches |-> {}]

Init ==
  /\ pc = "start" /\ adaptive \in BOOLEAN /\ collision_detection_enabled \in BOOLEAN
  /\ shapes = {} /\ here = {} /\ found = {}
  /\ last = 0 /\ k = 1 /\ tries = 0 /\ waited = 0 /\ elapsed = 0
  /\ path = <<>> /\ clock = 0 /\ sent = Nothing

PlanningLinks == {Chain[i] : i \in 2 .. Len(Chain)}

\* A link whose mesh does not load is left out with a warning.
CollisionObjects ==
  \E unloaded \in SUBSET PlanningLinks :
     shapes' = {Chain[i] : i \in 1 .. Len(Chain)} \ unloaded

\* init(): without a robot description, a chain or a shoulder the process ends.
Construct ==
  /\ pc = "start"
  /\ \/ pc' = "dead" /\ UNCHANGED shapes
     \/ /\ pc' = "idle"
        /\ IF collision_detection_enabled THEN CollisionObjects ELSE UNCHANGED shapes
  /\ UNCHANGED <<adaptive, collision_detection_enabled>>
  /\ UNCHANGED <<search, path, clock, sent>>
-----------------------------------------------------------------------------
(* Collision checking.                                                     *)

Pair(a, b) == {a, b}

Adjacent == {Pair(Chain[i], Chain[i + 1]) : i \in 1 .. Len(Chain) - 1}

Skipped == Adjacent \cup SkipPairs

\* The mutant: the torso is not checked.
CheckedArmOnly == {Pair(a, b) : a, b \in PlanningLinks \cap shapes} \ Skipped

CheckedPairs == {Pair(a, b) : a \in PlanningLinks \cap shapes, b \in shapes} \ Skipped

IsInCollision(posture) == collision_detection_enabled /\ posture \cap CheckedPairs # {}
-----------------------------------------------------------------------------
(* The candidates.                                                         *)

\* With adaptive orientation a candidate too close to the shoulder has none,
\* and ends the list.
Candidates(d) ==
  IF adaptive THEN IF d - Retractions >= TooClose THEN Retractions + 1
                   ELSE d - TooClose + 1
  ELSE Retractions + 1

\* A goal of another frame waits for its transform, a shape off the chain for the
\* one of its link, before fallback_start_time.
Await ==
  /\ waited' \in 0 .. GoalWait + (IF shapes \subseteq PlanningLinks THEN 0 ELSE LinkWait)
  /\ elapsed' = 0

\* There is no transform, or no direction from the shoulder.
GoalAborted ==
  /\ pc = "idle" /\ Await /\ sent' = Nothing
  /\ UNCHANGED <<pc, setup, here, last, k, tries, found, path, clock>>

GoalPose ==
  /\ pc = "idle" /\ Await
  /\ \E d \in Distances, posture \in Postures :
        /\ adaptive => d >= TooClose
        /\ here' = posture
        /\ last' = Candidates(d)
  /\ pc' = "next"
  /\ k' = 1 /\ tries' = 0 /\ found' = {}
  /\ path' = <<>> /\ clock' = 0 /\ sent' = Nothing
  /\ UNCHANGED setup

NoTimeout == FALSE

OutOfTime == ~adaptive /\ k > 1 /\ Budget > 0 /\ elapsed > Budget

NextCandidate ==
  /\ pc = "next"
  /\ pc' = IF k > last \/ OutOfTime THEN "idle" ELSE "ik"
  /\ tries' = 0
  /\ UNCHANGED <<setup, here, last, k, waited, elapsed, found, path, clock, sent>>

GiveUpCandidate == pc' = "next" /\ k' = k + 1

\* The current joint angles, zeros, then random angles as seeds.
Seeds == 2 + RandomTries

\* No solution for this seed, or one that is in collision
TryIk ==
  /\ pc = "ik"
  /\ elapsed' \in elapsed .. elapsed + IkTime
  /\ tries' = tries + 1
  /\ IF tries' < Seeds THEN UNCHANGED <<pc, k>> ELSE GiveUpCandidate
  /\ UNCHANGED <<setup, here, last, waited, found, path, clock, sent>>

AcceptIk ==
  /\ pc = "ik"
  /\ elapsed' \in elapsed .. elapsed + IkTime
  /\ tries' = tries + 1
  /\ found' \in {p \in Postures : ~IsInCollision(p)}
  /\ pc' = "ompl"
  /\ UNCHANGED <<setup, here, last, k, waited, path, clock, sent>>
-----------------------------------------------------------------------------
(* OMPL: it checks the start and the goal, and keeps within the limits.     *)

RoundedToMillis(t) == t - (t % (4 * Grain))

\* A time as time_from_start keeps it
Rounded(t) == t - (t % Grain)

SolveFails ==
  /\ pc = "ompl"
  /\ elapsed' \in elapsed .. elapsed + SolveTime
  /\ GiveUpCandidate
  /\ UNCHANGED <<setup, here, last, tries, waited, found, path, clock, sent>>

\* An exact solution, simplified, or an approximate one, which the code does not
\* tell from it: the path then ends elsewhere, at a posture that is free.
Solve ==
  /\ pc = "ompl"
  /\ ~IsInCollision(here)
  /\ elapsed' \in elapsed .. elapsed + SolveTime
  /\ found' \in {found} \cup {p \in Postures : ~IsInCollision(p)}
  /\ \E q \in Angles : path' = <<[q |-> q, at |-> Rounded(MinStep)]>>
  /\ clock' = MinStep
  /\ pc' = "timing"
  /\ UNCHANGED <<setup, here, last, k, tries, waited, sent>>
-----------------------------------------------------------------------------
(* The times of the waypoints, and the checks before publication.           *)

Apart(a, b, j) == IF a[j] >= b[j] THEN a[j] - b[j] ELSE b[j] - a[j]

\* The least time of a segment: at no more than the scaled velocity limits.
Needed(a, b) ==
  LET times == {MinStep} \cup {Apart(a, b, j) * Slow[j] : j \in Joints}
  IN  CHOOSE t \in times : \A u \in times : u <= t

Waypoint ==
  /\ pc = "timing" /\ Len(path) < MaxPoints
  /\ \E q \in Angles :
        LET t == Needed(path[Len(path)].q, q)
        IN  /\ path' = Append(path, [q |-> q, at |-> Rounded(clock + t)])
            /\ clock' = clock + t
  /\ UNCHANGED <<pc, setup, search, sent>>

Clamp(q) == [j \in Joints |-> IF q[j] < Lower THEN Lower
                              ELSE IF q[j] > Upper THEN Upper ELSE q[j]]

Clamped(p) == [i \in DOMAIN p |-> [q |-> Clamp(p[i].q), at |-> p[i].at]]

\* dt of the segment that ends at i
Segment(p, i) == LET dt == p[i].at - p[i - 1].at
                 IN  IF dt <= 0 THEN MinStep ELSE dt

TooFast(p, i) == Needed(p[i - 1].q, p[i].q) > Segment(p, i) + Grain

\* All later waypoints move with a segment that is stretched.
Stretched(p) ==
  LET delay[i \in DOMAIN p] ==
        IF i = 1 THEN 0
        ELSE delay[i - 1] + IF TooFast(p, i)
                            THEN Needed(p[i - 1].q, p[i].q) - Segment(p, i) ELSE 0
  IN  [i \in DOMAIN p |-> [p[i] EXCEPT !.at = @ + delay[i]]]

\* At most 10^-6 above the velocity, so that nanoseconds do not count.
WithinVelocity(p) ==
  \A i \in 2 .. Len(p) : \A j \in Joints :
     Apart(p[i - 1].q, p[i].q, j) * Slow[j] < Segment(p, i) + 2 * Grain

Publish ==
  /\ pc = "timing"
  /\ LET fixed == Stretched(Clamped(path))
     IN  IF WithinVelocity(fixed)
         THEN /\ sent' = [points |-> fixed, touches |-> found]
              /\ pc' = "idle" /\ UNCHANGED k
         ELSE GiveUpCandidate /\ UNCHANGED sent
  /\ UNCHANGED <<setup, here, last, tries, waited, elapsed, found, path, clock>>

Next == \/ Construct \/ GoalAborted \/ GoalPose \/ NextCandidate \/ TryIk \/ AcceptIk
        \/ SolveFails \/ Solve \/ Waypoint \/ Publish

Spec == Init /\ [][Next]_vars
-----------------------------------------------------------------------------
OneCandidate == Seeds * IkTime + SolveTime

Longest ==
  GoalWait + LinkWait
  + IF adaptive \/ Budget = 0 THEN (Retractions + 1) * OneCandidate ELSE Budget + OneCandidate

\* The callback, which keeps the planner from reading joint states and other
\* goals, lasts at most the waits for transforms, the budget and one candidate;
\* with adaptive orientation the budget does not count, and it may last for all
\* candidates.  The press node waits for five seconds.
BlockedAtMost == waited + elapsed <= Longest

\* What the checks before publication should repair does not occur: no segment
\* is faster than the limits by more than the rounding of its time stamps, also
\* after clamping.
TimesNeedNoRepair ==
  \A i \in 2 .. Len(path) : path[i].at > path[i - 1].at /\ ~TooFast(Clamped(path), i)

\* With collision detection on, a published motion ends where no link of the arm
\* whose geometry was loaded touches another or the torso, its neighbours in the
\* chain and the configured pairs excepted.
EndsClear ==
  collision_detection_enabled =>
     \A a \in PlanningLinks \cap shapes, b \in shapes :
        Pair(a, b) \in sent.touches => Pair(a, b) \in Skipped

\* "We want to check: arm-vs-arm, arm-vs-body": nor any link of the body.
EndsClearOfBody ==
  collision_detection_enabled =>
     \A a \in PlanningLinks \cap shapes, b \in Body : Pair(a, b) \notin sent.touches
=============================================================================
