------------------------- MODULE GoalPlannerProofs -------------------------
(***************************************************************************)
(* Proofs about the planner's goal callback, for every number of           *)
(* candidates and seeds, every budget, every arm and every path.           *)
(*                                                                         *)
(* CountInv bounds the time spent by the candidates given up and the seeds *)
(* tried.  TimeInv says how far the stamps of two waypoints are apart: the *)
(* least time of the segment, less than a grain more or less.              *)
(***************************************************************************)
EXTENDS GoalPlanner, FiniteSetTheorems, TLAPS

Points == [q : Angles, at : Int]

TypeOK ==
  /\ pc \in {"start", "dead", "idle", "next", "ik", "ompl", "timing"}
  /\ adaptive \in BOOLEAN
  /\ last \in Nat /\ k \in Nat \ {0} /\ tries \in Nat
  /\ waited \in Nat /\ waited <= GoalWait + LinkWait /\ elapsed \in Nat
  /\ path \in Seq(Points) /\ clock \in Int
  /\ pc = "timing" => path # <<>>

CountInv ==
  /\ last <= Retractions + 1
  /\ k <= last + 1
  /\ pc \in {"ik", "ompl", "timing"} => k <= last
  /\ pc = "ik" => tries < Seeds
  /\ pc = "ompl" => tries <= Seeds
  /\ pc = "next" => elapsed <= (k - 1) * OneCandidate
  /\ pc = "ik" => elapsed <= (k - 1) * OneCandidate + tries * IkTime
  /\ pc = "ompl" => elapsed <= (k - 1) * OneCandidate + tries * IkTime
  /\ pc = "timing" => elapsed <= k * OneCandidate
  /\ pc \in {"start", "dead", "idle"} => elapsed <= (Retractions + 1) * OneCandidate

BudgetInv ==
  ~adaptive /\ Budget > 0 =>
     /\ elapsed <= Budget + OneCandidate
     /\ pc = "next" /\ k = 1 => elapsed = 0
     /\ pc \in {"ik", "ompl"} => elapsed <= Budget + tries * IkTime

TimeInv ==
  /\ pc = "timing" => path[Len(path)].at = Rounded(clock)
  /\ \A i \in 2 .. Len(path) :
        path[i].at - path[i - 1].at > Needed(path[i - 1].q, path[i].q) - Grain

\* From the solution that is accepted to the trajectory that is published, what
\* the arm touches at its end was checked.
ClearInv ==
  /\ pc \in {"ompl", "timing"} => ~IsInCollision(found)
  /\ ~IsInCollision(sent.touches)
  /\ pc = "start" => sent = Nothing
-----------------------------------------------------------------------------
(* Arithmetic.                                                             *)

\* What the stamps lose: less than a grain.
LEMMA RoundedFacts ==
  ASSUME NEW t \in Int
  PROVE  /\ Rounded(t) \in Int
         /\ Rounded(t) <= t
         /\ t - Grain < Rounded(t)
BY PlannerAssumption DEF Rounded

LEMMA RoundedSum ==
  ASSUME NEW c \in Int, NEW t \in Int
  PROVE  Rounded(c + t) \in Int /\ c + t - Grain < Rounded(c + t)
BY PlannerAssumption DEF Rounded

LEMMA Products ==
  ASSUME NEW a \in Nat, NEW b \in Nat
  PROVE  a * b \in Nat /\ (a + 1) * b = a * b + b
OBVIOUS

LEMMA ProductMonotone ==
  ASSUME NEW a \in Nat, NEW b \in Nat, NEW c \in Nat, a <= b
  PROVE  a * c <= b * c
<1> DEFINE d == b - a
<1>1. d \in Nat /\ b = a + d
  OBVIOUS
<1>2. b * c = a * c + d * c
  BY <1>1
<1>3. d * c \in Nat /\ a * c \in Nat
  BY <1>1
<1> QED BY <1>2, <1>3

LEMMA Times ==
  /\ Seeds \in Nat \ {0} /\ OneCandidate \in Nat
  /\ OneCandidate = Seeds * IkTime + SolveTime
  /\ \A n \in Nat : n <= Seeds => n * IkTime \in Nat
                                  /\ n * IkTime + SolveTime <= OneCandidate
                                  /\ (n + 1) * IkTime = n * IkTime + IkTime
<1>1. Seeds \in Nat \ {0}
  BY PlannerAssumption DEF Seeds
<1>2. Seeds * IkTime \in Nat /\ SolveTime \in Nat /\ IkTime \in Nat
  BY <1>1, PlannerAssumption, Products
<1>3. OneCandidate \in Nat /\ OneCandidate = Seeds * IkTime + SolveTime
  BY <1>2 DEF OneCandidate
<1>4. ASSUME NEW n \in Nat, n <= Seeds
      PROVE  n * IkTime \in Nat /\ n * IkTime + SolveTime <= OneCandidate
             /\ (n + 1) * IkTime = n * IkTime + IkTime
  <2>1. n * IkTime <= Seeds * IkTime
    BY <1>1, <1>2, <1>4, ProductMonotone
  <2>2. n * IkTime \in Nat /\ (n + 1) * IkTime = n * IkTime + IkTime
    BY <1>2, Products
  <2> QED BY <1>2, <1>3, <2>1, <2>2
<1> QED BY <1>1, <1>3, <1>4

\* A finite set of integers has a greatest element: were there sets without one,
\* the smallest of them would give one when an element is taken out.
LEMMA FiniteMaximum ==
  ASSUME NEW S \in SUBSET Int, IsFiniteSet(S), S # {}
  PROVE  \E m \in S : \A x \in S : x <= m
<1> DEFINE Bounded(T) == \E m \in T : \A x \in T : x <= m
           Bad == {T \in SUBSET S : T # {} /\ ~Bounded(T)}
<1>1. SUFFICES ASSUME Bad # {} PROVE FALSE
  <2>1. S \notin Bad
    BY <1>1
  <2> QED BY <2>1
<1>2. IsWellFoundedOn(StrictSubsetOrdering(S), SUBSET S)
  BY FS_StrictSubsetOrderingWellFounded, FS_FiniteSubsetsOfFinite
<1>3. Bad \subseteq SUBSET S
  OBVIOUS
<1>4. PICK T \in Bad : \A V \in Bad : ~(<<V, T>> \in StrictSubsetOrdering(S))
  <2> HIDE DEF Bad
  <2> QED BY <1>1, <1>2, <1>3, WFMin
<1>5. T \in SUBSET S /\ T # {} /\ ~Bounded(T)
  BY <1>4
<1>6. PICK x \in T : TRUE
  BY <1>5
<1> DEFINE U == T \ {x}
<1>7. U \in SUBSET S /\ U \subseteq T /\ U # T
  BY <1>5, <1>6
<1>8. U \notin Bad
  <2>1. <<U, T>> \in StrictSubsetOrdering(S)
    BY <1>5, <1>7 DEF StrictSubsetOrdering
  <2> QED BY <1>4, <2>1
<1>9. CASE U = {}
  <2>1. T = {x}
    BY <1>6, <1>9
  <2>2. x \in Int
    BY <1>5, <1>6
  <2>3. Bounded(T)
    BY <2>1, <2>2
  <2> QED BY <1>5, <2>3
<1>10. CASE U # {}
  <2>1. PICK m \in U : \A y \in U : y <= m
    BY <1>7, <1>8, <1>10
  <2>2. m \in Int /\ x \in Int /\ m \in T /\ T \subseteq Int
    BY <1>5, <1>6, <2>1
  <2>3. CASE x <= m
    <3>1. \A y \in T : y <= m
      BY <2>1, <2>3
    <3> QED BY <1>5, <2>2, <3>1
  <2>4. CASE m <= x
    <3>1. \A y \in T : y <= x
      BY <2>1, <2>2, <2>4
    <3> QED BY <1>5, <1>6, <3>1
  <2> QED BY <2>2, <2>3, <2>4
<1> QED BY <1>9, <1>10
-----------------------------------------------------------------------------
(* Segments.                                                               *)

LEMMA ApartFacts ==
  ASSUME NEW a \in [Joints -> Int], NEW b \in [Joints -> Int], NEW j \in Joints
  PROVE  Apart(a, b, j) \in Nat /\ Apart(a, b, j) * Slow[j] \in Nat
<1>1. Apart(a, b, j) \in Nat
  BY DEF Apart
<1>2. Slow[j] \in Nat
  BY PlannerAssumption
<1> QED BY <1>1, <1>2, Products

\* Needed is the least time that suffices for every joint.
LEMMA NeededFacts ==
  ASSUME NEW a \in [Joints -> Int], NEW b \in [Joints -> Int]
  PROVE  /\ Needed(a, b) \in Nat
         /\ MinStep <= Needed(a, b)
         /\ \A j \in Joints : Apart(a, b, j) * Slow[j] <= Needed(a, b)
         /\ \A t \in Int : MinStep <= t
                           /\ (\A j \in Joints : Apart(a, b, j) * Slow[j] <= t)
                           => Needed(a, b) <= t
<1> DEFINE each == {Apart(a, b, j) * Slow[j] : j \in Joints}
           times == {MinStep} \cup each
<1>1. IsFiniteSet(each)
  <2> DEFINE f == [j \in Joints |-> Apart(a, b, j) * Slow[j]]
  <2>1. f \in Surjection(Joints, each)
    BY DEF Surjection
  <2>2. IsFiniteSet(Joints)
    BY PlannerAssumption
  <2> HIDE DEF f, each
  <2> QED BY <2>1, <2>2, FS_Surjection
<1>2. IsFiniteSet(times)
  BY <1>1, FS_Singleton, FS_Union
<1>3. times \subseteq Nat
  BY ApartFacts, PlannerAssumption
<1>4. \E m \in times : \A x \in times : x <= m
  <2>1. times \in SUBSET Int /\ times # {}
    BY <1>3
  <2> HIDE DEF times
  <2> QED BY <1>2, <2>1, FiniteMaximum
<1>5. Needed(a, b) = CHOOSE t \in times : \A u \in times : u <= t
  BY DEF Needed
<1>6. Needed(a, b) \in times /\ \A u \in times : u <= Needed(a, b)
  <2> HIDE DEF times
  <2> QED BY <1>4, <1>5
<1> QED BY <1>3, <1>6

LEMMA ClampFacts ==
  ASSUME NEW a \in [Joints -> Int], NEW b \in [Joints -> Int]
  PROVE  /\ Clamp(a) \in [Joints -> Int]
         /\ \A j \in Joints : Apart(Clamp(a), Clamp(b), j) <= Apart(a, b, j)
BY PlannerAssumption DEF Clamp, Apart

\* Clamping brings waypoints no further apart, so that no segment needs more time.
LEMMA ClampShrinks ==
  ASSUME NEW a \in [Joints -> Int], NEW b \in [Joints -> Int]
  PROVE  Needed(Clamp(a), Clamp(b)) <= Needed(a, b)
<1>1. Clamp(a) \in [Joints -> Int] /\ Clamp(b) \in [Joints -> Int]
  BY ClampFacts
<1>2. ASSUME NEW j \in Joints
      PROVE  Apart(Clamp(a), Clamp(b), j) * Slow[j] <= Needed(a, b)
  <2>1. /\ Apart(Clamp(a), Clamp(b), j) \in Nat /\ Apart(a, b, j) \in Nat
        /\ Apart(Clamp(a), Clamp(b), j) <= Apart(a, b, j) /\ Slow[j] \in Nat
    BY <1>1, ApartFacts, ClampFacts, PlannerAssumption
  <2>2. Apart(Clamp(a), Clamp(b), j) * Slow[j] <= Apart(a, b, j) * Slow[j]
    BY <2>1, ProductMonotone
  <2>3. Apart(Clamp(a), Clamp(b), j) * Slow[j] \in Nat /\ Apart(a, b, j) * Slow[j] \in Nat
    BY <1>1, ApartFacts
  <2> QED BY <2>2, <2>3, NeededFacts
<1> QED BY <1>1, <1>2, NeededFacts
-----------------------------------------------------------------------------
(* The invariants.                                                         *)

\* The variables keep their types.
THEOREM TypeCorrect == Spec => []TypeOK
<1>1. Init => TypeOK
  BY PlannerAssumption DEF Init, TypeOK
<1>2. TypeOK /\ [Next]_vars => TypeOK'
  <2> SUFFICES ASSUME TypeOK, [Next]_vars PROVE TypeOK'
    OBVIOUS
  <2> USE DEF TypeOK
  <2>0. CASE Construct
    BY <2>0 DEF Construct, setup, search
  <2>10. CASE GoalAborted
    BY <2>10, PlannerAssumption DEF GoalAborted, Await, setup
  <2>1. CASE GoalPose
    BY <2>1, PlannerAssumption DEF GoalPose, Await, Candidates, setup
  <2>2. CASE NextCandidate
    BY <2>2 DEF NextCandidate, setup
  <2>3. CASE TryIk
    BY <2>3, PlannerAssumption DEF TryIk, GiveUpCandidate, setup
  <2>4. CASE AcceptIk
    BY <2>4, PlannerAssumption DEF AcceptIk, setup
  <2>5. CASE SolveFails
    BY <2>5, PlannerAssumption DEF SolveFails, GiveUpCandidate, setup
  <2>6. CASE Solve
    <3>1. Rounded(MinStep) \in Int
      BY RoundedFacts, PlannerAssumption
    <3>2. path' \in Seq(Points)
      BY <2>6, <3>1 DEF Solve, Points
    <3> QED BY <2>6, <3>2, PlannerAssumption DEF Solve, setup
  <2>7. CASE Waypoint
    <3>1. PICK q \in Angles :
             LET t == Needed(path[Len(path)].q, q)
             IN  /\ path' = Append(path, [q |-> q, at |-> Rounded(clock + t)])
                 /\ clock' = clock + t
      BY <2>7 DEF Waypoint
    <3> DEFINE t == Needed(path[Len(path)].q, q)
    <3>2. t \in Int
      <4>1. Len(path) \in 1 .. Len(path) /\ path[Len(path)] \in Points
        BY <2>7 DEF Waypoint
      <4>2. path[Len(path)].q \in [Joints -> Int] /\ q \in [Joints -> Int]
        BY <4>1, PlannerAssumption DEF Points
      <4> HIDE DEF TypeOK
      <4>3. Needed(path[Len(path)].q, q) \in Nat
        BY ONLY <4>2, NeededFacts
      <4> QED BY <4>3
    <3>3. Rounded(clock + t) \in Int
      BY <3>2, RoundedFacts
    <3>4. path' \in Seq(Points)
      BY <3>1, <3>3 DEF Points
    <3> QED BY <2>7, <3>1, <3>2, <3>4 DEF Waypoint, search, setup
  <2>8. CASE Publish
    BY <2>8 DEF Publish, GiveUpCandidate, setup
  <2>9. CASE UNCHANGED vars
    BY <2>9 DEF vars, search, setup
  <2> QED BY <2>0, <2>1, <2>2, <2>3, <2>4, <2>5, <2>6, <2>7, <2>8, <2>9, <2>10 DEF Next
<1> QED BY <1>1, <1>2, PTL DEF Spec

\* The callback lasts at most the waits, and the budget and one candidate, or all candidates.
THEOREM BlockingBounded == Spec => []BlockedAtMost
<1> DEFINE One == OneCandidate
<1> USE DEF CountInv, BudgetInv
<1>0. /\ Seeds \in Nat \ {0} /\ One \in Nat /\ One = Seeds * IkTime + SolveTime
      /\ Retractions \in Nat /\ Budget \in Nat /\ IkTime \in Nat /\ SolveTime \in Nat
      /\ RandomTries \in Nat /\ GoalWait \in Nat /\ LinkWait \in Nat
  BY Times, PlannerAssumption
<1>1. Init => CountInv /\ BudgetInv
  <2>1. (Retractions + 1) * One \in Nat
    BY <1>0, Products
  <2> QED BY <1>0, <2>1 DEF Init
<1>2. TypeOK /\ CountInv /\ BudgetInv /\ TypeOK' /\ [Next]_vars
        => CountInv' /\ BudgetInv'
  <2> SUFFICES ASSUME TypeOK, CountInv, BudgetInv, TypeOK', [Next]_vars
               PROVE  CountInv' /\ BudgetInv'
    OBVIOUS
  <2> USE <1>0 DEF TypeOK, setup
  <2> DEFINE spent == (k - 1) * One
  <2>0. /\ spent \in Nat /\ k * One = spent + One
        /\ (k + 1 - 1) * One = k * One
    BY Products
  <2>a. \A n \in Nat : n <= Seeds => n * IkTime \in Nat /\ n * IkTime + SolveTime <= One
                                     /\ (n + 1) * IkTime = n * IkTime + IkTime
    BY Times
  <2>b. 0 * One = 0 /\ (1 - 1) * One = 0 /\ 0 * IkTime = 0
    OBVIOUS
  <2>c. k <= Retractions + 1 => k * One <= (Retractions + 1) * One
    BY ProductMonotone
  <2>d. k <= Retractions + 2 => spent <= (Retractions + 1) * One
    BY ProductMonotone
  <2>e. (Retractions + 1) * One \in Nat
    BY Products
  <2> HIDE DEF One
  <2>f. CASE Construct
    BY <2>f DEF Construct, setup, search, One
  <2>1. CASE GoalPose
    <3>1. last' <= Retractions + 1 /\ last' >= 1
      BY <2>1, PlannerAssumption DEF GoalPose, Candidates
    <3> QED BY <2>1, <2>b, <3>1 DEF GoalPose, Await, One
  <2>g. CASE GoalAborted
    BY <2>g, <2>e DEF GoalAborted, Await, One
  <2>2. CASE NextCandidate
    <3> QED BY <2>2, <2>0, <2>b, <2>d DEF NextCandidate, OutOfTime, One
  <2>3. CASE TryIk
    <3>1. tries <= Seeds /\ tries' = tries + 1 /\ elapsed' <= elapsed + IkTime
      BY <2>3 DEF TryIk
    <3>2. /\ tries' * IkTime = tries * IkTime + IkTime
          /\ tries * IkTime \in Nat
          /\ tries' * IkTime + SolveTime <= One
      BY <2>3, <2>a, <3>1 DEF TryIk
    <3>3. /\ last' = last /\ adaptive' = adaptive /\ pc = "ik"
          /\ \/ tries' < Seeds /\ pc' = "ik" /\ k' = k
             \/ pc' = "next" /\ k' = k + 1
      BY <2>3 DEF TryIk, GiveUpCandidate
    <3> DEFINE used == tries * IkTime
    <3>4. (k' = k + 1 => (k' - 1) * One = spent + One)
          /\ (k' = k => (k' - 1) * One = spent) /\ tries' * IkTime = used + IkTime
      <4>1. k' = k + 1 => k' - 1 = k + 1 - 1
        OBVIOUS
      <4> QED BY ONLY <2>0, <3>2, <4>1
    <3> HIDE DEF used, spent
    <3>5. elapsed <= spent + used /\ used \in Nat /\ used + IkTime + SolveTime <= One
      BY <3>2, <3>3 DEF used, spent, One
    <3>6. CountInv'
      <4>1. CASE pc' = "ik"
        <5>1. elapsed' <= (k' - 1) * One + tries' * IkTime
          BY <3>1, <3>3, <3>4, <3>5, <4>1
        <5> QED BY <3>3, <4>1, <5>1 DEF One
      <4>2. CASE pc' = "next"
        <5>1. elapsed' <= (k' - 1) * One
          BY <2>0, <3>1, <3>3, <3>4, <3>5, <4>2
        <5> QED BY <3>3, <4>2, <5>1 DEF One
      <4> QED BY <3>3, <4>1, <4>2
    <3>7. ~adaptive /\ Budget > 0 => elapsed <= Budget + used
      BY <3>3 DEF used
    <3>8. BudgetInv'
      BY <2>0, <3>1, <3>3, <3>4, <3>5, <3>7 DEF One
    <3> QED BY <3>6, <3>8
  <2>4. CASE AcceptIk
    <3>1. tries <= Seeds /\ tries' = tries + 1 /\ elapsed' <= elapsed + IkTime
      BY <2>4 DEF AcceptIk
    <3>2. tries' * IkTime = tries * IkTime + IkTime /\ tries * IkTime \in Nat
      BY <2>4, <2>a, <3>1 DEF AcceptIk
    <3>3. tries' * IkTime + SolveTime <= One
      BY <2>4, <2>a, <3>1 DEF AcceptIk
    <3> QED BY <2>4, <2>0, <3>1, <3>2, <3>3 DEF AcceptIk, One
  <2>5. CASE SolveFails
    <3>1. tries * IkTime \in Nat /\ tries * IkTime + SolveTime <= One
          /\ elapsed' <= elapsed + SolveTime
      BY <2>5, <2>a DEF SolveFails
    <3> QED BY <2>5, <2>0, <3>1 DEF SolveFails, GiveUpCandidate, One
  <2>6. CASE Solve
    <3>1. tries * IkTime \in Nat /\ tries * IkTime + SolveTime <= One
          /\ elapsed' <= elapsed + SolveTime
      BY <2>6, <2>a DEF Solve
    <3> QED BY <2>6, <2>0, <3>1 DEF Solve, One
  <2>7. CASE Waypoint
    BY <2>7 DEF Waypoint, search, One
  <2>8. CASE Publish
    <3>1. /\ pc = "timing" /\ last' = last /\ adaptive' = adaptive /\ elapsed' = elapsed
          /\ tries' = tries
          /\ \/ pc' = "idle" /\ k' = k
             \/ pc' = "next" /\ k' = k + 1
      BY <2>8 DEF Publish, GiveUpCandidate
    <3>2. k' = k + 1 => (k' - 1) * One = k * One
      <4>1. k' = k + 1 => k' - 1 = k + 1 - 1
        OBVIOUS
      <4> QED BY ONLY <2>0, <4>1
    <3>3. elapsed <= k * One /\ k <= last /\ last <= Retractions + 1
      BY <3>1 DEF One
    <3>4. CASE pc' = "idle"
      BY <2>c, <3>1, <3>3, <3>4 DEF One
    <3>5. CASE pc' = "next"
      <4>1. elapsed' <= (k' - 1) * One /\ k' <= last' + 1 /\ last' <= Retractions + 1
        BY <3>1, <3>2, <3>3, <3>5
      <4> QED BY <3>1, <3>5, <4>1 DEF One
    <3> QED BY <3>1, <3>4, <3>5
  <2>9. CASE UNCHANGED vars
    BY <2>9 DEF vars, search, One
  <2> QED BY <2>f, <2>g, <2>1, <2>2, <2>3, <2>4, <2>5, <2>6, <2>7, <2>8, <2>9 DEF Next
<1>3. TypeOK /\ CountInv /\ BudgetInv => BlockedAtMost
  <2> SUFFICES ASSUME TypeOK, CountInv, BudgetInv PROVE BlockedAtMost
    OBVIOUS
  <2> USE <1>0 DEF TypeOK
  <2>1. \A n \in Nat : n <= Seeds => n * IkTime \in Nat /\ n * IkTime + SolveTime <= One
    BY Times
  <2>2. (k - 1) * One \in Nat /\ k * One = (k - 1) * One + One
    BY Products
  <2>3. k <= Retractions + 1 => k * One <= (Retractions + 1) * One
    BY ProductMonotone
  <2>4. k <= Retractions + 2 => (k - 1) * One <= (Retractions + 1) * One
    BY ProductMonotone
  <2>5. (Retractions + 1) * One \in Nat
    BY Products
  <2> HIDE DEF One
  <2>6. elapsed <= (Retractions + 1) * One
    BY <2>1, <2>2, <2>3, <2>4, <2>5 DEF One
  <2>7. waited + elapsed <= GoalWait + LinkWait + (Retractions + 1) * One
    BY <2>5, <2>6
  <2> QED BY <2>6, <2>7 DEF BlockedAtMost, Longest, One
<1> HIDE DEF CountInv, BudgetInv
<1> QED BY <1>1, <1>2, <1>3, TypeCorrect, PTL DEF Spec

\* The stamps of the waypoints fit the velocity limits without repair: rounding
\* costs a segment less than a grain, and clamping shortens it.
THEOREM StampsFit == Spec => []TimesNeedNoRepair
<1>1. Init => TimeInv
  BY DEF Init, TimeInv
<1>2. TypeOK /\ TimeInv /\ TypeOK' /\ [Next]_vars => TimeInv'
  <2> SUFFICES ASSUME TypeOK, TimeInv, TypeOK', [Next]_vars PROVE TimeInv'
    OBVIOUS
  <2> USE DEF TimeInv
  <2>0. CASE Construct
    BY <2>0 DEF Construct
  <2>1. CASE GoalPose \/ GoalAborted
    BY <2>1 DEF GoalPose, GoalAborted
  <2>2. CASE Solve
    BY <2>2 DEF Solve
  <2>3. CASE Waypoint
    <3>1. PICK q \in Angles :
             LET t == Needed(path[Len(path)].q, q)
             IN  /\ path' = Append(path, [q |-> q, at |-> Rounded(clock + t)])
                 /\ clock' = clock + t
      BY <2>3 DEF Waypoint
    <3> DEFINE n == Len(path)
               t == Needed(path[n].q, q)
    <3>2. /\ n \in 1 .. n /\ n = Len(path) /\ path \in Seq(Points)
          /\ clock \in Int /\ pc = "timing" /\ pc' = "timing"
      BY <2>3 DEF Waypoint, TypeOK
    <3>3. path[n] \in Points /\ path[n].q \in [Joints -> Int] /\ q \in [Joints -> Int]
      <4>1. path[n] \in Points
        BY <3>2
      <4> QED BY <4>1, PlannerAssumption DEF Points
    <3>4. t \in Nat
      BY ONLY <3>3, NeededFacts
    <3>5. /\ Rounded(clock + t) \in Int /\ Rounded(clock) \in Int
          /\ Rounded(clock) <= clock /\ clock + t - Grain < Rounded(clock + t)
      <4>1. clock \in Int /\ t \in Int
        BY <3>2, <3>4
      <4>2. Rounded(clock) \in Int /\ Rounded(clock) <= clock
        BY ONLY <4>1, RoundedFacts
      <4> HIDE DEF t
      <4>3. Rounded(clock + t) \in Int /\ clock + t - Grain < Rounded(clock + t)
        BY ONLY <4>1, RoundedSum
      <4> QED BY ONLY <4>2, <4>3
    <3>6. path[n].at = Rounded(clock)
      BY <3>2
    <3> HIDE DEF t
    <3>7. Rounded(clock + t) - path[n].at > t - Grain
      BY <3>2, <3>4, <3>5, <3>6, PlannerAssumption
    <3>8. /\ Len(path') = n + 1 /\ path'[n + 1] = [q |-> q, at |-> Rounded(clock + t)]
          /\ \A i \in 1 .. n : path'[i] = path[i]
          /\ clock' = clock + t
      BY <3>1, <3>2 DEF t
    <3>9. ASSUME NEW i \in 2 .. Len(path')
          PROVE  path'[i].at - path'[i - 1].at
                   > Needed(path'[i - 1].q, path'[i].q) - Grain
      <4>1. CASE i = n + 1
        BY <3>2, <3>7, <3>8, <4>1 DEF t
      <4>2. CASE i # n + 1
        <5>1. i \in 2 .. n /\ i \in 1 .. n /\ i - 1 \in 1 .. n
          BY <3>2, <3>8, <4>2
        <5> QED BY <3>8, <5>1
      <4> QED BY <4>1, <4>2
    <3> QED BY <3>8, <3>9
  <2>4. CASE NextCandidate \/ TryIk \/ AcceptIk \/ SolveFails \/ Publish
    <3>1. path' = path /\ pc' # "timing"
      BY <2>4 DEF NextCandidate, TryIk, AcceptIk, SolveFails, Publish, GiveUpCandidate
    <3> QED BY <3>1
  <2>5. CASE UNCHANGED vars
    BY <2>5 DEF vars
  <2> QED BY <2>0, <2>1, <2>2, <2>3, <2>4, <2>5 DEF Next
<1>3. TypeOK /\ TimeInv => TimesNeedNoRepair
  <2> SUFFICES ASSUME TypeOK, TimeInv, NEW i \in 2 .. Len(path)
               PROVE  path[i].at > path[i - 1].at /\ ~TooFast(Clamped(path), i)
    BY DEF TimesNeedNoRepair
  <2> DEFINE a == path[i - 1].q
             b == path[i].q
  <2>1. /\ path[i] \in Points /\ path[i - 1] \in Points
        /\ i \in DOMAIN path /\ i - 1 \in DOMAIN path
    BY DEF TypeOK
  <2>2. /\ a \in [Joints -> Int] /\ b \in [Joints -> Int]
        /\ path[i].at \in Int /\ path[i - 1].at \in Int
    BY <2>1, PlannerAssumption DEF Points
  <2>3. Needed(a, b) \in Nat /\ MinStep <= Needed(a, b)
    BY ONLY <2>2, NeededFacts
  <2>4. Needed(Clamp(a), Clamp(b)) \in Nat /\ Needed(Clamp(a), Clamp(b)) <= Needed(a, b)
    BY ONLY <2>2, NeededFacts, ClampFacts, ClampShrinks
  <2>5. path[i].at - path[i - 1].at > Needed(a, b) - Grain
    BY DEF TimeInv
  <2>6. path[i].at > path[i - 1].at
    BY <2>2, <2>3, <2>5, PlannerAssumption
  <2>7. Clamped(path)[i] = [q |-> Clamp(b), at |-> path[i].at]
        /\ Clamped(path)[i - 1] = [q |-> Clamp(a), at |-> path[i - 1].at]
    BY <2>1 DEF Clamped
  <2>8. Segment(Clamped(path), i) = path[i].at - path[i - 1].at
    BY <2>2, <2>6, <2>7 DEF Segment
  <2>9. ~TooFast(Clamped(path), i)
    <3>1. Clamped(path)[i].q = Clamp(b) /\ Clamped(path)[i - 1].q = Clamp(a)
      BY <2>7
    <3>2. TooFast(Clamped(path), i) <=>
            Needed(Clamp(a), Clamp(b)) > path[i].at - path[i - 1].at + Grain
      BY <2>8, <3>1 DEF TooFast
    <3> DEFINE least == Needed(a, b)
               clamped == Needed(Clamp(a), Clamp(b))
               dt == path[i].at - path[i - 1].at
    <3>3. /\ least \in Nat /\ clamped \in Nat /\ dt \in Int /\ Grain \in Nat
          /\ clamped <= least /\ dt > least - Grain
      BY <2>2, <2>3, <2>4, <2>5, PlannerAssumption
    <3>4. TooFast(Clamped(path), i) <=> clamped > dt + Grain
      BY <3>2
    <3> HIDE DEF least, clamped, dt
    <3> QED BY <3>3, <3>4
  <2> QED BY <2>6, <2>9
<1> QED BY <1>1, <1>2, <1>3, TypeCorrect, PTL DEF Spec

\* A motion is published only when its end was found free of collision, whichever
\* candidate, seed and solution it comes from.
THEOREM EndIsClear == Spec => []EndsClear
<1>1. Init => ClearInv
  BY DEF Init, ClearInv, IsInCollision, Nothing
<1>2. ClearInv /\ [Next]_vars => ClearInv'
  <2> SUFFICES ASSUME ClearInv, [Next]_vars PROVE ClearInv'
    OBVIOUS
  <2> USE DEF ClearInv
  <2>1. CASE Construct
    <3>1. pc' \notin {"start", "ompl", "timing"} /\ sent' = Nothing
      BY <2>1 DEF Construct
    <3> QED BY <3>1 DEF IsInCollision, Nothing
  <2>2. ASSUME UNCHANGED setup
        PROVE  CheckedPairs' = CheckedPairs
               /\ (IsInCollision(found))' = IsInCollision(found')
               /\ (IsInCollision(sent.touches))' = IsInCollision(sent'.touches)
    BY <2>2 DEF setup, IsInCollision, CheckedPairs, PlanningLinks, Skipped, Adjacent
  <2>3. CASE GoalPose
    <3>1. ~IsInCollision({})
      BY DEF IsInCollision
    <3> QED BY <2>2, <2>3, <3>1 DEF GoalPose, Nothing
  <2>8. CASE GoalAborted
    <3>1. ~IsInCollision({})
      BY DEF IsInCollision
    <3> QED BY <2>2, <2>8, <3>1 DEF GoalAborted, Nothing
  <2>4. CASE NextCandidate \/ TryIk \/ AcceptIk \/ SolveFails \/ Solve
    BY <2>2, <2>4 DEF NextCandidate, TryIk, AcceptIk, SolveFails, Solve, GiveUpCandidate
  <2>5. CASE Waypoint
    BY <2>2, <2>5 DEF Waypoint, search
  <2>6. CASE Publish
    BY <2>2, <2>6 DEF Publish, GiveUpCandidate
  <2>7. CASE UNCHANGED vars
    BY <2>2, <2>7 DEF vars, search
  <2> QED BY <2>1, <2>3, <2>4, <2>5, <2>6, <2>7, <2>8 DEF Next
<1>3. ClearInv => EndsClear
  BY DEF ClearInv, EndsClear, IsInCollision, CheckedPairs
<1> QED BY <1>1, <1>2, <1>3, PTL DEF Spec
=============================================================================
