------------------------------ MODULE RobotArm ------------------------------
(***************************************************************************)
(* The arm controllers of robot_arm.py: one object, a message that its     *)
(* publish thread, the main thread and whoever holds the object change,    *)
(* and the authority weight that this message carries in motion mode.      *)
(*                                                                         *)
(* Time advances in ticks.  Each thread sleeps between its steps; a tick   *)
(* passes when all of them sleep, or when one of them is late, which       *)
(* happens MaxLate times at most.  A pose is a number per arm, 0 is home   *)
(* and 1 the way the velocity limit allows in a tick.                      *)
(***************************************************************************)
EXTENDS Integers, FiniteSets

CONSTANTS
  MaxPose,        \* bound: poses are 0 .. MaxPose
  Steps,          \* steps of a weight ramp (500 in the code, 4 ms each)
  HomeSteps,      \* steps of the ramp after going home (100 of 20 ms)
  MaxAttempts,    \* looks at the pose while going home (100 of 50 ms)
  MaxLate         \* bound: ticks for which some thread is late

ASSUME ArmAssumption ==
  /\ MaxPose \in Nat /\ MaxLate \in Nat /\ MaxAttempts \in Nat \ {0}
  /\ Steps \in Nat \ {0} /\ HomeSteps \in 1 .. Steps /\ Steps % HomeSteps = 0

VARIABLES
  kind,           \* the robot
  motion_mode,    \* commands go to rt/arm_sdk, under a weight
  q,              \* where the arms are
  q_target,       \* the controller's target
  msg,            \* the message under construction: [q, weight, soft]
  sent,           \* the message last written
  publisher,      \* the publish thread: [at, i]
  threads,        \* the threads that take turns
  sleep,          \* the ticks each of them still sleeps
  late            \* the ticks that passed with a thread late

armVars == <<kind, motion_mode, q, q_target, msg, sent, publisher, threads, sleep, late>>

Arms == {"left", "right"}
Kinds == {"G1_29", "G1_23", "H1_2", "H1"}
Home == [a \in Arms |-> 0]
Distance(x, y) == IF x > y THEN x - y ELSE y - x

\* One tick's way from x to y; clip_arm_q_target goes no further than this.
Toward(x, y) == IF x < y THEN x + 1 ELSE IF x > y THEN x - 1 ELSE x
Clip(target) == [a \in Arms |-> Toward(q[a], target[a])]

Awake(t) == t \in threads /\ sleep[t] = 0
Sleep(t, n) == sleep' = [sleep EXCEPT ![t] = n]
ArmAtHome == q = Home

ArmInit ==
  /\ kind \in Kinds /\ motion_mode \in BOOLEAN /\ (kind = "H1" => ~motion_mode)
  /\ \E p \in 0 .. MaxPose : q = [a \in Arms |-> p]
  /\ q_target = Home
  /\ msg = [q |-> Home, weight |-> 0, soft |-> FALSE] /\ sent = msg
  /\ publisher = [at |-> "none", i |-> 0]
  /\ threads = {"main"} /\ sleep = [t \in {"main", "publish", "control"} |-> 0]
  /\ late = 0

\* The constructors: the arms are held where they are (G1_29) or sent home; the
\* weight ramps up in the publish thread (G1_29) or is full at once.
G1_29Start == [target |-> q, weight |-> 0, at |-> IF motion_mode THEN "ramp" ELSE "loop"]
G1_23Start == [target |-> Home, weight |-> IF motion_mode THEN Steps ELSE 0, at |-> "loop"]
H1_2Start == [target |-> Home, weight |-> IF motion_mode THEN Steps ELSE 0, at |-> "loop"]
H1Start == [target |-> Home, weight |-> 0, at |-> "loop"]
Construct ==
  /\ publisher.at = "none"
  /\ LET s == CASE kind = "G1_29" -> G1_29Start [] kind = "G1_23" -> G1_23Start
                [] kind = "H1_2" -> H1_2Start [] kind = "H1" -> H1Start
     IN /\ q_target' = s.target
        /\ msg' = [q |-> q, weight |-> s.weight, soft |-> FALSE]
        /\ publisher' = [at |-> s.at, i |-> 0]
  /\ threads' = threads \cup {"publish"}

\* Fill in the target and write; what else the message holds goes along.
SendTarget ==
  /\ msg' = [msg EXCEPT !.q = Clip(q_target)]
  /\ sent' = msg'
  /\ Sleep("publish", 1)
  /\ UNCHANGED <<kind, motion_mode, q, q_target, threads, late>>

RampWeight ==
  /\ Awake("publish") /\ publisher.at = "ramp"
  /\ msg' = [msg EXCEPT !.weight = publisher.i + 1]
  /\ publisher' = [publisher EXCEPT !.at = "ramped"]
  /\ UNCHANGED <<kind, motion_mode, q, q_target, sent, threads, sleep, late>>

RampPublish ==
  /\ Awake("publish") /\ publisher.at = "ramped"
  /\ publisher' = IF publisher.i + 1 < Steps
                  THEN [at |-> "ramp", i |-> publisher.i + 1] ELSE [at |-> "loop", i |-> 0]
  /\ SendTarget

Publish == Awake("publish") /\ publisher.at = "loop" /\ SendTarget /\ UNCHANGED publisher

PublishThread == RampWeight \/ RampPublish \/ Publish

\* Where an arm may be a tick later.  A soft arm goes where it is led.  An arm that
\* is commanded follows, or lags; one that is not stays.
Led(a) == {p \in 0 .. MaxPose : Distance(p, q[a]) <= 1}
Follows(a) == {q[a], Toward(q[a], sent.q[a])}
Commanded == sent.weight > 0 \/ (~motion_mode /\ publisher.at # "none")
Next1(a) == IF ~Commanded THEN {q[a]}
            ELSE IF a = "right" /\ sent.soft THEN Led(a) ELSE Follows(a)

Tick ==
  /\ threads # {}
  /\ \/ (\A t \in threads : sleep[t] > 0) /\ UNCHANGED late
     \/ (\E t \in threads : sleep[t] = 0) /\ late < MaxLate /\ late' = late + 1
  /\ \E l \in Next1("left"), r \in Next1("right") : q' = [left |-> l, right |-> r]
  /\ sleep' = [t \in DOMAIN sleep |-> IF sleep[t] > 0 THEN sleep[t] - 1 ELSE 0]
  /\ UNCHANGED <<kind, motion_mode, q_target, msg, sent, publisher, threads>>

\* What the holder of the object calls.
CtrlDualArm(target) == q_target' = target
SetWeight(w) == msg' = [msg EXCEPT !.weight = w] /\ UNCHANGED sent
SmoothExitStep(i) == msg' = [msg EXCEPT !.weight = Steps - (i + 1)] /\ sent' = msg'
FadeWeight(i) == Steps - i * (Steps \div HomeSteps)
=============================================================================
