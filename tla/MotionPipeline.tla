--------------------------- MODULE MotionPipeline ---------------------------
(***************************************************************************)
(* The way of a goal through the system, over a clock: a client publishes  *)
(* goals, the planner plans one at a time from the joint states it has     *)
(* seen, and the executor plays, holds and ramps one trajectory at a time. *)
(* The client is a module that EXTENDS this one.                           *)
(*                                                                         *)
(* The clock ticks every 50 ms, the period of the executor's poll and of   *)
(* the clients' waits.  What is due happens before the next tick, in any   *)
(* order.  Goals are numbered; the arm is at the pose of a goal, at        *)
(* Standing, or Moving.                                                    *)
(***************************************************************************)
EXTENDS Integers, Sequences

CONSTANTS
  PlanTimes,      \* durations of a goal callback of the planner
  MoveTimes,      \* durations of a trajectory
  HoldTime,       \* the hold loop's second
  RampTime,       \* the three seconds of a ramp
  Late,           \* bound: delay of a phase of the executor by poll and sleeps
  MayFail,        \* the planner may find no plan
  AutoReturn,     \* the executor's auto_return_to_standing
  MaxGoals        \* bound: goals published

ASSUME PipelineAssumption ==
  /\ PlanTimes \subseteq Nat /\ MoveTimes \subseteq Nat \ {0}
  /\ HoldTime \in Nat \ {0} /\ RampTime \in Nat \ {0} /\ Late \in Nat
  /\ MayFail \in BOOLEAN /\ AutoReturn \in BOOLEAN /\ MaxGoals \in Nat

VARIABLES
  sent,           \* goals published
  goals,          \* the planner's queue of /goal_pose
  job,            \* the goal being planned, from which pose, time left
  seen,           \* the arm in the planner's latest_joint_positions_
  heard,          \* durations of trajectories on their way to the client
  trajs,          \* the executor's queue of /joint_trajectory_targets
  returns,        \* pending messages of /executor/return_to_standing
  phase, left,    \* what the executor does, time left of it
  dest,           \* the goal of the trajectory being played
  arm             \* where the arm is

planner  == <<goals, job, seen>>
executor == <<trajs, returns, phase, left, dest, arm>>
pipeline == <<sent, planner, heard, executor>>

Standing == 0
Moving == -1
Idle == [goal |-> 0, start |-> 0, left |-> 0]

PipelineInit ==
  /\ sent = 0 /\ goals = <<>> /\ job = Idle /\ seen = Standing
  /\ heard = <<>> /\ trajs = <<>> /\ returns = 0
  /\ phase = "idle" /\ left = 0 /\ dest = 0 /\ arm = Standing
-----------------------------------------------------------------------------
(* The client's publications.                                              *)

PublishGoal ==
  /\ sent < MaxGoals
  /\ sent' = sent + 1
  /\ goals' = Append(goals, sent + 1)
  /\ UNCHANGED <<job, seen, heard, executor>>

PublishReturn ==
  /\ returns' = returns + 1
  /\ UNCHANGED <<sent, planner, heard, trajs, phase, left, dest, arm>>
-----------------------------------------------------------------------------
(* The planner.  Its thread also runs jointStateCallback, but goals come    *)
(* first in the dispatch order: one that has waited for another's planning  *)
(* may be planned from a joint state older than that planning.              *)

TakeGoal ==
  /\ job = Idle /\ goals # <<>>
  /\ \E from \in {seen, arm}, t \in PlanTimes :
        job' = [goal |-> Head(goals), start |-> from, left |-> t]
  /\ goals' = Tail(goals)
  /\ UNCHANGED <<sent, seen, heard, executor>>

Planned == job # Idle /\ job.left = 0 /\ job' = Idle

\* Both the client and the executor are subscribed.
PublishPlan ==
  /\ Planned
  /\ \E d \in MoveTimes :
        /\ heard' = Append(heard, d)
        /\ trajs' = Append(trajs, [goal |-> job.goal, start |-> job.start,
                                   time |-> d])
  /\ UNCHANGED <<sent, goals, seen, returns, phase, left, dest, arm>>

\* Every candidate has failed: nothing is published.
NoPlan ==
  /\ Planned /\ MayFail
  /\ UNCHANGED <<sent, goals, seen, heard, executor>>
-----------------------------------------------------------------------------
(* The executor: its thread plays, holds and ramps without a pause for      *)
(* other callbacks.                                                         *)

Lasting(n) == left' \in n .. n + Late

StartPlay ==
  /\ phase = "idle" /\ trajs # <<>>
  /\ phase' = "play" /\ Lasting(Head(trajs).time)
  /\ dest' = Head(trajs).goal
  /\ arm' = Moving
  /\ trajs' = Tail(trajs)
  /\ UNCHANGED <<sent, planner, heard, returns>>

EndPlay ==
  /\ phase = "play" /\ left = 0
  /\ phase' = "hold" /\ Lasting(HoldTime)
  /\ arm' = dest
  /\ UNCHANGED <<sent, planner, heard, trajs, returns, dest>>

BeginRamp == phase' = "ramp" /\ Lasting(RampTime) /\ arm' = Moving

EndHold ==
  /\ phase = "hold" /\ left = 0
  /\ IF AutoReturn THEN BeginRamp
                   ELSE phase' = "idle" /\ UNCHANGED <<left, arm>>
  /\ UNCHANGED <<sent, planner, heard, trajs, returns, dest>>

\* Trajectories come first in the dispatch order.
StartReturn ==
  /\ phase = "idle" /\ trajs = <<>> /\ returns > 0
  /\ returns' = returns - 1
  /\ BeginRamp
  /\ UNCHANGED <<sent, planner, heard, trajs, dest>>

EndRamp ==
  /\ phase = "ramp" /\ left = 0
  /\ phase' = "idle"
  /\ arm' = Standing
  /\ UNCHANGED <<sent, planner, heard, trajs, returns, left, dest>>
-----------------------------------------------------------------------------
(* The clock.                                                              *)

PipelineDue ==
  \/ IF job = Idle THEN goals # <<>> ELSE job.left = 0
  \/ IF phase = "idle" THEN trajs # <<>> \/ returns > 0 ELSE left = 0

\* Joint states arrive every 20 ms, and are read while nothing is planned.
PipelineTick ==
  /\ ~PipelineDue
  /\ IF job = Idle THEN UNCHANGED job /\ seen' = arm
                   ELSE job' = [job EXCEPT !.left = @ - 1] /\ UNCHANGED seen
  /\ left' = IF phase = "idle" THEN left ELSE left - 1
  /\ UNCHANGED <<sent, goals, heard, trajs, returns, phase, dest, arm>>

PipelineStep ==
  \/ TakeGoal \/ PublishPlan \/ NoPlan
  \/ StartPlay \/ EndPlay \/ EndHold \/ StartReturn \/ EndRamp

Jobs == [goal: 1 .. MaxGoals, start: Moving .. MaxGoals, left: Nat]
Plans == [goal: 1 .. MaxGoals, start: Moving .. MaxGoals, time: MoveTimes]

PipelineTypeOK ==
  /\ sent \in 0 .. MaxGoals
  /\ goals \in Seq(1 .. MaxGoals)
  /\ job \in Jobs \cup {Idle}
  /\ seen \in Moving .. MaxGoals
  /\ heard \in Seq(MoveTimes)
  /\ trajs \in Seq(Plans)
  /\ returns \in Nat
  /\ phase \in {"idle", "play", "hold", "ramp"} /\ left \in Nat
  /\ dest \in 0 .. MaxGoals /\ arm \in Moving .. MaxGoals

\* Nothing of an earlier goal is under way, except that the arm may be held
\* where it has arrived.
AtRest == /\ goals = <<>> /\ job = Idle /\ trajs = <<>> /\ returns = 0
          /\ phase \in {"idle", "hold"}

\* What is played was planned from where the arm is.
PlannedFromHere == phase = "idle" /\ phase' = "play" => Head(trajs).start = arm
=============================================================================
