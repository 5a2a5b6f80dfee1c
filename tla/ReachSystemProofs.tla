-------------------------- MODULE ReachSystemProofs --------------------------
(***************************************************************************)
(* Proofs about the reach system, for every choice of its durations.       *)
(*                                                                         *)
(* TokenInv follows the one goal that may be under way: on the wire, being  *)
(* planned, on its way back as a trajectory, or counted down by the timer.  *)
(* It needs no timing.  RestInv, HoldInv and ArmInv compare the timer with  *)
(* what the executor has left to do; they need the durations to be in the   *)
(* relation Timing, which no node checks.                                   *)
(***************************************************************************)
EXTENDS ReachSystem, SequenceTheorems, TLAPS

NothingPending == goals = <<>> /\ job = Idle /\ heard = <<>> /\ timer = Off

TokenInv ==
  /\ trigger \in {"capture", "publish"} => ~waiting
  /\ ~waiting /\ trigger # "mark" => NothingPending
  /\ goals # <<>> => /\ Len(goals) = 1
                     /\ job = Idle /\ heard = <<>> /\ timer = Off
  /\ job # Idle => heard = <<>> /\ timer = Off
  /\ heard # <<>> => Len(heard) = 1 /\ timer = Off

\* The arm is held at the end of each motion; the timer's margin outlasts the
\* executor's lateness; and the hold is over when the next plan can be there.
Timing ==
  /\ ~AutoReturn
  /\ Late < Margin
  /\ \A c \in CaptureTimes, t \in PlanTimes :
        HoldTime + 2 * Late <= Margin + c + t

Settled == phase = "idle" \/ (phase = "hold" /\ left = 0)

RestInv ==
  /\ returns = 0
  /\ phase # "ramp"
  /\ timer = Off /\ heard = <<>> => trajs = <<>> /\ phase # "play"
  /\ heard # <<>> /\ trajs = <<>> =>
        phase = "play" /\ left > 0 /\ left <= Head(heard) + Late
  /\ trajs # <<>> => /\ Len(trajs) = 1 /\ Settled
                     /\ heard # <<>> => Head(trajs).time = Head(heard)
                     /\ timer # Off => timer = Head(trajs).time + Margin
  /\ timer # Off /\ phase = "play" => left + Margin <= timer + Late

HoldInv ==
  phase = "hold" /\ left > 0 =>
     /\ timer # Off => left + Margin <= timer + HoldTime + 2 * Late
     /\ timer = Off => left + Margin <= HoldTime + 2 * Late
     /\ trigger = "capture" => \A t \in PlanTimes : left <= wait + t
     /\ trigger = "publish" \/ goals # <<>> => \A t \in PlanTimes : left <= t
     /\ job # Idle => left <= job.left

ArmInv ==
  /\ trajs # <<>> => Head(trajs).start = arm
  /\ job # Idle => job.start = arm /\ seen = arm
  /\ job = Idle /\ heard = <<>> /\ timer \in {Off, 0} => seen = arm
-----------------------------------------------------------------------------
(* What the proofs need to know of sequences.                              *)

LEMMA TailFacts ==
  ASSUME NEW S, NEW q \in Seq(S), q # <<>>
  PROVE  Tail(q) \in Seq(S) /\ Head(q) \in S /\ Len(Tail(q)) = Len(q) - 1
OBVIOUS

LEMMA TailOfOne ==
  ASSUME NEW S, NEW q \in Seq(S), Len(q) = 1
  PROVE  Tail(q) = <<>>
<1>1. Tail(q) \in Seq(S) /\ Len(Tail(q)) = 0
  OBVIOUS
<1> QED BY <1>1, EmptySeq

LEMMA AppendFacts ==
  ASSUME NEW S, NEW q \in Seq(S), NEW x \in S
  PROVE  /\ Append(q, x) \in Seq(S) /\ Append(q, x) # <<>>
         /\ q = <<>> => Len(Append(q, x)) = 1 /\ Head(Append(q, x)) = x
OBVIOUS
-----------------------------------------------------------------------------
(* Types.                                                                  *)

LEMMA InitTypeOK == Init => TypeOK
<1> SUFFICES ASSUME Init PROVE TypeOK
  OBVIOUS
<1>1. goals \in Seq(1 .. MaxGoals) /\ heard \in Seq(MoveTimes) /\ trajs \in Seq(Plans)
  BY EmptySeq DEF Init, PipelineInit
<1>2. job \in Jobs \cup {Idle}
  BY DEF Init, PipelineInit
<1>3. /\ sent \in 0 .. MaxGoals /\ seen \in Moving .. MaxGoals /\ returns \in Nat
      /\ phase \in {"idle", "play", "hold", "ramp"} /\ left \in Nat
      /\ dest \in 0 .. MaxGoals /\ arm \in Moving .. MaxGoals
  BY PipelineAssumption DEF Init, PipelineInit, Standing, Moving
<1>4. /\ trigger \in {"none", "check", "capture", "publish", "mark"}
      /\ wait \in Nat /\ waiting \in BOOLEAN /\ timer \in Nat \cup {Off}
  BY DEF Init
<1> QED BY <1>1, <1>2, <1>3, <1>4 DEF TypeOK, PipelineTypeOK

LEMMA LastingType ==
  ASSUME NEW n \in Nat, Lasting(n)
  PROVE  left' \in Nat /\ n <= left' /\ left' <= n + Late
BY PipelineAssumption DEF Lasting

LEMMA MoveTimeType ==
  ASSUME NEW d \in MoveTimes
  PROVE  d \in Nat /\ d > 0 /\ d + Margin \in Nat /\ d + Margin > 0
BY PipelineAssumption, ReachAssumption

LEMMA JobTick ==
  ASSUME NEW j \in Jobs, j.left # 0
  PROVE  LET k == [j EXCEPT !.left = @ - 1]
         IN  k \in Jobs /\ k.start = j.start /\ k.left = j.left - 1
<1>1. j.left - 1 \in Nat
  BY DEF Jobs
<1> QED BY <1>1 DEF Jobs

LEMMA TypeStep == TypeOK /\ [Next]_vars => TypeOK'
<1> SUFFICES ASSUME TypeOK, [Next]_vars PROVE TypeOK'
  OBVIOUS
<1> USE PipelineAssumption, ReachAssumption
    DEF TypeOK, PipelineTypeOK, Moving, Standing, Off
<1>1. CASE OnTrigger
  BY <1>1 DEF OnTrigger, pipeline, planner, executor
<1>2. CASE CheckFlag
  BY <1>2 DEF CheckFlag, pipeline, planner, executor
<1>3. CASE Captured
  BY <1>3 DEF Captured, pipeline, planner, executor
<1>4. CASE NotCaptured
  BY <1>4 DEF NotCaptured, pipeline, planner, executor
<1>5. CASE SendGoal
  <2>1. sent' \in 0 .. MaxGoals /\ sent + 1 \in 1 .. MaxGoals
    BY <1>5 DEF SendGoal, PublishGoal
  <2>2. goals' \in Seq(1 .. MaxGoals)
    BY <1>5, <2>1, AppendFacts DEF SendGoal, PublishGoal
  <2> QED BY <1>5, <2>1, <2>2 DEF SendGoal, PublishGoal, executor
<1>6. CASE MarkWaiting
  BY <1>6 DEF MarkWaiting, pipeline, planner, executor
<1>7. CASE TrajCb
  <2>1. heard' \in Seq(MoveTimes) /\ Head(heard) \in MoveTimes
    BY <1>7, TailFacts DEF TrajCb
  <2>2. timer' = Head(heard) + Margin
    BY <1>7 DEF TrajCb, Completion
  <2>3. timer' \in Nat
    BY <2>1, <2>2, MoveTimeType
  <2> QED BY <1>7, <2>1, <2>3 DEF TrajCb, planner, executor
<1>8. CASE OnCompletion
  BY <1>8 DEF OnCompletion, ClearWaiting, pipeline, planner, executor
<1>9. CASE Pipeline
  <2> USE <1>9 DEF Pipeline, client
  <2>1. CASE TakeGoal
    <3>1. Head(goals) \in 1 .. MaxGoals /\ goals' \in Seq(1 .. MaxGoals)
      BY <2>1, TailFacts DEF TakeGoal
    <3>2. PICK from \in {seen, arm}, t \in PlanTimes :
             job' = [goal |-> Head(goals), start |-> from, left |-> t]
      BY <2>1 DEF TakeGoal
    <3>3. job' \in Jobs
      BY <3>1, <3>2 DEF Jobs
    <3> QED BY <2>1, <3>1, <3>3 DEF TakeGoal, executor
  <2>2. CASE PublishPlan
    <3>1. PICK d \in MoveTimes :
             /\ heard' = Append(heard, d)
             /\ trajs' = Append(trajs, [goal |-> job.goal, start |-> job.start,
                                        time |-> d])
      BY <2>2 DEF PublishPlan
    <3>2. [goal |-> job.goal, start |-> job.start, time |-> d] \in Plans
      BY <2>2 DEF PublishPlan, Planned, Jobs, Plans
    <3>3. heard' \in Seq(MoveTimes)
      BY <3>1, AppendFacts
    <3>4. trajs' \in Seq(Plans)
      BY <3>1, <3>2, AppendFacts
    <3> QED BY <2>2, <3>3, <3>4 DEF PublishPlan, Planned
  <2>3. CASE NoPlan
    BY <2>3 DEF NoPlan, Planned, Idle, executor
  <2>4. CASE StartPlay
    <3>1. Head(trajs) \in Plans /\ trajs' \in Seq(Plans)
      BY <2>4, TailFacts DEF StartPlay
    <3>2. left' \in Nat
      BY <2>4, <3>1, LastingType DEF StartPlay, Plans
    <3> QED BY <2>4, <3>1, <3>2 DEF StartPlay, planner, Plans
  <2>5. CASE EndPlay
    <3>1. left' \in Nat
      BY <2>5, LastingType DEF EndPlay
    <3> QED BY <2>5, <3>1 DEF EndPlay, planner
  <2>6. CASE EndHold
    <3>1. left' \in Nat
      BY <2>6, LastingType DEF EndHold, BeginRamp
    <3> QED BY <2>6, <3>1 DEF EndHold, BeginRamp, planner
  <2>7. CASE StartReturn
    <3>1. left' \in Nat
      BY <2>7, LastingType DEF StartReturn, BeginRamp
    <3> QED BY <2>7, <3>1 DEF StartReturn, BeginRamp, planner
  <2>8. CASE EndRamp
    BY <2>8 DEF EndRamp, planner
  <2> QED BY <1>9, <2>1, <2>2, <2>3, <2>4, <2>5, <2>6, <2>7, <2>8
          DEF PipelineStep
<1>10. CASE Tick
  <2>1. job' \in Jobs \cup {Idle}
    <3>1. CASE job = Idle
      <4>1. job' = job
        BY <1>10, <3>1 DEF Tick, PipelineTick
      <4> QED BY <4>1
    <3>2. CASE job # Idle
      <4>1. job \in Jobs /\ job.left # 0 /\ job' = [job EXCEPT !.left = @ - 1]
        BY <1>10, <3>2 DEF Tick, PipelineTick, PipelineDue
      <4> QED BY <4>1, JobTick
    <3> QED BY <3>1, <3>2
  <2>2. left' \in Nat
    BY SMTT(30), <1>10 DEF Tick, PipelineTick, PipelineDue
  <2>3. wait' \in Nat /\ timer' \in Nat \cup {Off}
    BY <1>10 DEF Tick, ClientDue
  <2> QED BY <1>10, <2>1, <2>2, <2>3 DEF Tick, PipelineTick
<1>11. CASE UNCHANGED vars
  BY <1>11 DEF vars, pipeline, planner, executor, client
<1> QED BY <1>1, <1>2, <1>3, <1>4, <1>5, <1>6, <1>7, <1>8, <1>9, <1>10, <1>11
        DEF Next, Trigger, Callbacks
-----------------------------------------------------------------------------
(* The one goal that may be under way.                                     *)

LEMMA InitToken == Init => TokenInv
BY DEF Init, PipelineInit, TokenInv, NothingPending, Off

\* What a tick leaves to be said of the planner and of the timer.
LEMMA TickFacts ==
  ASSUME TypeOK, Tick
  PROVE  /\ goals' = goals /\ heard = <<>> /\ heard' = <<>> /\ trajs' = trajs
         /\ job = Idle => job' = Idle /\ goals = <<>> /\ seen' = arm
         /\ job # Idle => /\ job'.start = job.start /\ seen' = seen
                          /\ job'.left = job.left - 1
         /\ timer = Off <=> timer' = Off
         /\ timer # Off => timer' = timer - 1 /\ timer > 0
         /\ phase' = phase /\ returns' = returns /\ arm' = arm
         /\ phase # "idle" => left' = left - 1 /\ left > 0
         /\ phase = "idle" => trajs = <<>>
<1> USE DEF Tick, PipelineTick, TypeOK, PipelineTypeOK
<1>1. ~PipelineDue /\ ~ClientDue
  OBVIOUS
<1>2. job = Idle => job' = Idle /\ goals = <<>> /\ seen' = arm
  BY <1>1 DEF PipelineDue
<1>3. ASSUME job # Idle
      PROVE  job'.start = job.start /\ seen' = seen /\ job'.left = job.left - 1
  <2>1. job \in Jobs /\ job.left # 0 /\ job' = [job EXCEPT !.left = @ - 1]
    BY <1>1, <1>3 DEF PipelineDue
  <2> QED BY <1>3, <2>1, JobTick
<1>4. /\ timer = Off <=> timer' = Off
      /\ timer # Off => timer' = timer - 1 /\ timer > 0
  BY <1>1 DEF ClientDue, Off
<1>5. /\ phase # "idle" => left' = left - 1 /\ left > 0
      /\ phase = "idle" => trajs = <<>>
  BY <1>1 DEF PipelineDue
<1>6. heard = <<>>
  BY <1>1 DEF ClientDue
<1> QED BY <1>2, <1>3, <1>4, <1>5, <1>6

LEMMA TokenStep == TypeOK /\ TokenInv /\ [Next]_vars => TokenInv'
<1> SUFFICES ASSUME TypeOK, TokenInv, [Next]_vars PROVE TokenInv'
  OBVIOUS
<1> USE DEF TokenInv, NothingPending
<1>0. goals \in Seq(1 .. MaxGoals) /\ heard \in Seq(MoveTimes)
  BY DEF TypeOK, PipelineTypeOK
<1>1. CASE OnTrigger
  BY <1>1 DEF OnTrigger, pipeline, planner, executor
<1>2. CASE CheckFlag
  BY <1>2 DEF CheckFlag, FlagIsClear, pipeline, planner, executor
<1>3. CASE Captured
  BY <1>3 DEF Captured, pipeline, planner, executor
<1>4. CASE NotCaptured
  BY <1>4 DEF NotCaptured, pipeline, planner, executor
<1>5. CASE SendGoal
  <2>1. NothingPending
    BY <1>5 DEF SendGoal
  <2>2. sent + 1 \in 1 .. MaxGoals
    BY <1>5, PipelineAssumption DEF SendGoal, PublishGoal, TypeOK, PipelineTypeOK
  <2>3. goals' # <<>> /\ Len(goals') = 1
    BY <1>0, <1>5, <2>1, <2>2, AppendFacts DEF SendGoal, PublishGoal
  <2> QED BY <1>5, <2>1, <2>3 DEF SendGoal, PublishGoal
<1>6. CASE MarkWaiting
  BY <1>6 DEF MarkWaiting, pipeline, planner, executor
<1>7. CASE TrajCb
  <2>1. heard # <<>> /\ Len(heard) = 1
    BY <1>7 DEF TrajCb
  <2>2. heard' = <<>>
    BY <1>0, <1>7, <2>1, TailOfOne DEF TrajCb
  <2> QED BY <1>7, <2>1, <2>2 DEF TrajCb, planner
<1>8. CASE OnCompletion
  <2>1. timer # Off
    BY <1>8 DEF OnCompletion, Off
  <2> QED BY <1>8, <2>1 DEF OnCompletion, ClearWaiting, pipeline, planner
<1>9. CASE Pipeline
  <2> USE <1>9 DEF Pipeline, client
  <2>1. CASE TakeGoal
    <3>1. goals # <<>> /\ Len(goals) = 1 /\ goals' = Tail(goals)
      BY <2>1 DEF TakeGoal
    <3>2. goals' = <<>>
      BY <1>0, <3>1, TailOfOne
    <3> QED BY <2>1, <3>1, <3>2 DEF TakeGoal
  <2>2. CASE PublishPlan
    <3>1. job # Idle /\ goals = <<>> /\ heard = <<>> /\ job' = Idle
      BY <2>2 DEF PublishPlan, Planned
    <3>2. heard' # <<>> /\ Len(heard') = 1
      BY <1>0, <2>2, <3>1, AppendFacts DEF PublishPlan
    <3> QED BY <2>2, <3>1, <3>2 DEF PublishPlan
  <2>3. CASE NoPlan
    BY <2>3 DEF NoPlan, Planned
  <2>4. CASE StartPlay \/ EndPlay \/ EndHold \/ StartReturn \/ EndRamp
    BY <2>4 DEF StartPlay, EndPlay, EndHold, StartReturn, EndRamp, planner
  <2> QED BY <1>9, <2>1, <2>2, <2>3, <2>4 DEF PipelineStep
<1>10. CASE Tick
  <2>1. trigger' = trigger /\ waiting' = waiting
    BY <1>10 DEF Tick
  <2> QED BY <1>10, <2>1, TickFacts
<1>11. CASE UNCHANGED vars
  BY <1>11 DEF vars, pipeline, planner, executor, client
<1> QED BY <1>1, <1>2, <1>3, <1>4, <1>5, <1>6, <1>7, <1>8, <1>9, <1>10, <1>11
        DEF Next, Trigger, Callbacks
-----------------------------------------------------------------------------
(* The timer and the executor, step by step.                               *)

IInv == TypeOK /\ TokenInv /\ RestInv /\ HoldInv /\ ArmInv

LEMMA InitRest == Init => RestInv /\ HoldInv /\ ArmInv
BY DEF Init, PipelineInit, RestInv, HoldInv, ArmInv, Settled, Off, Standing

\* The types of what is compared, in one place.
LEMMA Numbers ==
  ASSUME TypeOK
  PROVE  /\ Late \in Nat /\ Margin \in Nat /\ HoldTime \in Nat
         /\ left \in Nat /\ wait \in Nat /\ returns \in Nat
         /\ timer # Off => timer \in Nat
         /\ heard \in Seq(MoveTimes) /\ trajs \in Seq(Plans)
         /\ heard # <<>> => Head(heard) \in Nat /\ Head(heard) > 0
         /\ trajs # <<>> => Head(trajs).time \in Nat /\ Head(trajs).time > 0
         /\ job # Idle => job \in Jobs /\ job.left \in Nat
<1> USE DEF TypeOK, PipelineTypeOK
<1>1. heard # <<>> => Head(heard) \in Nat /\ Head(heard) > 0
  BY TailFacts, MoveTimeType
<1>2. ASSUME trajs # <<>>
      PROVE  Head(trajs).time \in Nat /\ Head(trajs).time > 0
  <2>1. Head(trajs) \in Plans
    BY <1>2, TailFacts
  <2>2. Head(trajs).time \in MoveTimes
    BY <2>1 DEF Plans
  <2> QED BY <2>2, MoveTimeType
<1>3. job # Idle => job \in Jobs /\ job.left \in Nat
  BY DEF Jobs
<1> QED BY <1>1, <1>2, <1>3, PipelineAssumption, ReachAssumption

\* When the executor finishes a trajectory, the client's timer is running.
LEMMA PlayEnds ==
  ASSUME IInv, phase = "play", left = 0
  PROVE  /\ heard = <<>> /\ trajs = <<>> /\ goals = <<>> /\ job = Idle
         /\ timer # Off /\ Margin <= timer + Late
<1> USE DEF IInv, RestInv, Settled
<1>1. trajs = <<>>
  OBVIOUS
<1>2. heard = <<>>
  BY <1>1
<1>3. timer # Off
  BY <1>1, <1>2
<1>4. goals = <<>> /\ job = Idle
  BY <1>3 DEF TokenInv
<1> QED BY <1>1, <1>2, <1>3, <1>4, Numbers

\* When the timer fires, the executor has nothing left to play.
LEMMA TimerFires ==
  ASSUME IInv, Timing, timer = 0
  PROVE  heard = <<>> /\ trajs = <<>> /\ phase # "play" /\ job = Idle
<1> USE DEF IInv, RestInv
<1>1. timer # Off
  BY DEF Off
<1>2. heard = <<>> /\ job = Idle
  BY <1>1 DEF TokenInv
<1>3. trajs = <<>>
  BY <1>1, Numbers
<1>4. phase # "play"
  BY <1>1, Numbers DEF Timing
<1> QED BY <1>2, <1>3, <1>4

\* When a plan is published, the arm has come to rest.
LEMMA PlanArrives ==
  ASSUME IInv, job # Idle
  PROVE  /\ goals = <<>> /\ heard = <<>> /\ timer = Off /\ trajs = <<>>
         /\ job.left = 0 => Settled
<1> USE DEF IInv
<1>1. goals = <<>> /\ heard = <<>> /\ timer = Off
  BY DEF TokenInv
<1>2. trajs = <<>> /\ phase \notin {"play", "ramp"}
  BY <1>1 DEF RestInv
<1>3. job.left = 0 => Settled
  BY <1>2, Numbers DEF HoldInv, Settled, TypeOK, PipelineTypeOK
<1> QED BY <1>1, <1>2, <1>3

\* The client's steps that leave the timer and the executor alone.
ClientOnly == OnTrigger \/ CheckFlag \/ Captured \/ NotCaptured \/ SendGoal
              \/ MarkWaiting

LEMMA ClientOnlyFacts ==
  ASSUME ClientOnly
  PROVE  /\ executor' = executor /\ timer' = timer /\ job' = job
         /\ seen' = seen /\ heard' = heard
BY DEF ClientOnly, OnTrigger, CheckFlag, Captured, NotCaptured, SendGoal,
       MarkWaiting, PublishGoal, pipeline, planner
-----------------------------------------------------------------------------
LEMMA RestStep == IInv /\ Timing /\ [Next]_vars => RestInv'
<1> SUFFICES ASSUME IInv, Timing, [Next]_vars PROVE RestInv'
  OBVIOUS
<1>0. TypeOK /\ RestInv /\ TypeOK'
  BY TypeStep DEF IInv
<1>1. CASE ClientOnly
  BY <1>0, <1>1, ClientOnlyFacts DEF RestInv, Settled, executor
<1>2. CASE TrajCb
  <2>1. heard # <<>> /\ timer' = Head(heard) + Margin /\ executor' = executor
    BY <1>2 DEF TrajCb, Completion
  <2>2. heard' = <<>>
    BY <1>0, <1>2, <2>1, Numbers, TailOfOne DEF TrajCb, IInv, TokenInv
  <2> QED BY SMTT(30), <1>0, <2>1, <2>2, Numbers DEF RestInv, Settled, executor, Off
<1>3. CASE OnCompletion
  <2>1. timer = 0 /\ timer' = Off /\ heard' = heard /\ executor' = executor
    BY <1>3 DEF OnCompletion, pipeline
  <2> QED BY <1>0, <2>1, TimerFires DEF RestInv, executor
<1>4. CASE TakeGoal /\ UNCHANGED client
  BY <1>0, <1>4 DEF TakeGoal, executor, client, RestInv, Settled
<1>5. CASE PublishPlan /\ UNCHANGED client
  <2>1. job # Idle /\ job.left = 0
    BY <1>5 DEF PublishPlan, Planned
  <2>2. heard = <<>> /\ timer = Off /\ trajs = <<>> /\ Settled
    BY <2>1, PlanArrives
  <2>3. PICK d \in MoveTimes :
           /\ heard' = Append(heard, d)
           /\ trajs' = Append(trajs, [goal |-> job.goal, start |-> job.start,
                                      time |-> d])
    BY <1>5 DEF PublishPlan
  <2>4. [goal |-> job.goal, start |-> job.start, time |-> d] \in Plans
    BY <2>1, Numbers, <1>0 DEF Jobs, Plans
  <2>5. heard' # <<>> /\ Head(heard') = d
    BY <2>2, <2>3, <1>0, Numbers, AppendFacts
  <2>6. trajs' # <<>> /\ Len(trajs') = 1 /\ Head(trajs').time = d
    BY <2>2, <2>3, <2>4, <1>0, Numbers, AppendFacts
  <2>7. returns' = returns /\ phase' = phase /\ left' = left /\ timer' = timer
    BY <1>5 DEF PublishPlan, client
  <2> QED BY <1>0, <2>2, <2>5, <2>6, <2>7 DEF RestInv, Settled
<1>6. CASE NoPlan /\ UNCHANGED client
  BY <1>0, <1>6 DEF NoPlan, executor, client, RestInv, Settled
<1>7. CASE StartPlay /\ UNCHANGED client
  <2>1. /\ trajs # <<>> /\ Len(trajs) = 1 /\ phase' = "play"
        /\ left' \in Head(trajs).time .. Head(trajs).time + Late
        /\ UNCHANGED <<heard, returns, timer>>
    BY <1>0, <1>7 DEF StartPlay, Lasting, RestInv, client
  <2>2. trajs' = <<>>
    BY <1>0, <1>7, <2>1, Numbers, TailOfOne DEF StartPlay
  <2>3. /\ left' \in Nat /\ left' >= Head(trajs).time
        /\ left' <= Head(trajs).time + Late
    BY <1>0, <2>1, Numbers
  <2>4. ~(timer = Off /\ heard = <<>>)
    BY <1>0, <2>1 DEF RestInv
  <2>5. heard # <<>> => left' > 0 /\ left' <= Head(heard) + Late
    BY <1>0, <2>1, <2>3, Numbers DEF RestInv
  <2>6. timer # Off => left' + Margin <= timer + Late
    BY SMTT(30), <1>0, <2>1, <2>3, Numbers DEF RestInv
  <2> QED BY <1>0, <2>1, <2>2, <2>4, <2>5, <2>6 DEF RestInv
<1>8. CASE EndPlay /\ UNCHANGED client
  <2>1. phase = "play" /\ left = 0
    BY <1>8 DEF EndPlay
  <2> QED BY <1>0, <1>8, <2>1, PlayEnds DEF EndPlay, client, RestInv
<1>9. CASE EndHold /\ UNCHANGED client
  <2>1. phase' = "idle" /\ left' = left
    BY <1>9 DEF EndHold, Timing
  <2> QED BY <1>0, <1>9, <2>1 DEF EndHold, client, RestInv, Settled
<1>10. CASE (StartReturn \/ EndRamp) /\ UNCHANGED client
  BY <1>0, <1>10 DEF StartReturn, EndRamp, RestInv
<1>11. CASE Tick
  <2>1. trajs = <<>>
    BY <1>0, <1>11, TickFacts, Numbers DEF RestInv, Settled
  <2> QED BY <1>0, <1>11, <2>1, TickFacts, Numbers DEF RestInv
<1>12. CASE UNCHANGED vars
  BY <1>0, <1>12 DEF vars, pipeline, planner, executor, client, RestInv, Settled
<1> QED BY <1>1, <1>2, <1>3, <1>4, <1>5, <1>6, <1>7, <1>8, <1>9, <1>10, <1>11,
           <1>12 DEF Next, Trigger, Callbacks, Pipeline, PipelineStep, ClientOnly
-----------------------------------------------------------------------------
LEMMA Outlasted ==
  ASSUME NEW x \in Nat, NEW m \in Nat, NEW h \in Nat, NEW l \in Nat,
         NEW c \in Nat, NEW t \in Nat,
         x + m <= h + 2 * l, h + 2 * l <= m + c + t
  PROVE  x <= c + t
OBVIOUS

LEMMA BothTick ==
  ASSUME NEW x \in Nat, NEW m \in Nat, NEW h \in Nat, NEW l \in Nat,
         NEW t \in Nat, x + m <= t + h + 2 * l
  PROVE  (x - 1) + m <= (t - 1) + h + 2 * l
OBVIOUS

LEMMA TwiceLate ==
  ASSUME NEW x \in Nat, NEW m \in Nat, NEW h \in Nat, NEW l \in Nat,
         NEW t \in Nat, x <= h + l, m <= t + l
  PROVE  x + m <= t + h + 2 * l
OBVIOUS

LEMMA HoldStep == IInv /\ Timing /\ [Next]_vars => HoldInv'
<1> SUFFICES ASSUME IInv, Timing, [Next]_vars, phase' = "hold", left' > 0
             PROVE  HoldInv'
  BY DEF HoldInv
<1>0. TypeOK /\ HoldInv /\ TokenInv /\ TypeOK'
  BY TypeStep DEF IInv
<1>1. CASE OnTrigger \/ NotCaptured \/ MarkWaiting
  BY <1>0, <1>1 DEF OnTrigger, NotCaptured, MarkWaiting, pipeline, planner,
                    executor, HoldInv
<1>2. CASE CheckFlag
  <2>1. UNCHANGED <<goals, job, phase, left, timer>>
    BY <1>2 DEF CheckFlag, pipeline, planner, executor
  <2>2. ASSUME trigger' = "capture", NEW t \in PlanTimes
        PROVE  left' <= wait' + t
    <3>1. ~waiting /\ trigger = "check" /\ wait' \in CaptureTimes
      BY <1>2, <2>2 DEF CheckFlag, FlagIsClear
    <3>2. timer = Off
      BY <1>0, <3>1 DEF TokenInv, NothingPending
    <3>3. left + Margin <= HoldTime + 2 * Late
      BY <1>0, <2>1, <3>2 DEF HoldInv
    <3>4. HoldTime + 2 * Late <= Margin + wait' + t
      BY <3>1 DEF Timing
    <3>5. wait' \in Nat /\ t \in Nat
      BY <3>1, PipelineAssumption, ReachAssumption
    <3>6. /\ left \in Nat /\ Margin \in Nat /\ HoldTime \in Nat /\ Late \in Nat
          /\ left' = left
      BY <1>0, <2>1, Numbers
    <3> QED BY <3>3, <3>4, <3>5, <3>6, Outlasted
  <2>3. trigger' # "publish"
    BY <1>2 DEF CheckFlag
  <2> QED BY <1>0, <2>1, <2>2, <2>3 DEF HoldInv
<1>3. CASE Captured
  BY <1>0, <1>3, Numbers, PipelineAssumption
     DEF Captured, pipeline, planner, executor, HoldInv
<1>4. CASE SendGoal
  BY <1>0, <1>4 DEF SendGoal, PublishGoal, executor, HoldInv
<1>5. CASE TrajCb
  <2>1. heard # <<>> /\ timer' = Head(heard) + Margin /\ timer = Off
    BY <1>0, <1>5 DEF TrajCb, Completion, TokenInv
  <2>2. left + Margin <= HoldTime + 2 * Late /\ left' = left
    BY <1>0, <1>5, <2>1 DEF TrajCb, executor, HoldInv
  <2>3. /\ Head(heard) \in Nat /\ left \in Nat /\ Margin \in Nat
        /\ HoldTime \in Nat /\ Late \in Nat
    BY <1>0, <2>1, Numbers
  <2>4. left' + Margin <= timer' + HoldTime + 2 * Late /\ timer' # Off
    BY <2>1, <2>2, <2>3 DEF Off
  <2> QED BY <1>0, <1>5, <2>4 DEF TrajCb, planner, executor, HoldInv
<1>6. CASE OnCompletion
  <2>1. timer = 0 /\ timer' = Off /\ timer # Off
    BY <1>6 DEF OnCompletion, Off
  <2>2. left + Margin <= HoldTime + 2 * Late
    BY <1>0, <1>6, <2>1, Numbers DEF HoldInv, OnCompletion, pipeline, executor
  <2> QED BY <1>0, <1>6, <2>1, <2>2
          DEF OnCompletion, pipeline, planner, executor, HoldInv
<1>7. CASE TakeGoal /\ UNCHANGED client
  <2>1. goals # <<>> /\ UNCHANGED <<phase, left, trigger, wait, timer>>
    BY <1>7 DEF TakeGoal, executor, client
  <2>2. \A t \in PlanTimes : left <= t
    BY <1>0, <2>1 DEF HoldInv
  <2>3. left' <= job'.left
    BY <1>7, <2>1, <2>2 DEF TakeGoal
  <2> QED BY <1>0, <2>1, <2>2, <2>3 DEF HoldInv
<1>8. CASE (PublishPlan \/ NoPlan) /\ UNCHANGED client
  BY <1>0, <1>8 DEF PublishPlan, NoPlan, Planned, executor, client, HoldInv
<1>9. CASE (StartPlay \/ StartReturn \/ EndRamp) /\ UNCHANGED client
  BY <1>9 DEF StartPlay, StartReturn, EndRamp, BeginRamp
<1>10. CASE EndPlay /\ UNCHANGED client
  <2>1. phase = "play" /\ left = 0 /\ left' <= HoldTime + Late
    BY <1>10, Numbers, <1>0 DEF EndPlay, Lasting
  <2>2. /\ heard = <<>> /\ trajs = <<>> /\ goals = <<>> /\ job = Idle
        /\ timer # Off /\ Margin <= timer + Late
    BY <2>1, PlayEnds
  <2>3. trigger \notin {"capture", "publish"}
    BY <1>0, <2>2 DEF TokenInv, NothingPending
  <2>4. left' + Margin <= timer + HoldTime + 2 * Late
    <3>1. /\ timer \in Nat /\ Margin \in Nat /\ HoldTime \in Nat /\ Late \in Nat
          /\ left' \in Nat
      BY <1>0, <2>2, Numbers DEF TypeOK, PipelineTypeOK
    <3> QED BY <2>1, <2>2, <3>1, TwiceLate
  <2> QED BY <1>10, <2>2, <2>3, <2>4 DEF EndPlay, planner, client, HoldInv
<1>11. CASE EndHold /\ UNCHANGED client
  BY <1>11 DEF EndHold, Timing
<1>12. CASE Tick
  <2>1. /\ phase = "hold" /\ left > 0 /\ left' = left - 1
        /\ goals' = goals /\ trigger' = trigger /\ trigger # "publish"
    BY <1>12, TickFacts, <1>0 DEF Tick, ClientDue
  <2>2. ASSUME timer # Off
        PROVE  left' + Margin <= timer' + HoldTime + 2 * Late
    <3>1. left + Margin <= timer + HoldTime + 2 * Late
      BY <1>0, <2>1, <2>2 DEF HoldInv
    <3>2. left' = left - 1 /\ timer' = timer - 1
      BY <1>0, <1>12, <2>1, <2>2, TickFacts
    <3>3. /\ timer \in Nat /\ Margin \in Nat /\ HoldTime \in Nat /\ Late \in Nat
          /\ left \in Nat
      BY <1>0, <2>2, Numbers, SMTT(30)
    <3> QED BY <3>1, <3>2, <3>3, BothTick
  <2>3. ASSUME timer = Off
        PROVE  left' + Margin <= HoldTime + 2 * Late
    <3>1. left + Margin <= HoldTime + 2 * Late
      BY <1>0, <2>1, <2>3, SMTT(30) DEF HoldInv
    <3> QED BY <1>0, <2>1, <3>1, Numbers, SMTT(30)
  <2>4. ASSUME trigger = "capture", NEW t \in PlanTimes
        PROVE  left' <= wait' + t
    <3>1. wait' = wait - 1 /\ left <= wait + t /\ t \in Nat
      BY <1>0, <1>12, <2>1, <2>4, PipelineAssumption DEF Tick, HoldInv
    <3>2. left' = left - 1 /\ left \in Nat /\ wait \in Nat
      BY <1>0, <2>1, Numbers
    <3> QED BY <3>1, <3>2
  <2>5. ASSUME goals # <<>>, NEW t \in PlanTimes PROVE left' <= t
    <3>1. left <= t /\ t \in Nat
      BY <1>0, <2>1, <2>5, PipelineAssumption DEF HoldInv
    <3> QED BY <1>0, <2>1, <3>1, Numbers
  <2>6. job' # Idle => left' <= job'.left
    BY <1>0, <1>12, <2>1, TickFacts, Numbers DEF HoldInv
  <2> QED BY <1>12, <2>1, <2>2, <2>3, <2>4, <2>5, <2>6, <1>0, TickFacts
          DEF HoldInv
<1>13. CASE UNCHANGED vars
  BY <1>0, <1>13 DEF vars, pipeline, planner, executor, client, HoldInv
<1> QED BY <1>1, <1>2, <1>3, <1>4, <1>5, <1>6, <1>7, <1>8, <1>9, <1>10, <1>11,
           <1>12, <1>13 DEF Next, Trigger, Callbacks, Pipeline, PipelineStep
-----------------------------------------------------------------------------
LEMMA ArmStep == IInv /\ Timing /\ [Next]_vars => ArmInv'
<1> SUFFICES ASSUME IInv, Timing, [Next]_vars PROVE ArmInv'
  OBVIOUS
<1>0. TypeOK /\ ArmInv /\ TokenInv /\ RestInv
  BY DEF IInv
<1>1. CASE ClientOnly
  BY <1>0, <1>1, ClientOnlyFacts DEF ArmInv, executor
<1>2. CASE TrajCb
  <2>1. timer' > 0 /\ timer' \in Nat
    BY <1>0, <1>2, Numbers DEF TrajCb, Completion
  <2>2. timer' \notin {Off, 0}
    BY <2>1 DEF Off
  <2> QED BY <1>0, <1>2, <2>2 DEF TrajCb, planner, executor, ArmInv
<1>3. CASE OnCompletion
  BY <1>0, <1>3 DEF OnCompletion, pipeline, planner, executor, ArmInv
<1>4. CASE TakeGoal /\ UNCHANGED client
  <2>1. goals # <<>> /\ job = Idle /\ heard = <<>> /\ timer = Off
    BY <1>0, <1>4 DEF TakeGoal, TokenInv
  <2>2. seen = arm
    BY <1>0, <2>1 DEF ArmInv
  <2>3. job'.start = arm /\ job' # Idle
    <3>1. Head(goals) # 0
      BY <1>0, <2>1, TailFacts, PipelineAssumption DEF TypeOK, PipelineTypeOK
    <3>2. job'.goal = Head(goals) /\ job'.start = arm
      BY <1>4, <2>2 DEF TakeGoal
    <3> QED BY <3>1, <3>2 DEF Idle
  <2> QED BY <1>0, <1>4, <2>2, <2>3 DEF TakeGoal, executor, ArmInv
<1>5. CASE PublishPlan /\ UNCHANGED client
  <2>1. job # Idle /\ job' = Idle /\ job.start = arm
    BY <1>0, <1>5 DEF PublishPlan, Planned, ArmInv
  <2>2. heard = <<>> /\ trajs = <<>>
    BY <2>1, PlanArrives
  <2>3. PICK d \in MoveTimes :
           /\ heard' = Append(heard, d)
           /\ trajs' = Append(trajs, [goal |-> job.goal, start |-> job.start,
                                      time |-> d])
    BY <1>5 DEF PublishPlan
  <2>4. [goal |-> job.goal, start |-> job.start, time |-> d] \in Plans
    BY <2>1, Numbers, <1>0 DEF Jobs, Plans
  <2>5. heard' # <<>>
    BY <2>3, <1>0, Numbers, AppendFacts
  <2>6. Head(trajs').start = job.start
    BY <2>2, <2>3, <2>4, <1>0, Numbers, AppendFacts
  <2>7. arm' = arm
    BY <1>5 DEF PublishPlan
  <2> QED BY <2>1, <2>5, <2>6, <2>7 DEF ArmInv
<1>6. CASE NoPlan /\ UNCHANGED client
  BY <1>0, <1>6 DEF NoPlan, Planned, executor, client, ArmInv
<1>7. CASE StartPlay /\ UNCHANGED client
  <2>1. trajs # <<>> /\ Len(trajs) = 1
    BY <1>0, <1>7 DEF StartPlay, RestInv
  <2>2. trajs' = <<>> /\ UNCHANGED <<job, heard, timer>>
    BY <1>0, <1>7, <2>1, Numbers, TailOfOne DEF StartPlay, planner, client
  <2>3. job = Idle
    BY <2>1, PlanArrives
  <2>4. ~(heard = <<>> /\ timer \in {Off, 0})
    BY <2>1, <1>0, TimerFires DEF RestInv
  <2> QED BY <2>2, <2>3, <2>4 DEF ArmInv
<1>8. CASE EndPlay /\ UNCHANGED client
  <2>1. phase = "play" /\ left = 0
    BY <1>8 DEF EndPlay
  <2>2. trajs = <<>> /\ job = Idle /\ timer \notin {Off, 0}
    BY <2>1, PlayEnds, TimerFires
  <2> QED BY <1>8, <2>2 DEF EndPlay, planner, client, ArmInv
<1>9. CASE EndHold /\ UNCHANGED client
  BY <1>0, <1>9 DEF EndHold, Timing, planner, client, ArmInv
<1>10. CASE (StartReturn \/ EndRamp) /\ UNCHANGED client
  BY <1>0, <1>10, Numbers DEF StartReturn, EndRamp, RestInv
<1>11. CASE Tick
  <2>1. trajs = <<>>
    BY <1>0, <1>11, TickFacts, Numbers DEF RestInv, Settled
  <2> QED BY <1>0, <1>11, <2>1, TickFacts DEF ArmInv
<1>12. CASE UNCHANGED vars
  BY <1>0, <1>12 DEF vars, pipeline, planner, executor, client, ArmInv
<1> QED BY <1>1, <1>2, <1>3, <1>4, <1>5, <1>6, <1>7, <1>8, <1>9, <1>10, <1>11,
           <1>12 DEF Next, Trigger, Callbacks, Pipeline, PipelineStep, ClientOnly
-----------------------------------------------------------------------------
(* The theorems.                                                           *)

\* Every variable of the trigger, the planner and the executor keeps its type.
THEOREM TypeCorrect == SafetySpec => []TypeOK
<1>1. TypeOK /\ [Next]_vars => TypeOK'
  BY TypeStep
<1> QED BY InitTypeOK, <1>1, PTL DEF SafetySpec

\* The flag and its timer keep a second goal out of the planner's queue,
\* whatever the durations, with auto_return or without, plans found or not.
THEOREM OneGoalAtATime == SafetySpec => []GoalsNeverQueue
<1>1. Init => TypeOK /\ TokenInv
  BY InitTypeOK, InitToken
<1>2. (TypeOK /\ TokenInv) /\ [Next]_vars => (TypeOK /\ TokenInv)'
  BY TypeStep, TokenStep
<1>3. TypeOK /\ TokenInv => GoalsNeverQueue
  <2> SUFFICES ASSUME TypeOK, TokenInv PROVE GoalsNeverQueue
    OBVIOUS
  <2>1. CASE goals = <<>>
    <3>1. Len(goals) = 0
      BY <2>1, EmptySeq
    <3> QED BY <3>1 DEF GoalsNeverQueue
  <2>2. CASE goals # <<>>
    <3>1. Len(goals) = 1 /\ job = Idle
      BY <2>2 DEF TokenInv
    <3> QED BY <3>1 DEF GoalsNeverQueue
  <2> QED BY <2>1, <2>2
<1> QED BY <1>1, <1>2, <1>3, PTL DEF SafetySpec

LEMMA InitIInv == Init => IInv
BY InitTypeOK, InitToken, InitRest DEF IInv

LEMMA IInvStep == ASSUME Timing PROVE IInv /\ [Next]_vars => IInv'
<1> SUFFICES ASSUME IInv, [Next]_vars PROVE IInv'
  OBVIOUS
<1>1. TypeOK' /\ TokenInv'
  BY TypeStep, TokenStep DEF IInv
<1> QED BY <1>1, RestStep, HoldStep, ArmStep DEF IInv

\* The numbers of the code are in that relation: a hold as long as the margin, at
\* least five samples of TF for a capture, and 300 ms of lateness.
LEMMA TimingOfTheCode ==
  ASSUME ~AutoReturn, HoldTime = 20, Margin = 20, Late <= 6,
         \A c \in CaptureTimes : 12 <= c
  PROVE  Timing
<1>1. Late \in Nat /\ PlanTimes \subseteq Nat /\ CaptureTimes \subseteq Nat
  BY PipelineAssumption, ReachAssumption
<1>2. \A c \in CaptureTimes : c \in Nat /\ 12 <= c
  BY <1>1
<1>3. \A t \in PlanTimes : t \in Nat
  BY <1>1
<1>4. ASSUME NEW c \in CaptureTimes, NEW t \in PlanTimes
      PROVE  HoldTime + 2 * Late <= Margin + c + t
  <2>1. c \in Nat /\ 12 <= c /\ t \in Nat
    BY <1>2, <1>3
  <2> QED BY <1>1, <2>1
<1> QED BY <1>1, <1>4 DEF Timing

\* If the durations are in the relation Timing, the flag lets a goal through
\* only when the arm has finished what was asked before.
THEOREM FlagMeansDone == ASSUME Timing PROVE SafetySpec => []GuardMeansAtRest
<1>1. IInv => GuardMeansAtRest
  <2> SUFFICES ASSUME IInv, trigger = "publish" PROVE AtRest
    BY DEF GuardMeansAtRest
  <2>1. NothingPending
    BY DEF IInv, TokenInv
  <2> QED BY <2>1
          DEF IInv, RestInv, NothingPending, AtRest, TypeOK, PipelineTypeOK
<1>2. IInv /\ [Next]_vars => IInv'
  BY IInvStep
<1> QED BY InitIInv, <1>1, <1>2, PTL DEF SafetySpec

\* If the durations are in the relation Timing, every trajectory that the
\* executor starts was planned from where the arm then is.
THEOREM PlansAreCurrent == ASSUME Timing PROVE SafetySpec => StartIsCurrent
<1>1. IInv /\ [Next]_vars => [PlannedFromHere]_vars
  <2> SUFFICES ASSUME IInv, [Next]_vars, phase = "idle", phase' = "play"
               PROVE  Head(trajs).start = arm
    BY DEF PlannedFromHere
  <2>1. trajs # <<>>
    BY DEF Next, OnTrigger, Trigger, CheckFlag, Captured, NotCaptured, SendGoal,
           MarkWaiting, PublishGoal, Callbacks, TrajCb, OnCompletion, Pipeline,
           PipelineStep, TakeGoal, PublishPlan, NoPlan, StartPlay, EndPlay,
           EndHold, StartReturn, EndRamp, BeginRamp, Tick, PipelineTick, vars,
           pipeline, planner, executor
  <2> QED BY <2>1 DEF IInv, ArmInv
<1>2. IInv /\ [Next]_vars => IInv'
  BY IInvStep
<1> QED BY InitIInv, <1>1, <1>2, PTL DEF SafetySpec, StartIsCurrent
=============================================================================
