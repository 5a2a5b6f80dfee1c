--------------------------- MODULE PressSystemProofs ---------------------------
(***************************************************************************)
(* Proofs about the timing of a press, for every choice of its durations.  *)
(*                                                                         *)
(* The sequence thread is told of no arrival: the argument compares the     *)
(* time left of what it sleeps with the time left of what the executor      *)
(* does, at each place of the thread (StageInv).  A motion may begin late,  *)
(* because the executor still holds the pose of the one before; lag[s]      *)
(* bounds that delay for the motion s of the program, and Fits relates the   *)
(* lags and the durations.  No node checks this relation.                  *)
(***************************************************************************)
EXTENDS PressSystem, SequenceTheorems, TLAPS

Motions == {"pre", "press", "retreat"}
Lags == [Motions -> Nat]

Fits(lag) ==
  /\ ~AutoReturn
  \* A plan that is found is seen before the wait for it is over.
  /\ WaitTimeout > 0 /\ \A t \in PlanTimes : t < WaitTimeout
  \* Each motion is over before the buffer after it is.
  /\ \A s \in Motions : lag[s] + Late < Buffer
  \* The next motion: after a step of the hand, after a motion, after a sequence
  \* that ended with a step of the hand that failed or with a goal without plan.
  /\ \A h \in HandTimes, t \in PlanTimes :
        lag["pre"] + HoldTime + 2 * Late <= Buffer + h + t + lag["press"]
  /\ \A t \in PlanTimes : lag["press"] + HoldTime + 2 * Late <= Buffer + t + lag["retreat"]
  /\ \A s \in {"pre", "retreat"}, t \in PlanTimes :
        lag[s] + HoldTime + 2 * Late <= Buffer + Gap + t + lag["pre"]
  /\ \A s \in Motions : lag[s] <= Gap + lag["pre"]
  \* The return: the ramp is over when the wait for it is.
  /\ RampTime + Late < RampWait
  /\ \A h \in HandTimes :
        lag["retreat"] + HoldTime + RampTime + 3 * Late < Buffer + h + RampWait

\* There are lags that fit.
Timing == \E lag \in Lags : Fits(lag)

Remaining == IF phase = "hold" THEN left ELSE 0
Quiet == goals = <<>> /\ job = Idle /\ heard = <<>>
Rested == trajs = <<>> /\ returns = 0 /\ phase \in {"idle", "hold"}
SoonFree(lag, s) == \A t \in PlanTimes : Remaining <= lag[s] + t

\* The places of the sequence thread; p is the motion that is planned or made.
Asked(lag, p) ==
  /\ Len(goals) = 1 /\ job = Idle /\ heard = <<>> /\ ~trajEvent /\ Rested
  /\ wait = WaitTimeout /\ seen = arm /\ SoonFree(lag, p)
InPlanning(lag, p) ==
  /\ goals = <<>> /\ job # Idle /\ heard = <<>> /\ ~trajEvent /\ Rested
  /\ job.left < wait /\ job.start = arm /\ seen = arm
  /\ Remaining <= lag[p] + job.left
Unplanned(lag, p) ==
  Quiet /\ ~trajEvent /\ Rested /\ seen = arm /\ Remaining <= lag[p]
Announced == IF heard = <<>> THEN duration ELSE Head(heard)
Answered(lag, p) ==
  /\ goals = <<>> /\ job = Idle /\ returns = 0 /\ wait > 0
  /\ \/ heard = <<>> /\ trajEvent
     \/ Len(heard) = 1 /\ ~trajEvent
  /\ \/ /\ Len(trajs) = 1 /\ Head(trajs).time = Announced /\ Head(trajs).start = arm
        /\ phase \in {"idle", "hold"} /\ Remaining <= lag[p]
     \/ trajs = <<>> /\ phase = "play" /\ 0 < left /\ left <= Announced + Late

MotionUnderWay(lag, p) ==
  /\ Quiet /\ returns = 0
  /\ wait = 0 => seen = arm
  /\ \/ /\ Len(trajs) = 1 /\ Head(trajs).start = arm /\ phase \in {"idle", "hold"}
        /\ Remaining + Head(trajs).time + Buffer <= wait + lag[p]
     \/ trajs = <<>> /\ phase = "play" /\ left + Buffer <= wait + lag[p] + Late
     \/ /\ trajs = <<>> /\ phase \in {"idle", "hold"}
        /\ phase = "hold" => left + Buffer <= wait + lag[p] + HoldTime + 2 * Late

\* The motion before was p.
HandMoves(lag, p) ==
  /\ Quiet /\ Rested /\ seen = arm
  /\ phase = "hold" =>
       \E h \in HandTimes : wait <= h /\ left + Buffer + h <= wait + lag[p] + HoldTime + 2 * Late

Returns == Quiet /\ Rested /\ seen = arm /\ Remaining + RampTime + Late < RampWait

Ramps ==
  /\ Quiet /\ trajs = <<>>
  /\ \/ returns = 1 /\ phase \in {"idle", "hold"} /\ Remaining + RampTime + Late < wait
     \/ returns = 0 /\ phase = "ramp" /\ left < wait
     \/ returns = 0 /\ phase = "idle" /\ arm = Standing /\ (wait = 0 => seen = arm)

Between(lag) ==
  /\ Quiet /\ Rested /\ seen = arm
  /\ \A t \in PlanTimes : Remaining <= wait + t + lag["pre"]

StageInv(lag) ==
  /\ seq = "none" => Between(lag)
  /\ seq = "goal" => /\ Program[k] \in Motions /\ Quiet /\ Rested /\ seen = arm
                     /\ SoonFree(lag, Program[k])
  /\ seq = "plan" => /\ Program[k] \in Motions
                     /\ \/ Asked(lag, Program[k]) \/ InPlanning(lag, Program[k])
                        \/ Unplanned(lag, Program[k]) \/ Answered(lag, Program[k])
  /\ seq = "move" => Program[k] \in Motions /\ MotionUnderWay(lag, Program[k])
  /\ seq = "hand" => IsHand(Program[k]) /\ HandMoves(lag, Program[k - 1])
  /\ seq = "return" => Returns
  /\ seq = "ramp" => Ramps
-----------------------------------------------------------------------------
(* Sequences and the program.                                              *)

LEMMA TailFacts ==
  ASSUME NEW S, NEW q \in Seq(S), q # <<>>
  PROVE  Tail(q) \in Seq(S) /\ Head(q) \in S /\ (Len(q) = 1 => Tail(q) = <<>>)
<1>1. Tail(q) \in Seq(S) /\ Head(q) \in S
  OBVIOUS
<1>2. Len(q) = 1 => Len(Tail(q)) = 0
  OBVIOUS
<1> QED BY <1>1, <1>2, EmptySeq

LEMMA AppendFacts ==
  ASSUME NEW S, NEW q \in Seq(S), NEW x \in S
  PROVE  /\ Append(q, x) \in Seq(S)
         /\ q = <<>> => Len(Append(q, x)) = 1 /\ Head(Append(q, x)) = x
OBVIOUS

LEMMA OneIsSome == ASSUME NEW S, NEW q \in Seq(S), Len(q) = 1 PROVE q # <<>>
BY EmptySeq

LEMMA ProgramFacts ==
  /\ Len(Program) = 5
  /\ \A n \in 1 .. 5 : /\ Program[n] \in Motions <=> n \in {1, 3, 4}
                       /\ IsHand(Program[n]) <=> n \in {2, 5}
  /\ Program[1] = "pre" /\ Program[3] = "press" /\ Program[4] = "retreat"
<1>1. /\ Len(Program) = 5 /\ Program[1] = "pre" /\ Program[2] = "extend"
      /\ Program[3] = "press" /\ Program[4] = "retreat" /\ Program[5] = "close"
  BY DEF Program
<1>2. ASSUME NEW n \in 1 .. 5
      PROVE  /\ Program[n] \in Motions <=> n \in {1, 3, 4}
             /\ IsHand(Program[n]) <=> n \in {2, 5}
  BY <1>1 DEF Motions, IsHand
<1> QED BY <1>1, <1>2
-----------------------------------------------------------------------------
(* Types.                                                                  *)

LEMMA InitTypeOK == Init => TypeOK
<1> SUFFICES ASSUME Init PROVE TypeOK
  OBVIOUS
<1>1. goals \in Seq(1 .. MaxGoals) /\ heard \in Seq(MoveTimes) /\ trajs \in Seq(Plans)
  BY EmptySeq DEF Init, PipelineInit
<1>2. job \in Jobs \cup {Idle}
  BY DEF Init, PipelineInit
<1>3. /\ sent \in 0 .. MaxGoals /\ seen \in Moving .. MaxGoals /\ returns \in Nat
      /\ phase \in {"idle", "play", "hold", "ramp"} /\ left \in Nat
      /\ dest \in 0 .. MaxGoals /\ arm \in Moving .. MaxGoals
  BY PipelineAssumption DEF Init, PipelineInit, Standing, Moving
<1>4. /\ seq = "none" /\ k = 1 /\ wait \in Nat
      /\ trajEvent \in BOOLEAN /\ duration \in MoveTimes \cup {0}
  BY DEF Init
<1>5. k \in 1 .. Len(Program)
  BY <1>4, ProgramFacts
<1> QED BY <1>1, <1>2, <1>3, <1>4, <1>5 DEF TypeOK, PipelineTypeOK

LEMMA LastingType ==
  ASSUME NEW n \in Nat, Lasting(n)
  PROVE  left' \in Nat /\ n <= left' /\ left' <= n + Late
BY PipelineAssumption DEF Lasting

LEMMA JobTick ==
  ASSUME NEW j \in Jobs, j.left # 0
  PROVE  LET i == [j EXCEPT !.left = @ - 1]
         IN  i \in Jobs /\ i.start = j.start /\ i.left = j.left - 1
<1>1. j.left - 1 \in Nat
  BY DEF Jobs
<1> QED BY <1>1 DEF Jobs

\* The planner and the executor, by whichever client they are driven.
LEMMA PipelineTypeStep == TypeOK /\ PipelineStep => PipelineTypeOK'
<1> SUFFICES ASSUME PipelineTypeOK, PipelineStep PROVE PipelineTypeOK'
  BY DEF TypeOK
<1> USE PipelineAssumption DEF PipelineTypeOK, Moving, Standing
<1>1. CASE TakeGoal
  <2>1. Head(goals) \in 1 .. MaxGoals /\ goals' \in Seq(1 .. MaxGoals)
    BY <1>1, TailFacts DEF TakeGoal
  <2>2. PICK from \in {seen, arm}, t \in PlanTimes :
           job' = [goal |-> Head(goals), start |-> from, left |-> t]
    BY <1>1 DEF TakeGoal
  <2>3. job' \in Jobs
    BY <2>1, <2>2 DEF Jobs
  <2> QED BY <1>1, <2>1, <2>3 DEF TakeGoal, executor
<1>2. CASE PublishPlan
  <2>1. PICK d \in MoveTimes :
           /\ heard' = Append(heard, d)
           /\ trajs' = Append(trajs, [goal |-> job.goal, start |-> job.start, time |-> d])
    BY <1>2 DEF PublishPlan
  <2>2. [goal |-> job.goal, start |-> job.start, time |-> d] \in Plans
    BY <1>2 DEF PublishPlan, Planned, Jobs, Plans
  <2>3. heard' \in Seq(MoveTimes)
    BY <2>1, AppendFacts
  <2>4. trajs' \in Seq(Plans)
    BY <2>1, <2>2, AppendFacts
  <2> QED BY <1>2, <2>3, <2>4 DEF PublishPlan, Planned
<1>3. CASE NoPlan
  BY <1>3 DEF NoPlan, Planned, Idle, executor
<1>4. CASE StartPlay
  <2>1. Head(trajs) \in Plans /\ trajs' \in Seq(Plans)
    BY <1>4, TailFacts DEF StartPlay
  <2>2. left' \in Nat
    BY <1>4, <2>1, LastingType DEF StartPlay, Plans
  <2> QED BY <1>4, <2>1, <2>2 DEF StartPlay, planner, Plans
<1>5. CASE EndPlay
  <2>1. left' \in Nat
    BY <1>5, LastingType DEF EndPlay
  <2> QED BY <1>5, <2>1 DEF EndPlay, planner
<1>6. CASE EndHold
  <2>1. left' \in Nat
    BY <1>6, LastingType DEF EndHold, BeginRamp
  <2> QED BY <1>6, <2>1 DEF EndHold, BeginRamp, planner
<1>7. CASE StartReturn
  <2>1. left' \in Nat
    BY <1>7, LastingType DEF StartReturn, BeginRamp
  <2> QED BY <1>7, <2>1 DEF StartReturn, BeginRamp, planner
<1>8. CASE EndRamp
  BY <1>8 DEF EndRamp, planner
<1> QED BY <1>1, <1>2, <1>3, <1>4, <1>5, <1>6, <1>7, <1>8 DEF PipelineStep

\* What a tick leaves to be said of the planner and of the executor.
LEMMA TickFacts ==
  ASSUME TypeOK, Tick
  PROVE  /\ goals' = goals /\ heard = <<>> /\ heard' = <<>> /\ trajs' = trajs
         /\ seq' = seq /\ k' = k /\ trajEvent' = trajEvent /\ duration' = duration
         /\ job = Idle => job' = Idle /\ goals = <<>> /\ seen' = arm
         /\ job # Idle => /\ job' \in Jobs /\ job'.start = job.start /\ seen' = seen
                          /\ job'.left = job.left - 1 /\ job.left > 0
         /\ phase' = phase /\ returns' = returns /\ arm' = arm
         /\ phase # "idle" => left' = left - 1 /\ left > 0
         /\ phase = "idle" => left' = left /\ trajs = <<>> /\ returns = 0
         /\ wait > 0 => wait' = wait - 1
         /\ wait = 0 => wait' = 0 /\ seq = "none"
         /\ seq \notin {"goal", "return"} /\ ~(seq = "plan" /\ trajEvent)
<1> USE DEF Tick, PipelineTick, TypeOK, PipelineTypeOK
<1>1. ~PipelineDue /\ ~ClientDue
  OBVIOUS
<1>2. job = Idle => job' = Idle /\ goals = <<>> /\ seen' = arm
  BY <1>1 DEF PipelineDue
<1>3. ASSUME job # Idle
      PROVE  /\ job' \in Jobs /\ job'.start = job.start /\ seen' = seen
             /\ job'.left = job.left - 1 /\ job.left > 0
  <2>1. job \in Jobs /\ job.left # 0 /\ job' = [job EXCEPT !.left = @ - 1]
    BY <1>1, <1>3 DEF PipelineDue
  <2>2. job.left > 0
    BY <2>1 DEF Jobs
  <2> QED BY <1>3, <2>1, <2>2, JobTick
<1>4. /\ phase # "idle" => left' = left - 1 /\ left > 0
      /\ phase = "idle" => left' = left /\ trajs = <<>> /\ returns = 0
  BY <1>1 DEF PipelineDue
<1>5. /\ heard = <<>> /\ (wait = 0 => seq = "none")
      /\ seq \notin {"goal", "return"} /\ ~(seq = "plan" /\ trajEvent)
  BY <1>1 DEF ClientDue, Sleeping
<1> QED BY <1>2, <1>3, <1>4, <1>5

\* The step of the program after k.
LEMMA NextStepFacts ==
  ASSUME TypeOK, NextStep
  PROVE  /\ k' \in 1 .. 5 /\ wait' \in Nat
         /\ \/ k = 5 /\ seq' = "return" /\ k' = k /\ wait' = wait
            \/ k < 5 /\ k' = k + 1 /\ IsHand(Program[k']) /\ seq' = "hand" /\ wait' \in HandTimes
            \/ k < 5 /\ k' = k + 1 /\ ~IsHand(Program[k']) /\ seq' = "goal" /\ wait' = wait
<1>1. k \in 1 .. 5 /\ Len(Program) = 5 /\ wait \in Nat
  BY ProgramFacts DEF TypeOK
<1>2. CASE k = 5
  BY <1>1, <1>2 DEF NextStep
<1>3. CASE k # 5
  <2>1. k' = k + 1 /\ k < 5 /\ k' \in 1 .. 5
    BY <1>1, <1>3 DEF NextStep
  <2>2. CASE IsHand(Program[k + 1])
    BY <1>1, <1>3, <2>1, <2>2, PressAssumption DEF NextStep
  <2>3. CASE ~IsHand(Program[k + 1])
    BY <1>1, <1>3, <2>1, <2>3 DEF NextStep
  <2> QED BY <2>2, <2>3
<1> QED BY <1>2, <1>3

LEMMA TypeStep == TypeOK /\ [Next]_vars => TypeOK'
<1> SUFFICES ASSUME TypeOK, [Next]_vars PROVE TypeOK'
  OBVIOUS
<1> USE PipelineAssumption, PressAssumption
<1>0. /\ Len(Program) = 5 /\ k \in 1 .. 5 /\ wait \in Nat /\ 1 \in 1 .. 5
      /\ PipelineTypeOK
      /\ seq \in {"none", "goal", "plan", "move", "hand", "return", "ramp"}
      /\ trajEvent \in BOOLEAN /\ duration \in MoveTimes \cup {0}
  BY ProgramFacts DEF TypeOK
<1>1. ASSUME UNCHANGED pipeline PROVE PipelineTypeOK'
  BY <1>0, <1>1 DEF pipeline, planner, executor, PipelineTypeOK
<1>2. CASE Moved \/ HandDone
  <2>1. PipelineTypeOK' /\ UNCHANGED <<trajEvent, duration>> /\ NextStep
    BY <1>1, <1>2 DEF Moved, HandDone
  <2> QED BY <1>0, <2>1, NextStepFacts DEF TypeOK
<1>3. CASE Begin \/ PlanMissed \/ HandFails \/ RampWaited
  <2>1. PipelineTypeOK'
    BY <1>1, <1>3 DEF Begin, PlanMissed, HandFails, RampWaited
  <2>2. seq' \in {"goal", "none"} /\ k' \in 1 .. 5 /\ wait' \in Nat
    BY <1>0, <1>3 DEF Begin, PlanMissed, HandFails, RampWaited, EndSequence
  <2>3. UNCHANGED <<trajEvent, duration>>
    BY <1>3 DEF Begin, PlanMissed, HandFails, RampWaited
  <2> QED BY <1>0, <2>1, <2>2, <2>3 DEF TypeOK
<1>4. CASE PlanSeen
  <2>1. PipelineTypeOK' /\ UNCHANGED <<k, trajEvent, duration>> /\ seq' = "move"
    BY <1>1, <1>4 DEF PlanSeen
  <2>2. wait' \in Nat
    BY <1>0, <1>4 DEF PlanSeen, MotionSleep
  <2> QED BY <1>0, <2>1, <2>2 DEF TypeOK
<1>5. CASE SendGoal
  <2>1. sent' \in 0 .. MaxGoals /\ sent + 1 \in 1 .. MaxGoals
    BY <1>0, <1>5 DEF SendGoal, PublishGoal, PipelineTypeOK
  <2>2. goals' \in Seq(1 .. MaxGoals)
    BY <1>0, <1>5, <2>1, AppendFacts DEF SendGoal, PublishGoal, PipelineTypeOK
  <2>3. PipelineTypeOK'
    BY <1>0, <1>5, <2>1, <2>2 DEF SendGoal, PublishGoal, executor, PipelineTypeOK
  <2> QED BY <1>0, <1>5, <2>3 DEF SendGoal, ClearEvent, TypeOK
<1>6. CASE SendReturn
  <2>1. PipelineTypeOK'
    BY <1>0, <1>6 DEF SendReturn, PublishReturn, planner, PipelineTypeOK
  <2> QED BY <1>0, <1>6, <2>1 DEF SendReturn, RampSleep, TypeOK
<1>7. CASE TrajCb
  <2>1. heard' \in Seq(MoveTimes) /\ Head(heard) \in MoveTimes
    BY <1>0, <1>7, TailFacts DEF TrajCb, PipelineTypeOK
  <2>2. PipelineTypeOK'
    BY <1>0, <1>7, <2>1 DEF TrajCb, planner, executor, PipelineTypeOK
  <2> QED BY <1>0, <1>7, <2>1, <2>2 DEF TrajCb, TypeOK
<1>8. CASE Pipeline
  <2>1. PipelineTypeOK'
    BY <1>8, PipelineTypeStep DEF Pipeline
  <2> QED BY <1>0, <1>8, <2>1 DEF Pipeline, client, TypeOK
<1>9. CASE Tick
  <2>1. job' \in Jobs \cup {Idle}
    BY <1>0, <1>9, TickFacts DEF PipelineTypeOK
  <2>2. left' \in Nat
    <3>1. left \in Nat
      BY <1>0 DEF PipelineTypeOK
    <3> QED BY <1>9, <3>1, TickFacts
  <2>3. seen' \in Moving .. MaxGoals
    BY <1>0, <1>9, TickFacts DEF PipelineTypeOK
  <2>4. UNCHANGED <<sent, goals, heard, trajs, returns, phase, dest, arm>>
    BY <1>9 DEF Tick, PipelineTick
  <2>5. PipelineTypeOK'
    BY <1>0, <2>1, <2>2, <2>3, <2>4 DEF PipelineTypeOK
  <2>6. wait' \in Nat /\ UNCHANGED <<seq, k, trajEvent, duration>>
    BY <1>0, <1>9 DEF Tick
  <2> QED BY <1>0, <2>5, <2>6 DEF TypeOK
<1>10. CASE UNCHANGED vars
  BY <1>0, <1>1, <1>10 DEF vars, client, TypeOK
<1> QED BY <1>2, <1>3, <1>4, <1>5, <1>6, <1>7, <1>8, <1>9, <1>10
        DEF Next, Sequence
-----------------------------------------------------------------------------
(* Where the sequence thread is, and what is under way.                    *)

IInv(lag) == TypeOK /\ StageInv(lag)

LEMMA Durations ==
  ASSUME NEW lag \in Lags
  PROVE  /\ Late \in Nat /\ Buffer \in Nat /\ HoldTime \in Nat /\ HoldTime > 0
         /\ RampTime \in Nat /\ RampTime > 0 /\ RampWait \in Nat /\ Gap \in Nat
         /\ WaitTimeout \in Nat /\ PlanTimes \subseteq Nat /\ HandTimes \subseteq Nat
         /\ lag["pre"] \in Nat /\ lag["press"] \in Nat /\ lag["retreat"] \in Nat
         /\ \A s \in Motions : lag[s] \in Nat
BY PipelineAssumption, PressAssumption DEF Lags, Motions

LEMMA Numbers ==
  ASSUME TypeOK
  PROVE  /\ left \in Nat /\ wait \in Nat /\ returns \in Nat /\ Remaining \in Nat
         /\ duration \in Nat /\ k \in 1 .. 5
         /\ job # Idle => job \in Jobs /\ job.left \in Nat
<1> USE DEF TypeOK, PipelineTypeOK
<1>1. job # Idle => job \in Jobs /\ job.left \in Nat
  BY DEF Jobs
<1>2. duration \in Nat /\ k \in 1 .. 5
  BY PipelineAssumption, ProgramFacts
<1> QED BY <1>1, <1>2 DEF Remaining

LEMMA MoveTimeType == ASSUME NEW d \in MoveTimes PROVE d \in Nat /\ d > 0
BY PipelineAssumption

LEMMA Queues ==
  ASSUME TypeOK
  PROVE  /\ goals \in Seq(1 .. MaxGoals) /\ heard \in Seq(MoveTimes) /\ trajs \in Seq(Plans)
         /\ heard # <<>> => Head(heard) \in Nat /\ Head(heard) > 0
         /\ trajs # <<>> => Head(trajs) \in Plans /\ Head(trajs).time \in Nat
                            /\ Head(trajs).time > 0
<1>0. goals \in Seq(1 .. MaxGoals) /\ heard \in Seq(MoveTimes) /\ trajs \in Seq(Plans)
  BY DEF TypeOK, PipelineTypeOK
<1>1. ASSUME heard # <<>> PROVE Head(heard) \in Nat /\ Head(heard) > 0
  <2>1. Head(heard) \in MoveTimes
    BY <1>0, <1>1
  <2> QED BY <2>1, MoveTimeType
<1>2. ASSUME trajs # <<>>
      PROVE  Head(trajs) \in Plans /\ Head(trajs).time \in Nat /\ Head(trajs).time > 0
  <2>1. Head(trajs) \in Plans
    BY <1>0, <1>2
  <2>2. Head(trajs).time \in MoveTimes
    BY <2>1 DEF Plans
  <2> QED BY <2>1, <2>2, MoveTimeType
<1> QED BY <1>0, <1>1, <1>2

LEMMA Where ==
  ASSUME NEW lag \in Lags, IInv(lag)
  PROVE  /\ goals # <<>> => seq = "plan" /\ Asked(lag, Program[k])
         /\ job # Idle => seq = "plan" /\ InPlanning(lag, Program[k])
         /\ heard # <<>> => seq = "plan" /\ Answered(lag, Program[k])
         /\ trajs # <<>> \/ phase = "play" =>
              \/ seq = "plan" /\ Answered(lag, Program[k])
              \/ seq = "move" /\ MotionUnderWay(lag, Program[k])
         /\ returns # 0 \/ phase = "ramp" => seq = "ramp" /\ Ramps
         /\ seq \in {"plan", "move"} => Program[k] \in Motions
<1> USE DEF IInv, StageInv
<1>1. seq \in {"none", "goal", "plan", "move", "hand", "return", "ramp"}
  BY DEF TypeOK
<1>2. CASE seq \in {"none", "goal", "hand", "return"}
  BY <1>2 DEF Between, Quiet, Rested, HandMoves, Returns
<1>3. CASE seq = "plan"
  BY <1>3 DEF Asked, InPlanning, Unplanned, Answered, Quiet, Rested
<1>4. CASE seq = "move"
  BY <1>4 DEF MotionUnderWay, Quiet
<1>5. CASE seq = "ramp"
  BY <1>5 DEF Ramps, Quiet
<1> QED BY <1>1, <1>2, <1>3, <1>4, <1>5

LEMMA InitStage == ASSUME NEW lag \in Lags PROVE Init => IInv(lag)
<1> SUFFICES ASSUME Init PROVE IInv(lag)
  OBVIOUS
<1>1. TypeOK
  BY InitTypeOK
<1>2. \A t \in PlanTimes : 0 <= 0 + t + lag["pre"]
  BY Durations
<1> QED BY <1>1, <1>2 DEF IInv, StageInv, Init, PipelineInit, Between, Quiet, Rested, Remaining
-----------------------------------------------------------------------------
(* Steps of the client's node.                                             *)

LEMMA Stays ==
  ASSUME UNCHANGED pipeline
  PROVE  /\ Quiet' = Quiet /\ Rested' = Rested /\ Remaining' = Remaining
         /\ UNCHANGED <<goals, job, heard, trajs, returns, phase, left, seen, arm>>
BY DEF pipeline, planner, executor, Quiet, Rested, Remaining

LEMMA ClientStage ==
  ASSUME NEW lag \in Lags, Fits(lag), IInv(lag), UNCHANGED pipeline,
         Begin \/ PlanSeen \/ PlanMissed \/ Moved \/ HandDone \/ HandFails \/ RampWaited
  PROVE  StageInv(lag)'
<1>0. TypeOK /\ StageInv(lag)
  BY DEF IInv
<1>n. /\ left \in Nat /\ wait \in Nat /\ Remaining \in Nat /\ duration \in Nat
      /\ Late \in Nat /\ Buffer \in Nat /\ HoldTime \in Nat /\ HoldTime > 0
      /\ RampTime \in Nat /\ RampTime > 0 /\ RampWait \in Nat /\ Gap \in Nat
      /\ lag["pre"] \in Nat /\ lag["press"] \in Nat /\ lag["retreat"] \in Nat
  BY <1>0, Numbers, Durations
<1>m. PlanTimes \subseteq Nat /\ HandTimes \subseteq Nat /\ k \in 1 .. 5
  BY <1>0, Numbers, Durations
<1> DEFINE P == Program[k]
<1>1. CASE Begin
  <2>1. seq = "none" /\ wait = 0 /\ seq' = "goal" /\ k' = 1
    BY <1>1 DEF Begin
  <2>2. Between(lag)
    BY <1>0, <2>1 DEF StageInv
  <2>3. \A t \in PlanTimes : Remaining <= lag["pre"] + t
    BY <1>n, <1>m, <2>1, <2>2 DEF Between
  <2> QED BY <2>1, <2>2, <2>3, Stays, ProgramFacts DEF StageInv, Between, SoonFree
<1>2. CASE PlanSeen
  <2>1. seq = "plan" /\ trajEvent /\ seq' = "move" /\ wait' = duration + Buffer /\ k' = k
    BY <1>2 DEF PlanSeen, MotionSleep
  <2>2. P \in Motions /\ Answered(lag, P) /\ heard = <<>>
    BY <1>0, <2>1 DEF StageInv, Asked, InPlanning, Unplanned, Answered
  <2>3. wait' > 0 /\ wait' \in Nat /\ lag[P] \in Nat
    <3>1. trajs # <<>> => duration > 0
      BY <1>0, <2>2, Queues DEF Answered, Announced
    <3>2. lag[P] + Late < Buffer /\ lag[P] \in Nat
      BY <2>2, Durations DEF Fits
    <3> QED BY <1>n, <2>1, <3>2
  <2>4. CASE Len(trajs) = 1
    <3>1. trajs # <<>> /\ phase # "play"
      BY <1>0, <2>2, <2>4, Queues, OneIsSome DEF Answered
    <3>2. /\ Head(trajs).time = duration /\ Head(trajs).start = arm
          /\ phase \in {"idle", "hold"} /\ Remaining <= lag[P]
      BY <2>2, <3>1 DEF Answered, Announced
    <3>3. Remaining + Head(trajs).time + Buffer <= wait' + lag[P]
      BY <1>n, <2>1, <2>3, <3>2
    <3>4. MotionUnderWay(lag, P)'
      BY <2>1, <2>2, <2>3, <2>4, <3>2, <3>3, Stays DEF MotionUnderWay, Answered, Quiet
    <3> QED BY <2>1, <2>2, <3>4 DEF StageInv
  <2>5. CASE Len(trajs) # 1
    <3>1. trajs = <<>> /\ phase = "play" /\ left <= duration + Late
      BY <2>2, <2>5 DEF Answered, Announced
    <3>2. left + Buffer <= wait' + lag[P] + Late
      BY <1>n, <2>1, <2>3, <3>1
    <3>3. MotionUnderWay(lag, P)'
      BY <2>1, <2>2, <2>3, <3>1, <3>2, Stays DEF MotionUnderWay, Answered, Quiet
    <3> QED BY <2>1, <2>2, <3>3 DEF StageInv
  <2> QED BY <2>4, <2>5
<1>3. CASE PlanMissed
  <2>1. seq = "plan" /\ wait = 0 /\ seq' = "none" /\ wait' = Gap
    BY <1>3 DEF PlanMissed, TimeIsUp, EndSequence
  <2>2. P \in Motions /\ Unplanned(lag, P)
    <3>1. ~Asked(lag, P)
      BY <2>1 DEF Asked, Fits
    <3>2. ~InPlanning(lag, P)
      BY <1>0, <2>1, Numbers DEF InPlanning
    <3>3. ~Answered(lag, P)
      BY <2>1 DEF Answered
    <3> QED BY <1>0, <2>1, <3>1, <3>2, <3>3 DEF StageInv
  <2>3. \A t \in PlanTimes : Remaining <= Gap + t + lag["pre"]
    <3>1. Remaining <= lag[P] /\ lag[P] <= Gap + lag["pre"]
      BY <2>2 DEF Unplanned, Fits
    <3>2. lag[P] \in Nat
      BY <2>2, Durations
    <3> QED BY <1>n, <1>m, <3>1, <3>2
  <2> QED BY <2>1, <2>2, <2>3, Stays DEF StageInv, Between, Unplanned
<1>4. CASE Moved
  <2>1. seq = "move" /\ wait = 0 /\ NextStep
    BY <1>4 DEF Moved
  <2>2. P \in Motions /\ MotionUnderWay(lag, P) /\ lag[P] \in Nat /\ lag[P] + Late < Buffer
    BY <1>0, <2>1, Durations DEF StageInv, Fits
  <2>3. /\ Quiet /\ Rested /\ seen = arm
        /\ phase = "hold" => left + Buffer <= lag[P] + HoldTime + 2 * Late
    <3>1. ~(Len(trajs) = 1 /\ Remaining + Head(trajs).time + Buffer <= wait + lag[P])
      <4>1. Len(trajs) = 1 => Head(trajs).time \in Nat
        BY <1>0, Queues, OneIsSome
      <4> QED BY <1>n, <2>1, <2>2, <4>1
    <3>2. ~(left + Buffer <= wait + lag[P] + Late)
      BY <1>n, <2>1, <2>2
    <3>3. phase = "hold" => left + Buffer <= wait + lag[P] + HoldTime + 2 * Late
      BY <2>2, <3>1, <3>2 DEF MotionUnderWay
    <3>4. Quiet /\ Rested /\ seen = arm
      BY <2>1, <2>2, <3>1, <3>2 DEF MotionUnderWay, Rested
    <3> QED BY <1>n, <2>1, <2>2, <3>3, <3>4
  <2>4. k \in {1, 3, 4} /\ k' = k + 1
    <3>1. k \in {1, 3, 4}
      BY <1>m, <2>2, ProgramFacts
    <3> QED BY <1>0, <2>1, <3>1, NextStepFacts
  <2>5. CASE k \in {1, 4}
    <3>1. seq' = "hand" /\ wait' \in HandTimes /\ IsHand(Program[k'])
      BY <1>0, <2>1, <2>4, <2>5, NextStepFacts, ProgramFacts
    <3>2. phase = "hold" => left + Buffer + wait' <= wait' + lag[P] + HoldTime + 2 * Late
      BY <1>n, <1>m, <2>2, <2>3, <3>1
    <3>3. k' - 1 = k
      BY <1>m, <2>4
    <3>4. ASSUME phase = "hold"
          PROVE  \E h \in HandTimes : wait' <= h /\ left + Buffer + h <= wait' + lag[P] + HoldTime + 2 * Late
      <4>1. wait' \in HandTimes /\ wait' <= wait'
        BY <1>m, <3>1
      <4> QED BY <3>2, <3>4, <4>1
    <3>5. HandMoves(lag, Program[k - 1])'
      BY <2>3, <3>3, <3>4, Stays DEF HandMoves
    <3> QED BY <3>1, <3>5 DEF StageInv
  <2>6. CASE k = 3
    <3>1. seq' = "goal" /\ k' = 4
      BY <1>0, <2>1, <2>4, <2>6, NextStepFacts, ProgramFacts
    <3>2. ASSUME NEW t \in PlanTimes PROVE Remaining <= lag["retreat"] + t
      <4>1. /\ lag["press"] + HoldTime + 2 * Late <= Buffer + t + lag["retreat"]
            /\ P = "press"
        BY <2>6, ProgramFacts DEF Fits
      <4>2. Remaining + Buffer <= lag["press"] + HoldTime + 2 * Late \/ Remaining = 0
        BY <2>3, <4>1 DEF Remaining
      <4> QED BY <1>n, <1>m, <4>1, <4>2
    <3> QED BY <2>3, <3>1, <3>2, Stays, ProgramFacts DEF StageInv, SoonFree
  <2> QED BY <2>4, <2>5, <2>6
<1>5. CASE HandDone
  <2>1. seq = "hand" /\ wait = 0 /\ NextStep
    BY <1>5 DEF HandDone
  <2>2. k \in {2, 5} /\ HandMoves(lag, Program[k - 1])
    BY <1>0, <2>1, ProgramFacts, Numbers DEF StageInv
  <2>3. CASE k = 2
    <3>1. seq' = "goal" /\ k' = 3
      BY <1>0, <2>1, <2>3, NextStepFacts, ProgramFacts
    <3>2. Program[k - 1] = "pre"
      BY <2>3, ProgramFacts
    <3>3. ASSUME NEW t \in PlanTimes, phase = "hold" PROVE left <= lag["press"] + t
      <4>1. PICK h \in HandTimes : left + Buffer + h <= wait + lag["pre"] + HoldTime + 2 * Late
        BY <2>2, <3>2, <3>3 DEF HandMoves
      <4>2. lag["pre"] + HoldTime + 2 * Late <= Buffer + h + t + lag["press"]
        BY DEF Fits
      <4> QED BY <1>n, <1>m, <2>1, <4>1, <4>2
    <3>4. \A t \in PlanTimes : Remaining <= lag["press"] + t
      BY <1>n, <1>m, <3>3 DEF Remaining
    <3> QED BY <2>2, <3>1, <3>4, Stays, ProgramFacts DEF StageInv, SoonFree, HandMoves
  <2>4. CASE k = 5
    <3>1. seq' = "return"
      BY <1>0, <2>1, <2>4, NextStepFacts, ProgramFacts
    <3>2. Program[k - 1] = "retreat"
      BY <2>4, ProgramFacts
    <3>3. ASSUME phase = "hold" PROVE left + RampTime + Late < RampWait
      <4>1. PICK h \in HandTimes : left + Buffer + h <= wait + lag["retreat"] + HoldTime + 2 * Late
        BY <2>2, <3>2, <3>3 DEF HandMoves
      <4>2. lag["retreat"] + HoldTime + RampTime + 3 * Late < Buffer + h + RampWait
        BY DEF Fits
      <4> QED BY <1>n, <1>m, <2>1, <4>1, <4>2
    <3>4. Remaining + RampTime + Late < RampWait
      BY <1>n, <3>3 DEF Remaining, Fits
    <3> QED BY <2>2, <3>1, <3>4, Stays DEF StageInv, Returns, HandMoves
  <2> QED BY <2>2, <2>3, <2>4
<1>6. CASE HandFails
  <2>1. seq = "hand" /\ seq' = "none" /\ wait' = Gap
    BY <1>6 DEF HandFails, EndSequence
  <2>2. k \in {2, 5} /\ HandMoves(lag, Program[k - 1])
    BY <1>0, <2>1, ProgramFacts, Numbers DEF StageInv
  <2>3. Program[k - 1] \in {"pre", "retreat"}
    BY <2>2, ProgramFacts
  <2>4. ASSUME NEW t \in PlanTimes, phase = "hold" PROVE left <= Gap + t + lag["pre"]
    <3> DEFINE R == Program[k - 1]
    <3>1. PICK h \in HandTimes :
             wait <= h /\ left + Buffer + h <= wait + lag[R] + HoldTime + 2 * Late
      BY <2>2, <2>4 DEF HandMoves
    <3>2. lag[R] + HoldTime + 2 * Late <= Buffer + Gap + t + lag["pre"]
      BY <2>3 DEF Fits
    <3>3. lag[R] \in Nat /\ lag["pre"] \in Nat
      BY <2>3, Durations DEF Motions
    <3> HIDE DEF R
    <3> QED BY <1>n, <1>m, <3>1, <3>2, <3>3
  <2>5. \A t \in PlanTimes : Remaining <= Gap + t + lag["pre"]
    BY <1>n, <1>m, <2>4 DEF Remaining
  <2> QED BY <2>1, <2>2, <2>5, Stays DEF StageInv, Between, HandMoves
<1>7. CASE RampWaited
  <2>1. seq = "ramp" /\ wait = 0 /\ seq' = "none" /\ wait' = Gap
    BY <1>7 DEF RampWaited, EndSequence
  <2>2. Ramps
    BY <1>0, <2>1 DEF StageInv
  <2>3. returns = 0 /\ phase = "idle" /\ seen = arm /\ Quiet /\ trajs = <<>>
    BY <1>n, <2>1, <2>2 DEF Ramps
  <2>4. \A t \in PlanTimes : Remaining <= Gap + t + lag["pre"]
    BY <1>n, <1>m, <2>3 DEF Remaining
  <2> QED BY <2>1, <2>3, <2>4, Stays DEF StageInv, Between, Rested
<1> QED BY <1>1, <1>2, <1>3, <1>4, <1>5, <1>6, <1>7

\* The publications, and what is heard of a trajectory.
LEMMA MessageStage ==
  ASSUME NEW lag \in Lags, Fits(lag), IInv(lag), SendGoal \/ SendReturn \/ TrajCb
  PROVE  StageInv(lag)'
<1>0. TypeOK /\ StageInv(lag)
  BY DEF IInv
<1>n. /\ left \in Nat /\ wait \in Nat /\ Remaining \in Nat /\ returns \in Nat
      /\ Late \in Nat /\ RampTime \in Nat /\ RampWait \in Nat
  BY <1>0, Numbers, Durations
<1> DEFINE P == Program[k]
<1>1. CASE SendGoal
  <2>1. /\ seq = "goal" /\ seq' = "plan" /\ wait' = WaitTimeout /\ ~trajEvent' /\ k' = k
        /\ goals' = Append(goals, sent + 1) /\ sent + 1 \in 1 .. MaxGoals
        /\ UNCHANGED <<job, seen, heard, trajs, returns, phase, left, arm>>
    BY <1>0, <1>1, PipelineAssumption
       DEF SendGoal, PublishGoal, ClearEvent, executor, TypeOK, PipelineTypeOK
  <2>2. P \in Motions /\ Quiet /\ Rested /\ seen = arm /\ SoonFree(lag, P)
    BY <1>0, <2>1 DEF StageInv
  <2>3. Len(goals') = 1
    BY <1>0, <2>1, <2>2, Queues, AppendFacts DEF Quiet
  <2>4. Asked(lag, P)'
    BY <2>1, <2>2, <2>3 DEF Asked, Quiet, Rested, SoonFree, Remaining
  <2> QED BY <2>1, <2>2, <2>4 DEF StageInv
<1>2. CASE SendReturn
  <2>1. /\ seq = "return" /\ seq' = "ramp" /\ wait' = RampWait /\ returns' = returns + 1
        /\ UNCHANGED <<goals, job, seen, heard, trajs, phase, left, arm>>
    BY <1>2 DEF SendReturn, PublishReturn, RampSleep, planner
  <2>2. Returns
    BY <1>0, <2>1 DEF StageInv
  <2>3. returns' = 1 /\ Remaining' + RampTime + Late < wait'
    BY <1>n, <2>1, <2>2 DEF Returns, Rested, Remaining
  <2> QED BY <2>1, <2>2, <2>3 DEF StageInv, Ramps, Returns, Quiet, Rested
<1>3. CASE TrajCb
  <2>1. /\ heard # <<>> /\ heard' = Tail(heard) /\ trajEvent' /\ duration' = Head(heard)
        /\ UNCHANGED <<goals, job, seen, trajs, returns, phase, left, arm, seq, k, wait>>
    BY <1>3 DEF TrajCb, planner, executor
  <2>2. seq = "plan" /\ Answered(lag, P) /\ P \in Motions
    BY <2>1, Where
  <2>3. heard' = <<>>
    BY <1>0, <2>1, <2>2, Queues, TailFacts DEF Answered
  <2>4. Announced' = Announced /\ Remaining' = Remaining
    BY <2>1, <2>3 DEF Announced, Remaining
  <2>5. Answered(lag, P)'
    BY <2>1, <2>2, <2>3, <2>4 DEF Answered
  <2> QED BY <2>1, <2>2, <2>5 DEF StageInv
<1> QED BY <1>1, <1>2, <1>3
-----------------------------------------------------------------------------
(* Steps of the planner and of the executor.                               *)

LEMMA PlannerStage ==
  ASSUME NEW lag \in Lags, Fits(lag), IInv(lag), UNCHANGED client,
         TakeGoal \/ PublishPlan \/ NoPlan
  PROVE  StageInv(lag)'
<1>0. TypeOK /\ StageInv(lag) /\ UNCHANGED <<seq, k, wait, trajEvent, duration>>
  BY DEF IInv, client
<1>n. /\ left \in Nat /\ wait \in Nat /\ Remaining \in Nat
      /\ PlanTimes \subseteq Nat /\ WaitTimeout \in Nat
  BY <1>0, Numbers, Durations
<1> DEFINE P == Program[k]
<1>1. CASE TakeGoal
  <2>1. goals # <<>> /\ goals' = Tail(goals)
        /\ UNCHANGED <<seen, heard, trajs, returns, phase, left, arm>>
    BY <1>1 DEF TakeGoal, executor
  <2>2. seq = "plan" /\ Asked(lag, P) /\ P \in Motions
    BY <2>1, Where
  <2>3. goals' = <<>> /\ Head(goals) # 0
    <3>1. goals \in Seq(1 .. MaxGoals) /\ Len(goals) = 1
      BY <1>0, <2>2, Queues DEF Asked
    <3>2. Head(goals) \in 1 .. MaxGoals
      BY <2>1, <3>1, TailFacts
    <3> QED BY <2>1, <3>1, <3>2, TailFacts, PipelineAssumption
  <2>4. PICK t \in PlanTimes : job' = [goal |-> Head(goals), start |-> arm, left |-> t]
    BY <1>1, <2>2 DEF TakeGoal, Asked
  <2>5. job' # Idle /\ job'.start = arm /\ job'.left = t
    BY <2>3, <2>4 DEF Idle
  <2>6. Remaining' = Remaining /\ Remaining <= lag[P] + t /\ t < wait
    BY <2>1, <2>2 DEF Remaining, Asked, SoonFree, Fits
  <2>7. InPlanning(lag, P)'
    BY <1>0, <2>1, <2>2, <2>3, <2>5, <2>6 DEF InPlanning, Asked, Rested
  <2> QED BY <1>0, <2>2, <2>7 DEF StageInv
<1>2. CASE PublishPlan
  <2>1. /\ job # Idle /\ job.left = 0 /\ job' = Idle
        /\ UNCHANGED <<goals, seen, returns, phase, left, arm>>
    BY <1>2 DEF PublishPlan, Planned
  <2>2. seq = "plan" /\ InPlanning(lag, P) /\ P \in Motions
    BY <2>1, Where
  <2>3. lag[P] \in Nat /\ wait > 0 /\ Remaining <= lag[P]
    <3>1. lag[P] \in Nat
      BY <2>2, Durations
    <3> QED BY <1>n, <2>1, <2>2, <3>1 DEF InPlanning
  <2>4. PICK d \in MoveTimes :
           /\ heard' = Append(heard, d)
           /\ trajs' = Append(trajs, [goal |-> job.goal, start |-> job.start, time |-> d])
    BY <1>2 DEF PublishPlan
  <2> DEFINE T == [goal |-> job.goal, start |-> job.start, time |-> d]
  <2>5. T \in Plans /\ T.start = arm /\ T.time = d
    <3>1. job \in Jobs
      BY <1>0, <2>1, Numbers
    <3> QED BY <2>2, <3>1 DEF Jobs, Plans, InPlanning
  <2>6. heard = <<>> /\ trajs = <<>> /\ heard \in Seq(MoveTimes) /\ trajs \in Seq(Plans)
    BY <1>0, <2>2, Queues DEF InPlanning, Rested
  <2>7. Len(heard') = 1 /\ Head(heard') = d /\ heard' # <<>>
    <3>1. Len(heard') = 1 /\ Head(heard') = d /\ heard' \in Seq(MoveTimes)
      BY <2>4, <2>6, AppendFacts
    <3> QED BY <3>1, OneIsSome
  <2>8. Len(trajs') = 1 /\ Head(trajs') = T
    BY <2>4, <2>5, <2>6, AppendFacts
  <2>9. Announced' = d /\ Remaining' = Remaining
    BY <2>1, <2>7 DEF Announced, Remaining
  <2> HIDE DEF T
  <2>10. Answered(lag, P)'
    BY <1>0, <2>1, <2>2, <2>3, <2>5, <2>7, <2>8, <2>9 DEF Answered, InPlanning, Rested
  <2> QED BY <1>0, <2>2, <2>10 DEF StageInv
<1>3. CASE NoPlan
  <2>1. /\ job # Idle /\ job.left = 0 /\ job' = Idle
        /\ UNCHANGED <<goals, seen, heard, trajs, returns, phase, left, arm>>
    BY <1>3 DEF NoPlan, Planned, executor
  <2>2. seq = "plan" /\ InPlanning(lag, P) /\ P \in Motions
    BY <2>1, Where
  <2>3. Remaining' = Remaining /\ Remaining <= lag[P]
    <3>1. lag[P] \in Nat
      BY <2>2, Durations
    <3> QED BY <1>n, <2>1, <2>2, <3>1 DEF InPlanning, Remaining
  <2>4. Unplanned(lag, P)'
    BY <1>0, <2>1, <2>2, <2>3 DEF Unplanned, InPlanning, Quiet, Rested
  <2> QED BY <1>0, <2>2, <2>4 DEF StageInv
<1> QED BY <1>1, <1>2, <1>3

LEMMA EndHoldStage ==
  ASSUME NEW lag \in Lags, Fits(lag), IInv(lag), UNCHANGED client, EndHold
  PROVE  StageInv(lag)'
<1>0. TypeOK /\ StageInv(lag) /\ UNCHANGED <<seq, k, wait, trajEvent, duration>>
  BY DEF IInv, client
<1>1. /\ phase = "hold" /\ phase' = "idle" /\ left = 0 /\ left' = left
      /\ UNCHANGED <<goals, job, seen, heard, trajs, returns, arm>>
  BY DEF EndHold, planner, Fits
<1>2. Remaining = 0 /\ Remaining' = 0 /\ Announced' = Announced /\ Quiet' = Quiet
  BY <1>1, <1>0 DEF Remaining, Announced, Quiet
<1>3. Rested => Rested'
  BY <1>1 DEF Rested
<1> DEFINE P == Program[k]
<1>4. CASE seq = "none"
  BY <1>0, <1>1, <1>2, <1>3, <1>4 DEF StageInv, Between
<1>5. CASE seq = "goal"
  BY <1>0, <1>1, <1>2, <1>3, <1>5 DEF StageInv, SoonFree
<1>6. CASE seq = "plan"
  <2>1. Asked(lag, P) => Asked(lag, P)'
    BY <1>0, <1>1, <1>2, <1>3 DEF Asked, SoonFree
  <2>2. InPlanning(lag, P) => InPlanning(lag, P)'
    BY <1>0, <1>1, <1>2, <1>3 DEF InPlanning
  <2>3. Unplanned(lag, P) => Unplanned(lag, P)'
    BY <1>0, <1>1, <1>2, <1>3 DEF Unplanned
  <2>4. Answered(lag, P) => Answered(lag, P)'
    BY <1>0, <1>1, <1>2 DEF Answered
  <2> QED BY <1>0, <1>6, <2>1, <2>2, <2>3, <2>4 DEF StageInv
<1>7. CASE seq = "move"
  <2>1. MotionUnderWay(lag, P) => MotionUnderWay(lag, P)'
    BY <1>0, <1>1, <1>2 DEF MotionUnderWay
  <2> QED BY <1>0, <1>7, <2>1 DEF StageInv
<1>8. CASE seq = "hand"
  BY <1>0, <1>1, <1>2, <1>3, <1>8 DEF StageInv, HandMoves
<1>9. CASE seq = "return"
  BY <1>0, <1>1, <1>2, <1>3, <1>9 DEF StageInv, Returns
<1>10. CASE seq = "ramp"
  BY <1>0, <1>1, <1>2, <1>10 DEF StageInv, Ramps
<1> QED BY <1>0, <1>4, <1>5, <1>6, <1>7, <1>8, <1>9, <1>10 DEF TypeOK

LEMMA ExecutorStage ==
  ASSUME NEW lag \in Lags, Fits(lag), IInv(lag), UNCHANGED client,
         StartPlay \/ EndPlay \/ StartReturn \/ EndRamp
  PROVE  StageInv(lag)'
<1>0. TypeOK /\ StageInv(lag) /\ UNCHANGED <<seq, k, wait, trajEvent, duration>>
  BY DEF IInv, client
<1>n. /\ left \in Nat /\ wait \in Nat /\ Remaining \in Nat /\ returns \in Nat
      /\ Late \in Nat /\ Buffer \in Nat /\ HoldTime \in Nat
      /\ RampTime \in Nat /\ RampTime > 0
  BY <1>0, Numbers, Durations
<1> DEFINE P == Program[k]
<1>m. P \in Motions => lag[P] \in Nat /\ lag[P] + Late < Buffer
  BY Durations DEF Fits
<1>1. CASE StartPlay
  <2>1. /\ phase = "idle" /\ trajs # <<>> /\ phase' = "play" /\ trajs' = Tail(trajs)
        /\ Lasting(Head(trajs).time)
        /\ UNCHANGED <<goals, job, seen, heard, returns>>
    BY <1>1 DEF StartPlay, planner
  <2> DEFINE d == Head(trajs).time
  <2>2. d \in Nat /\ d > 0 /\ trajs \in Seq(Plans)
    BY <1>0, <2>1, Queues
  <2>3. left' \in Nat /\ d <= left' /\ left' <= d + Late
    BY <2>1, <2>2, LastingType
  <2>4. Len(trajs) = 1 => trajs' = <<>>
    BY <2>1, <2>2, TailFacts
  <2>5. Announced' = Announced /\ Quiet' = Quiet /\ Remaining = 0
    BY <1>0, <2>1 DEF Announced, Quiet, Remaining
  <2>6. CASE seq = "plan" /\ Answered(lag, P) /\ P \in Motions
    <3>1. Len(trajs) = 1 /\ d = Announced
      BY <2>1, <2>6 DEF Answered
    <3> HIDE DEF d
    <3>2. 0 < left' /\ left' <= Announced' + Late
      BY <1>n, <2>2, <2>3, <2>5, <3>1
    <3>3. Answered(lag, P)'
      BY <1>0, <2>1, <2>4, <2>5, <2>6, <3>1, <3>2 DEF Answered
    <3> QED BY <1>0, <2>6, <3>3 DEF StageInv
  <2>7. CASE seq = "move" /\ MotionUnderWay(lag, P) /\ P \in Motions
    <3>1. Len(trajs) = 1 /\ Remaining + d + Buffer <= wait + lag[P]
      BY <2>1, <2>7 DEF MotionUnderWay
    <3> HIDE DEF d
    <3>2. wait > 0 /\ left' + Buffer <= wait + lag[P] + Late
      BY <1>n, <1>m, <2>2, <2>3, <2>5, <2>7, <3>1
    <3>3. MotionUnderWay(lag, P)'
      BY <1>0, <2>1, <2>4, <2>5, <2>7, <3>1, <3>2 DEF MotionUnderWay
    <3> QED BY <1>0, <2>7, <3>3 DEF StageInv
  <2> QED BY <2>1, <2>6, <2>7, Where
<1>2. CASE EndPlay
  <2>1. /\ phase = "play" /\ left = 0 /\ phase' = "hold" /\ Lasting(HoldTime)
        /\ UNCHANGED <<goals, job, seen, heard, trajs, returns>>
    BY <1>2 DEF EndPlay, planner
  <2>2. seq = "move" /\ MotionUnderWay(lag, P) /\ P \in Motions
    <3>1. ~Answered(lag, P)
      BY <2>1 DEF Answered
    <3> QED BY <2>1, <3>1, Where
  <2>3. left + Buffer <= wait + lag[P] + Late /\ trajs = <<>> /\ Quiet /\ returns = 0
    BY <2>1, <2>2 DEF MotionUnderWay
  <2>4. left' \in Nat /\ left' <= HoldTime + Late
    BY <1>n, <2>1, LastingType
  <2>5. wait > 0 /\ left' + Buffer <= wait + lag[P] + HoldTime + 2 * Late
    <3>1. lag[P] \in Nat /\ lag[P] + Late < Buffer
      BY <1>m, <2>2
    <3>2. Buffer <= wait + lag[P] + Late
      BY <1>n, <2>1, <2>3, <3>1
    <3>3. wait > 0
      BY <1>n, <3>1, <3>2
    <3>4. left' + Buffer <= wait + lag[P] + HoldTime + 2 * Late
      BY <1>n, <2>4, <3>1, <3>2
    <3> QED BY <3>3, <3>4
  <2>6. MotionUnderWay(lag, P)'
    BY <1>0, <2>1, <2>3, <2>5 DEF MotionUnderWay, Quiet
  <2> QED BY <1>0, <2>2, <2>6 DEF StageInv
<1>3. CASE StartReturn
  <2>1. /\ phase = "idle" /\ returns > 0 /\ returns' = returns - 1 /\ phase' = "ramp"
        /\ Lasting(RampTime) /\ UNCHANGED <<goals, job, seen, heard, trajs>>
    BY <1>3 DEF StartReturn, BeginRamp, planner
  <2>2. seq = "ramp" /\ Ramps
    BY <1>n, <2>1, Where
  <2>3. returns = 1 /\ RampTime + Late < wait
    BY <1>n, <2>1, <2>2 DEF Ramps, Remaining
  <2>4. left' \in Nat /\ left' <= RampTime + Late
    BY <1>n, <2>1, LastingType
  <2>5. returns' = 0 /\ left' < wait
    BY <1>n, <2>1, <2>3, <2>4
  <2> QED BY <1>0, <2>1, <2>2, <2>5 DEF StageInv, Ramps, Quiet
<1>4. CASE EndRamp
  <2>1. /\ phase = "ramp" /\ left = 0 /\ phase' = "idle" /\ arm' = Standing
        /\ UNCHANGED <<goals, job, seen, heard, trajs, returns>>
    BY <1>4 DEF EndRamp, planner
  <2>2. seq = "ramp" /\ Ramps
    BY <2>1, Where
  <2>3. returns = 0 /\ left < wait /\ Quiet /\ trajs = <<>>
    BY <2>1, <2>2 DEF Ramps
  <2>4. wait # 0
    BY <1>n, <2>1, <2>3
  <2> QED BY <1>0, <2>1, <2>2, <2>3, <2>4 DEF StageInv, Ramps, Quiet
<1> QED BY <1>1, <1>2, <1>3, <1>4
-----------------------------------------------------------------------------
(* The clock.                                                              *)

LEMMA TickStage ==
  ASSUME NEW lag \in Lags, Fits(lag), IInv(lag), Tick
  PROVE  StageInv(lag)'
<1>0. /\ TypeOK /\ StageInv(lag) /\ UNCHANGED <<seq, k, trajEvent, duration>>
      /\ UNCHANGED <<goals, heard, trajs, returns, phase, arm>> /\ heard = <<>>
  BY TickFacts DEF IInv
<1>n. /\ left \in Nat /\ wait \in Nat /\ Remaining \in Nat /\ returns \in Nat
      /\ Late \in Nat /\ Buffer \in Nat /\ HoldTime \in Nat
      /\ RampTime \in Nat /\ RampTime > 0 /\ lag["pre"] \in Nat
      /\ PlanTimes \subseteq Nat /\ HandTimes \subseteq Nat
  BY <1>0, Numbers, Durations
<1>1. /\ phase = "hold" => left' = left - 1 /\ left > 0 /\ Remaining = left
                           /\ Remaining' = Remaining - 1
      /\ phase # "hold" => Remaining = 0 /\ Remaining' = 0
      /\ seq # "none" => wait > 0 /\ wait' = wait - 1
      /\ Quiet => Quiet' /\ seen' = arm
      /\ Rested' = Rested
  <2>1. phase = "hold" => left' = left - 1 /\ left > 0 /\ Remaining = left
                          /\ Remaining' = Remaining - 1
    BY <1>0, TickFacts DEF Remaining
  <2>2. phase # "hold" => Remaining = 0 /\ Remaining' = 0
    BY <1>0 DEF Remaining
  <2>3. seq # "none" => wait > 0 /\ wait' = wait - 1
    BY <1>0, <1>n, TickFacts
  <2>4. Quiet => Quiet' /\ seen' = arm
    BY <1>0, TickFacts DEF Quiet
  <2>5. Rested' = Rested
    BY <1>0 DEF Rested
  <2> QED BY <2>1, <2>2, <2>3, <2>4, <2>5
<1> DEFINE P == Program[k]
<1>m. P \in Motions => lag[P] \in Nat
  BY Durations
<1>2. CASE seq = "none"
  <2>1. Between(lag) /\ wait' = IF wait > 0 THEN wait - 1 ELSE 0
    BY <1>0, <1>2 DEF StageInv, Tick
  <2>2. ASSUME NEW t \in PlanTimes PROVE Remaining' <= wait' + t + lag["pre"]
    <3>1. Remaining <= wait + t + lag["pre"] /\ t \in Nat
      BY <1>n, <2>1 DEF Between
    <3>2. wait > 0 => wait' = wait - 1
      BY <2>1
    <3>3. wait = 0 => wait' = 0
      BY <2>1
    <3>4. CASE phase = "hold"
      <4>1. Remaining' = Remaining - 1
        BY <1>1, <3>4
      <4> QED BY <1>n, <3>1, <3>2, <3>3, <4>1
    <3>5. CASE phase # "hold"
      <4>1. Remaining' = 0
        BY <1>1, <3>5
      <4> QED BY <1>n, <3>1, <3>2, <3>3, <4>1
    <3> QED BY <3>4, <3>5
  <2> QED BY <1>0, <1>1, <1>2, <2>1, <2>2 DEF StageInv, Between
<1>3. CASE seq = "plan"
  <2>1. ~Asked(lag, P)
    <3>1. job = Idle => goals = <<>>
      BY <1>0, TickFacts
    <3>2. goals = <<>> => Len(goals) # 1
      BY EmptySeq
    <3> QED BY <3>1, <3>2 DEF Asked
  <2>2. ~Answered(lag, P)
    <3>1. ~trajEvent
      BY <1>0, <1>3, TickFacts
    <3>2. Len(heard) # 1
      BY <1>0, EmptySeq
    <3> QED BY <3>1, <3>2 DEF Answered
  <2>3. ASSUME InPlanning(lag, P), P \in Motions PROVE InPlanning(lag, P)'
    <3>1. job' \in Jobs /\ job'.start = job.start /\ job'.left = job.left - 1 /\ job.left > 0 /\ seen' = seen
      BY <1>0, <2>3, TickFacts DEF InPlanning
    <3>2. job' # Idle
      BY <3>1, PipelineAssumption DEF Jobs, Idle
    <3>3. job.left \in Nat /\ job.left < wait /\ Remaining <= lag[P] + job.left
      BY <1>0, <2>3, Numbers DEF InPlanning
    <3>4. job'.left < wait' /\ Remaining' <= lag[P] + job'.left
      BY <1>n, <1>m, <1>1, <1>3, <2>3, <3>1, <3>3
    <3> QED BY <1>0, <1>1, <2>3, <3>1, <3>2, <3>4 DEF InPlanning
  <2>4. ASSUME Unplanned(lag, P), P \in Motions PROVE Unplanned(lag, P)'
    <3>1. Remaining' <= lag[P]
      BY <1>n, <1>m, <1>1, <2>4 DEF Unplanned
    <3> QED BY <1>0, <1>1, <2>4, <3>1 DEF Unplanned
  <2> QED BY <1>0, <1>3, <2>1, <2>2, <2>3, <2>4 DEF StageInv
<1>4. CASE seq = "move"
  <2>1. P \in Motions /\ MotionUnderWay(lag, P) /\ lag[P] \in Nat
    BY <1>0, <1>m, <1>4 DEF StageInv
  <2>2. wait > 0 /\ wait' = wait - 1 /\ Quiet' /\ seen' = arm' /\ returns' = 0
    BY <1>0, <1>1, <1>4, <2>1 DEF MotionUnderWay
  <2>3. CASE /\ Len(trajs) = 1 /\ Head(trajs).start = arm /\ phase \in {"idle", "hold"}
             /\ Remaining + Head(trajs).time + Buffer <= wait + lag[P]
    <3>1. trajs # <<>> /\ Head(trajs).time \in Nat
      BY <1>0, <2>3, Queues, OneIsSome
    <3>2. phase = "hold"
      BY <1>0, <2>3, <3>1, TickFacts
    <3>3. Remaining' + Head(trajs).time + Buffer <= wait' + lag[P]
      BY <1>n, <1>1, <2>1, <2>2, <2>3, <3>1, <3>2
    <3>4. MotionUnderWay(lag, P)'
      BY <1>0, <2>2, <2>3, <3>3 DEF MotionUnderWay
    <3> QED BY <1>0, <1>4, <2>1, <3>4 DEF StageInv
  <2>4. CASE trajs = <<>> /\ phase = "play" /\ left + Buffer <= wait + lag[P] + Late
    <3>1. left' = left - 1
      BY <1>0, <2>4, TickFacts
    <3>2. left' + Buffer <= wait' + lag[P] + Late
      BY <1>n, <2>1, <2>2, <2>4, <3>1
    <3>3. MotionUnderWay(lag, P)'
      BY <1>0, <2>2, <2>4, <3>2 DEF MotionUnderWay
    <3> QED BY <1>0, <1>4, <2>1, <3>3 DEF StageInv
  <2>5. CASE /\ trajs = <<>> /\ phase \in {"idle", "hold"}
             /\ phase = "hold" => left + Buffer <= wait + lag[P] + HoldTime + 2 * Late
    <3>1. phase = "hold" => left' + Buffer <= wait' + lag[P] + HoldTime + 2 * Late
      BY <1>n, <1>1, <2>1, <2>2, <2>5
    <3>2. MotionUnderWay(lag, P)'
      BY <1>0, <2>2, <2>5, <3>1 DEF MotionUnderWay
    <3> QED BY <1>0, <1>4, <2>1, <3>2 DEF StageInv
  <2> QED BY <2>1, <2>3, <2>4, <2>5 DEF MotionUnderWay
<1>5. CASE seq = "hand"
  <2> DEFINE R == Program[k - 1]
  <2>1. IsHand(P) /\ HandMoves(lag, R) /\ R \in {"pre", "retreat"}
    <3>1. IsHand(P) /\ HandMoves(lag, R)
      BY <1>0, <1>5 DEF StageInv
    <3>2. k \in {2, 5}
      BY <1>0, <3>1, Numbers, ProgramFacts
    <3> QED BY <3>1, <3>2, ProgramFacts
  <2>2. lag[R] \in Nat
    BY <2>1, Durations DEF Motions
  <2>3. wait > 0 /\ wait' = wait - 1
    BY <1>1, <1>5
  <2>4. ASSUME phase = "hold"
        PROVE  \E h \in HandTimes : wait' <= h /\ left' + Buffer + h <= wait' + lag[R] + HoldTime + 2 * Late
    <3>1. PICK h \in HandTimes : wait <= h /\ left + Buffer + h <= wait + lag[R] + HoldTime + 2 * Late
      BY <2>1, <2>4 DEF HandMoves
    <3> HIDE DEF R
    <3>2. wait' <= h /\ left' + Buffer + h <= wait' + lag[R] + HoldTime + 2 * Late
      BY <1>n, <1>1, <2>2, <2>3, <2>4, <3>1
    <3> QED BY <3>2
  <2>5. HandMoves(lag, R)'
    BY <1>0, <1>1, <2>1, <2>4 DEF HandMoves
  <2> QED BY <1>0, <1>5, <2>1, <2>5 DEF StageInv
<1>6. CASE seq = "ramp"
  <2>1. Ramps /\ wait > 0 /\ wait' = wait - 1 /\ Quiet' /\ seen' = arm'
    BY <1>0, <1>1, <1>6 DEF StageInv, Ramps
  <2>2. returns # 0 => phase = "hold" \/ phase = "ramp" \/ phase = "play"
    BY <1>0, TickFacts DEF TypeOK, PipelineTypeOK
  <2>3. phase = "ramp" => left' = left - 1
    BY <1>0, TickFacts
  <2>4. Ramps'
    BY <1>0, <1>n, <1>1, <2>1, <2>2, <2>3 DEF Ramps
  <2> QED BY <1>0, <1>6, <2>4 DEF StageInv
<1>7. seq \notin {"goal", "return"}
  BY <1>0, TickFacts
<1> QED BY <1>0, <1>2, <1>3, <1>4, <1>5, <1>6, <1>7 DEF TypeOK
-----------------------------------------------------------------------------
(* The theorems.                                                           *)

LEMMA IInvStep == ASSUME NEW lag \in Lags, Fits(lag) PROVE IInv(lag) /\ [Next]_vars => IInv(lag)'
<1> SUFFICES ASSUME IInv(lag), [Next]_vars PROVE IInv(lag)'
  OBVIOUS
<1>1. TypeOK'
  BY TypeStep DEF IInv
<1>2. StageInv(lag)'
  <2>1. CASE Begin \/ PlanSeen \/ PlanMissed \/ Moved \/ HandDone \/ HandFails \/ RampWaited
    <3>1. UNCHANGED pipeline
      BY <2>1 DEF Begin, PlanSeen, PlanMissed, Moved, HandDone, HandFails, RampWaited
    <3> QED BY <2>1, <3>1, ClientStage
  <2>2. CASE SendGoal \/ SendReturn \/ TrajCb
    BY <2>2, MessageStage
  <2>3. CASE Pipeline
    <3>1. UNCHANGED client /\ PipelineStep
      BY <2>3 DEF Pipeline
    <3> QED BY <3>1, PlannerStage, EndHoldStage, ExecutorStage DEF PipelineStep
  <2>4. CASE Tick
    BY <2>4, TickStage
  <2>5. CASE UNCHANGED vars
    BY <2>5 DEF IInv, vars, client, pipeline, planner, executor, StageInv, Between, Quiet,
       Rested, Remaining, SoonFree, Asked, InPlanning, Unplanned, Answered, Announced,
       MotionUnderWay, HandMoves, Returns, Ramps
  <2> QED BY <2>1, <2>2, <2>3, <2>4, <2>5 DEF Next, Sequence
<1> QED BY <1>1, <1>2 DEF IInv

\* Every variable of the sequence, the planner and the executor keeps its type.
THEOREM TypeCorrect == Spec => []TypeOK
<1>1. TypeOK /\ [Next]_vars => TypeOK'
  BY TypeStep
<1> QED BY InitTypeOK, <1>1, PTL DEF Spec

\* The numbers of the code, with 100 ms of lateness and a pause of 350 ms after a
\* sequence, are timed as the theorems below ask for: each motion starts up to 350 ms
\* late, but for the press, which the hand step before it leaves time for.
LEMMA TimingOfTheCode ==
  ASSUME ~AutoReturn, HoldTime = 20, RampTime = 60, WaitTimeout = 100, Buffer = 16,
         RampWait = 70, Late <= 2, Gap >= 7,
         \A t \in PlanTimes : 0 < t /\ t < 100,
         \A h \in HandTimes : 20 <= h
  PROVE  Timing
<1> DEFINE lag == [m \in Motions |-> IF m = "press" THEN 0 ELSE 7]
<1>1. lag \in Lags /\ lag["pre"] = 7 /\ lag["press"] = 0 /\ lag["retreat"] = 7
  BY DEF Lags, Motions
<1>2. \A m \in Motions : lag[m] \in 0 .. 7
  BY DEF Motions
<1>3. Late \in Nat /\ Gap \in Nat /\ PlanTimes \subseteq Nat /\ HandTimes \subseteq Nat
  BY PipelineAssumption, PressAssumption
<1> HIDE DEF lag
<1>4. \A h \in HandTimes : h \in Nat /\ 20 <= h
  BY <1>3
<1>5. \A t \in PlanTimes : t \in Nat /\ 0 < t /\ t < 100
  BY <1>3
<1>6. /\ \A m \in Motions : lag[m] + Late < Buffer
      /\ \A m \in Motions : lag[m] <= Gap + lag["pre"]
  BY <1>1, <1>2, <1>3
<1>7. /\ \A h \in HandTimes, t \in PlanTimes :
            lag["pre"] + HoldTime + 2 * Late <= Buffer + h + t + lag["press"]
      /\ \A h \in HandTimes :
            lag["retreat"] + HoldTime + RampTime + 3 * Late < Buffer + h + RampWait
      /\ RampTime + Late < RampWait
  BY <1>1, <1>3, <1>4, <1>5
<1>8. /\ \A t \in PlanTimes :
            lag["press"] + HoldTime + 2 * Late <= Buffer + t + lag["retreat"]
      /\ \A m \in {"pre", "retreat"}, t \in PlanTimes :
            lag[m] + HoldTime + 2 * Late <= Buffer + Gap + t + lag["pre"]
  BY <1>1, <1>3, <1>5
<1>9. Fits(lag)
  BY <1>3, <1>5, <1>6, <1>7, <1>8 DEF Fits
<1> QED BY <1>1, <1>9 DEF Timing

\* If the durations are in the relation Timing, a goal is published, and a return
\* requested, only when the arm has arrived where the goal before sent it and
\* nothing is left to plan or to play, also after a sequence that failed
\* (apriltag_button_press_node's sleeps against the executor's phases).
THEOREM GoalsAtRest == ASSUME Timing PROVE Spec => []PressesAtRest
<1>1. PICK lag \in Lags : Fits(lag)
  BY DEF Timing
<1>2. Init => IInv(lag)
  BY InitStage
<1>3. IInv(lag) /\ [Next]_vars => IInv(lag)'
  BY <1>1, IInvStep
<1>4. IInv(lag) => PressesAtRest
  BY DEF IInv, StageInv, PressesAtRest, AtRest, Quiet, Rested, Returns
<1> QED BY <1>2, <1>3, <1>4, PTL DEF Spec

\* Under the same relation every trajectory starts where the arm is when it is
\* played: the press moves on from the point of contact that it has reached.
THEOREM PlansAreCurrent == ASSUME Timing PROVE Spec => StartIsCurrent
<1>1. PICK lag \in Lags : Fits(lag)
  BY DEF Timing
<1>2. Init => IInv(lag)
  BY InitStage
<1>3. IInv(lag) /\ [Next]_vars => IInv(lag)'
  BY <1>1, IInvStep
<1>4. IInv(lag) /\ [Next]_vars => [PlannedFromHere]_vars
  <2> SUFFICES ASSUME IInv(lag), [Next]_vars, phase = "idle", phase' = "play"
               PROVE  Head(trajs).start = arm
    BY DEF PlannedFromHere
  <2>1. trajs # <<>>
    BY DEF Next, Begin, TrajCb, Sequence, SendGoal, PublishGoal, PlanSeen, PlanMissed, Moved,
       HandDone, HandFails, SendReturn, PublishReturn, RampWaited, Pipeline, PipelineStep,
       TakeGoal, PublishPlan, NoPlan, StartPlay, EndPlay, EndHold, StartReturn, EndRamp,
       BeginRamp, Tick, PipelineTick, vars, pipeline, planner, executor
  <2> QED BY <2>1, Where DEF Answered, MotionUnderWay
<1> QED BY <1>2, <1>3, <1>4, PTL DEF Spec, StartIsCurrent

\* Under the same relation "press complete" is said of an arm that stands: the
\* fixed wait of _return_to_standing outlasts the hold and the ramp.
THEOREM CompleteIsTrue == ASSUME Timing PROVE Spec => CompleteMeansStanding
<1>1. PICK lag \in Lags : Fits(lag)
  BY DEF Timing
<1>2. Init => IInv(lag)
  BY InitStage
<1>3. IInv(lag) /\ [Next]_vars => IInv(lag)'
  BY <1>1, IInvStep
<1>4. IInv(lag) /\ [Next]_vars => [seq = "ramp" /\ seq' = "none" => phase = "idle" /\ arm = Standing]_vars
  <2> SUFFICES ASSUME IInv(lag), [Next]_vars, seq = "ramp", seq' = "none"
               PROVE  phase = "idle" /\ arm = Standing
    OBVIOUS
  <2>1. wait = 0
    BY DEF Next, Begin, TrajCb, Sequence, SendGoal, PlanSeen, PlanMissed, Moved, HandDone,
       HandFails, SendReturn, RampWaited, Pipeline, Tick, vars, client
  <2>2. Ramps /\ TypeOK
    BY DEF IInv, StageInv
  <2>3. left \in Nat /\ Remaining \in Nat /\ RampTime \in Nat /\ Late \in Nat
    BY <2>2, Numbers, Durations
  <2> QED BY <2>1, <2>2, <2>3 DEF Ramps
<1> QED BY <1>2, <1>3, <1>4, PTL DEF Spec, CompleteMeansStanding
=============================================================================
