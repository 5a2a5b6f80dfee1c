---------------------- MODULE TrajectoryExecutorProofs ----------------------
(***************************************************************************)
(* The safety of TrajectoryExecutor for every number of ramp steps, every  *)
(* queue depth, every set of messages and both settings of                 *)
(* auto_return_to_standing.                                                *)
(***************************************************************************)
EXTENDS TrajectoryExecutor, SequenceTheorems, TLAPS

Ramping == pc \in {"ramp", "final_ramp"}

\* A collected subscription still has its message when its turn comes.
CollectedIsPending == pc = "dispatch" => ready # {} /\ ready \subseteq Pending

\* busy_ is set exactly while a callback or the final ramp runs.
BusyInv == busy <=> pc \in InCallback \cup {"final_ramp"}

\* Both caches are filled by the first lowstate frame, and only a filled cache
\* lets a ramp run.
CacheInv == /\ latest = NoPose <=> standing = NoPose
            /\ rampDone => standing # NoPose

\* A ramp has both its ends; the weight it has reached is told by its step, and
\* outside a ramp the weight is at one of its two ends.
RampInv ==
  /\ Ramping => anchor \in Int /\ standing \in Int
  /\ Ramping /\ step > 0 => cmd.w = RampSteps - (step - 1)
  /\ step = 0 => cmd.w \in {0, RampSteps}
  /\ ~Ramping => step = 0

\* While a trajectory plays undisturbed the last command is its last waypoint.
PlayInv ==
  /\ pc = "hold" => anchor \in Int
  /\ pc = "segment" => wp >= 2
  /\ pc \in {"first", "segment"} => (sub > 0 => wp <= Len(points))
  /\ pc = "first" => sub = 0
  /\ pc \notin {"first", "segment", "hold"} => sub = 0
  /\ pc = "segment" /\ ~shutdown /\ points # <<>> =>
       /\ wp <= Len(points) + 1
       /\ sub = 0 => cmd.q = Clamp(points[wp - 1])

\* What is known of the weight when no callback runs.
ReleaseInv ==
  /\ pc = "final_ramp" => ~AutoReturn
  /\ pc \notin InCallback /\ AutoReturn /\ rampDone => cmd.w = 0
  /\ pc \in {"teardown", "exited"} /\ ~AutoReturn =>
       cmd.w = 0 \/ rampDone \/ standing = NoPose

IInv == /\ TypeOK
        /\ CollectedIsPending
        /\ BusyInv
        /\ CacheInv
        /\ RampInv
        /\ PlayInv
        /\ HandoverIsContinuous
        /\ ReleaseInv

-----------------------------------------------------------------------------
LEMMA KeepLastType ==
  ASSUME NEW S, NEW q \in Seq(S), NEW e \in S
  PROVE  /\ KeepLast(Append(q, e)) \in Seq(S)
         /\ KeepLast(Append(q, e)) # <<>>
<1>1. /\ Append(q, e) \in Seq(S)
      /\ Len(Append(q, e)) = Len(q) + 1
      /\ Append(q, e) # <<>>
  BY AppendProperties
<1>2. /\ Tail(Append(q, e)) \in Seq(S)
      /\ Len(Tail(Append(q, e))) = Len(q)
  BY <1>1, HeadTailProperties
<1>3. CASE Len(Append(q, e)) > Depth
  <2>1. Len(q) > 0
    BY <1>1, <1>3, LenProperties, ExecutorAssumption DEF ExecutorAssumption
  <2>2. Tail(Append(q, e)) # <<>>
    BY <2>1, <1>2, EmptySeq
  <2>3. QED
    BY <1>2, <1>3, <2>2 DEF KeepLast
<1>4. CASE ~(Len(Append(q, e)) > Depth)
  BY <1>1, <1>4 DEF KeepLast
<1>5. QED
  BY <1>3, <1>4

LEMMA LerpType ==
  ASSUME NEW a \in Int, NEW b \in Int, NEW k \in Nat, NEW n \in Nat \ {0}
  PROVE  Lerp(a, b, k, n) \in Int
<1>1. (b - a) * k \in Int
  OBVIOUS
<1>2. ((b - a) * k) \div n \in Int
  BY <1>1
<1>3. QED
  BY <1>2 DEF Lerp

LEMMA ClampType == ASSUME NEW q \in Int PROVE Clamp(q) \in Int
BY ExecutorAssumption DEF Clamp, ExecutorAssumption

LEMMA InitIInv == Init => IInv
<1> SUFFICES ASSUME Init PROVE IInv
  OBVIOUS
<1> USE ExecutorAssumption DEF Init
<1>1. TypeOK
  <2>1. trajQ \in Seq(Messages) /\ lowQ \in Seq(Int) /\ points \in Seq(Int)
    BY EmptySeq
  <2>2. /\ retQ \in 0 .. Depth /\ wp \in Nat /\ sub \in 0 .. (SubSteps - 1)
        /\ step \in 0 .. RampSteps
    BY DEF ExecutorAssumption
  <2>3. cmd \in [w: 0 .. RampSteps, q: Int]
    BY DEF ExecutorAssumption
  <2>4. /\ pc \in Phases /\ ready \subseteq Subscriptions
        /\ latest \in Int \cup {NoPose} /\ standing \in Int \cup {NoPose}
        /\ anchor \in Int \cup {NoPose}
        /\ busy \in BOOLEAN /\ rampDone \in BOOLEAN /\ shutdown \in BOOLEAN
    BY DEF Phases, InCallback
  <2>5. QED
    BY <2>1, <2>2, <2>3, <2>4 DEF TypeOK
<1>2. CollectedIsPending /\ BusyInv /\ CacheInv
  BY DEF CollectedIsPending, BusyInv, CacheInv, InCallback
<1>3. RampInv /\ PlayInv /\ HandoverIsContinuous
  BY DEF RampInv, PlayInv, HandoverIsContinuous, Ramping
<1>4. ReleaseInv
  BY DEF ReleaseInv, InCallback
<1>5. QED
  BY <1>1, <1>2, <1>3, <1>4 DEF IInv
LEMMA EndpointType == ASSUME TypeOK PROVE Endpoint \in Int
<1>1. CASE points # <<>>
  <2>1. points[Len(points)] \in Int
    BY <1>1 DEF TypeOK
  <2>2. Clamp(points[Len(points)]) \in Int
    BY <2>1, ClampType
  <2>3. QED
    BY <1>1, <2>2 DEF Endpoint
<1>2. CASE points = <<>>
  BY <1>2 DEF Endpoint, TypeOK
<1>3. QED
  BY <1>1, <1>2

\* One publication of a ramp that has both its ends.
LEMMA RampPublishEffect ==
  ASSUME TypeOK, RampInv, Ramping, RampPublish
  PROVE  /\ cmd' \in [w: 0 .. RampSteps, q: Int]
         /\ cmd'.w = RampSteps - step
         /\ step' \in 0 .. RampSteps
         /\ anchor' \in Int \cup {NoPose}
         /\ rampDone' \in BOOLEAN
         /\ \/ step < RampSteps /\ step' = step + 1 /\ anchor' = anchor
                                /\ rampDone' = rampDone
            \/ step = RampSteps /\ step' = 0 /\ rampDone' = TRUE
<1> USE ExecutorAssumption DEF ExecutorAssumption
<1>1. step \in 0 .. RampSteps /\ RampSteps \in Nat \ {0}
  BY DEF TypeOK
<1>2. Lerp(anchor, standing, step, RampSteps) \in Int
  BY <1>1, LerpType DEF RampInv
<1>3. /\ cmd' = [w |-> RampSteps - step,
                 q |-> Lerp(anchor, standing, step, RampSteps)]
      /\ IF step < RampSteps
         THEN step' = step + 1 /\ anchor' = anchor /\ rampDone' = rampDone
         ELSE step' = 0 /\ anchor' = NoPose /\ rampDone' = TRUE
  BY DEF RampPublish, Command
<1>4. cmd' \in [w: 0 .. RampSteps, q: Int] /\ cmd'.w = RampSteps - step
  BY <1>1, <1>2, <1>3
<1>5. \/ step < RampSteps /\ step' = step + 1 /\ anchor' = anchor
                          /\ rampDone' = rampDone
      \/ step = RampSteps /\ step' = 0 /\ anchor' = NoPose /\ rampDone' = TRUE
  BY <1>1, <1>3
<1>6. step' \in 0 .. RampSteps
  BY <1>1, <1>5
<1>7. anchor' \in Int \cup {NoPose} /\ rampDone' \in BOOLEAN
  BY <1>5 DEF TypeOK
<1>8. QED
  BY <1>4, <1>5, <1>6, <1>7

-----------------------------------------------------------------------------
LEMMA ExecutorStep == ASSUME IInv, Executor PROVE IInv'
<1> USE ExecutorAssumption DEF queues, cache, playing, ramping
<1>1. CASE Poll
  <2>1. TypeOK'
    BY <1>1 DEF IInv, TypeOK, ExecutorAssumption, Poll, Pending, Phases, InCallback, Subscriptions, RampInv, PlayInv, Ramping, CollectedIsPending, Pending
  <2>2. CollectedIsPending'
    BY <1>1 DEF IInv, TypeOK, CollectedIsPending, Poll, Pending, Pending, Subscriptions
  <2>3. BusyInv' /\ CacheInv'
    BY <1>1 DEF IInv, TypeOK, BusyInv, CacheInv, Poll, Pending, InCallback, ExecutorAssumption
  <2>4. RampInv'
    BY <1>1 DEF IInv, TypeOK, CacheInv, RampInv, Ramping, Poll, Pending, ExecutorAssumption
  <2>5. PlayInv' /\ HandoverIsContinuous'
    BY <1>1 DEF IInv, TypeOK, PlayInv, HandoverIsContinuous, Poll, Pending, ExecutorAssumption
  <2>6. ReleaseInv'
    BY <1>1 DEF IInv, TypeOK, ReleaseInv, RampInv, CacheInv, BusyInv, Ramping, Poll, Pending, InCallback, ExecutorAssumption
  <2>7. QED
    BY <2>1, <2>2, <2>3, <2>4, <2>5, <2>6 DEF IInv
<1>2. CASE LowstateCallback
  <2>1. TypeOK'
    BY <1>2 DEF IInv, TypeOK, ExecutorAssumption, LowstateCallback, IsNext, AfterShort, Phases, InCallback, Subscriptions, RampInv, PlayInv, Ramping, CollectedIsPending, Pending
  <2>2. CollectedIsPending'
    BY <1>2 DEF IInv, TypeOK, CollectedIsPending, LowstateCallback, IsNext, AfterShort, Pending, Subscriptions
  <2>3. BusyInv' /\ CacheInv'
    <3>1. Head(lowQ) \in Int
      BY <1>2 DEF IInv, TypeOK, CollectedIsPending, Pending, LowstateCallback, IsNext
    <3>2. Head(lowQ) # NoPose
      BY <3>1 DEF ExecutorAssumption
    <3>3. BusyInv'
      BY <1>2 DEF IInv, BusyInv, LowstateCallback, IsNext, AfterShort, InCallback
    <3>4. CacheInv'
      BY <1>2, <3>2 DEF IInv, CacheInv, LowstateCallback
    <3>5. QED
      BY <3>3, <3>4
  <2>4. RampInv'
    BY <1>2 DEF IInv, TypeOK, CacheInv, RampInv, Ramping, LowstateCallback, IsNext, AfterShort, ExecutorAssumption
  <2>5. PlayInv' /\ HandoverIsContinuous'
    BY <1>2 DEF IInv, TypeOK, PlayInv, HandoverIsContinuous, LowstateCallback, IsNext, AfterShort, ExecutorAssumption
  <2>6. ReleaseInv'
    BY <1>2 DEF IInv, TypeOK, ReleaseInv, RampInv, CacheInv, BusyInv, Ramping, LowstateCallback, IsNext, AfterShort, InCallback, ExecutorAssumption
  <2>7. QED
    BY <2>1, <2>2, <2>3, <2>4, <2>5, <2>6 DEF IInv
<1>3. CASE RejectTrajectory
  <2>1. TypeOK'
    BY <1>3 DEF IInv, TypeOK, ExecutorAssumption, RejectTrajectory, IsNext, AfterShort, Phases, InCallback, Subscriptions, RampInv, PlayInv, Ramping, CollectedIsPending, Pending
  <2>2. CollectedIsPending'
    BY <1>3 DEF IInv, TypeOK, CollectedIsPending, RejectTrajectory, IsNext, AfterShort, Pending, Subscriptions
  <2>3. BusyInv' /\ CacheInv'
    BY <1>3 DEF IInv, TypeOK, BusyInv, CacheInv, RejectTrajectory, IsNext, AfterShort, InCallback, ExecutorAssumption
  <2>4. RampInv'
    BY <1>3 DEF IInv, TypeOK, CacheInv, RampInv, Ramping, RejectTrajectory, IsNext, AfterShort, ExecutorAssumption
  <2>5. PlayInv' /\ HandoverIsContinuous'
    BY <1>3 DEF IInv, TypeOK, PlayInv, HandoverIsContinuous, RejectTrajectory, IsNext, AfterShort, ExecutorAssumption
  <2>6. ReleaseInv'
    BY <1>3 DEF IInv, TypeOK, ReleaseInv, RampInv, CacheInv, BusyInv, Ramping, RejectTrajectory, IsNext, AfterShort, InCallback, ExecutorAssumption
  <2>7. QED
    BY <2>1, <2>2, <2>3, <2>4, <2>5, <2>6 DEF IInv
<1>4. CASE AcceptTrajectory
  <2>1. TypeOK'
    BY <1>4 DEF IInv, TypeOK, ExecutorAssumption, AcceptTrajectory, IsNext, Enter, Phases, InCallback, Subscriptions, RampInv, PlayInv, Ramping, CollectedIsPending, Pending
  <2>2. CollectedIsPending'
    BY <1>4 DEF IInv, TypeOK, CollectedIsPending, AcceptTrajectory, IsNext, Enter, Pending, Subscriptions
  <2>3. BusyInv' /\ CacheInv'
    BY <1>4 DEF IInv, TypeOK, BusyInv, CacheInv, AcceptTrajectory, IsNext, Enter, InCallback, ExecutorAssumption
  <2>4. RampInv'
    BY <1>4 DEF IInv, TypeOK, CacheInv, RampInv, Ramping, AcceptTrajectory, IsNext, Enter, ExecutorAssumption
  <2>5. PlayInv' /\ HandoverIsContinuous'
    BY <1>4 DEF IInv, TypeOK, PlayInv, HandoverIsContinuous, AcceptTrajectory, IsNext, Enter, ExecutorAssumption
  <2>6. ReleaseInv'
    BY <1>4 DEF IInv, TypeOK, ReleaseInv, RampInv, CacheInv, BusyInv, Ramping, AcceptTrajectory, IsNext, Enter, InCallback, ExecutorAssumption
  <2>7. QED
    BY <2>1, <2>2, <2>3, <2>4, <2>5, <2>6 DEF IInv
<1>5. CASE FirstPoint
  <2>1. TypeOK'
    <3>1. cmd' \in [w: 0 .. RampSteps, q: Int]
      <4>1. CASE points # <<>> /\ ~shutdown
        <5>1. points[1] \in Int
          BY <4>1 DEF IInv, TypeOK
        <5>2. Clamp(points[1]) \in Int
          BY <5>1, ClampType
        <5>3. QED
          BY <1>5, <4>1, <5>2 DEF FirstPoint, PublishPositions, Command, ExecutorAssumption
      <4>2. CASE ~(points # <<>> /\ ~shutdown)
        BY <1>5, <4>2 DEF IInv, TypeOK, FirstPoint
      <4>3. QED
        BY <4>1, <4>2
    <3>2. wp' \in Nat
      BY <1>5 DEF FirstPoint
    <3>8. QED
      BY <1>5, <3>1, <3>2 DEF IInv, TypeOK, FirstPoint, Phases, InCallback
  <2>2. CollectedIsPending'
    BY <1>5 DEF IInv, TypeOK, CollectedIsPending, FirstPoint, PublishPositions, Command, Pending, Subscriptions
  <2>3. BusyInv' /\ CacheInv'
    BY <1>5 DEF IInv, TypeOK, BusyInv, CacheInv, FirstPoint, PublishPositions, Command, InCallback, ExecutorAssumption
  <2>4. RampInv'
    BY <1>5 DEF IInv, TypeOK, CacheInv, RampInv, Ramping, FirstPoint, PublishPositions, Command, ExecutorAssumption
  <2>5. PlayInv' /\ HandoverIsContinuous'
    BY <1>5 DEF IInv, TypeOK, PlayInv, HandoverIsContinuous, FirstPoint, PublishPositions, Command, ExecutorAssumption
  <2>6. ReleaseInv'
    BY <1>5 DEF IInv, TypeOK, ReleaseInv, RampInv, CacheInv, BusyInv, Ramping, FirstPoint, PublishPositions, Command, InCallback, ExecutorAssumption
  <2>7. QED
    BY <2>1, <2>2, <2>3, <2>4, <2>5, <2>6 DEF IInv
<1>6. CASE InterpolatedPoint
  <2>1. TypeOK'
    <3>1. cmd' \in [w: 0 .. RampSteps, q: Int]
      <4>1. points[wp - 1] \in Int /\ points[wp] \in Int
        BY <1>6, SMTT(30) DEF IInv, TypeOK, PlayInv, InterpolatedPoint, Playing
      <4>2. sub + 1 \in Nat /\ SubSteps \in Nat \ {0}
        BY DEF IInv, TypeOK, ExecutorAssumption
      <4>3. Lerp(points[wp - 1], points[wp], sub + 1, SubSteps) \in Int
        BY <4>1, <4>2, LerpType
      <4>4. Clamp(Lerp(points[wp - 1], points[wp], sub + 1, SubSteps)) \in Int
        BY <4>3, ClampType
      <4>5. QED
        BY <1>6, <4>4 DEF InterpolatedPoint, PublishPositions, Command, ExecutorAssumption
    <3>2. sub' \in 0 .. (SubSteps - 1)
      BY <1>6 DEF IInv, TypeOK, InterpolatedPoint, ExecutorAssumption
    <3>8. QED
      BY <1>6, <3>1, <3>2 DEF IInv, TypeOK, InterpolatedPoint, Playing, Phases, InCallback
  <2>2. CollectedIsPending'
    BY <1>6 DEF IInv, TypeOK, CollectedIsPending, InterpolatedPoint, Playing, PublishPositions, Command, Pending, Subscriptions
  <2>3. BusyInv' /\ CacheInv'
    BY <1>6 DEF IInv, TypeOK, BusyInv, CacheInv, InterpolatedPoint, Playing, PublishPositions, Command, InCallback, ExecutorAssumption
  <2>4. RampInv'
    BY <1>6 DEF IInv, TypeOK, CacheInv, RampInv, Ramping, InterpolatedPoint, Playing, PublishPositions, Command, ExecutorAssumption
  <2>5. PlayInv' /\ HandoverIsContinuous'
    BY <1>6 DEF IInv, TypeOK, PlayInv, HandoverIsContinuous, InterpolatedPoint, Playing, PublishPositions, Command, ExecutorAssumption
  <2>6. ReleaseInv'
    BY <1>6 DEF IInv, TypeOK, ReleaseInv, RampInv, CacheInv, BusyInv, Ramping, InterpolatedPoint, Playing, PublishPositions, Command, InCallback, ExecutorAssumption
  <2>7. QED
    BY <2>1, <2>2, <2>3, <2>4, <2>5, <2>6 DEF IInv
<1>7. CASE Waypoint
  <2>1. TypeOK'
    <3>1. cmd' \in [w: 0 .. RampSteps, q: Int]
      <4>1. points[wp] \in Int
        BY <1>7 DEF IInv, TypeOK, PlayInv, Waypoint, Playing
      <4>2. Clamp(points[wp]) \in Int
        BY <4>1, ClampType
      <4>3. QED
        BY <1>7, <4>2 DEF Waypoint, PublishPositions, Command, ExecutorAssumption
    <3>2. wp' \in Nat /\ sub' \in 0 .. (SubSteps - 1)
      BY <1>7 DEF IInv, TypeOK, Waypoint, ExecutorAssumption
    <3>8. QED
      BY <1>7, <3>1, <3>2 DEF IInv, TypeOK, Waypoint, Playing, Phases, InCallback
  <2>2. CollectedIsPending'
    BY <1>7 DEF IInv, TypeOK, CollectedIsPending, Waypoint, Playing, PublishPositions, Command, Pending, Subscriptions
  <2>3. BusyInv' /\ CacheInv'
    BY <1>7 DEF IInv, TypeOK, BusyInv, CacheInv, Waypoint, Playing, PublishPositions, Command, InCallback, ExecutorAssumption
  <2>4. RampInv'
    BY <1>7 DEF IInv, TypeOK, CacheInv, RampInv, Ramping, Waypoint, Playing, PublishPositions, Command, ExecutorAssumption
  <2>5. PlayInv' /\ HandoverIsContinuous'
    BY <1>7 DEF IInv, TypeOK, PlayInv, HandoverIsContinuous, Waypoint, Playing, PublishPositions, Command, ExecutorAssumption
  <2>6. ReleaseInv'
    BY <1>7 DEF IInv, TypeOK, ReleaseInv, RampInv, CacheInv, BusyInv, Ramping, Waypoint, Playing, PublishPositions, Command, InCallback, ExecutorAssumption
  <2>7. QED
    BY <2>1, <2>2, <2>3, <2>4, <2>5, <2>6 DEF IInv
<1>8. CASE EndOfWaypoints
  <2>1. TypeOK'
    <3>1. Endpoint \in Int
      BY EndpointType DEF IInv
    <3>2. anchor' \in Int
      BY <1>8, <3>1 DEF EndOfWaypoints
    <3>8. QED
      BY <1>8, <3>1, <3>2 DEF IInv, TypeOK, EndOfWaypoints, Phases, InCallback
  <2>2. CollectedIsPending'
    BY <1>8 DEF IInv, TypeOK, CollectedIsPending, EndOfWaypoints, Endpoint, Pending, Subscriptions
  <2>3. BusyInv' /\ CacheInv'
    BY <1>8 DEF IInv, TypeOK, BusyInv, CacheInv, EndOfWaypoints, Endpoint, InCallback, ExecutorAssumption
  <2>4. RampInv'
    BY <1>8 DEF IInv, TypeOK, CacheInv, RampInv, Ramping, EndOfWaypoints, Endpoint, ExecutorAssumption
  <2>5. PlayInv' /\ HandoverIsContinuous'
    <3>1. /\ pc = "segment" /\ pc' = "hold" /\ anchor' = Endpoint
          /\ wp > Len(points) \/ shutdown
          /\ UNCHANGED <<points, wp, sub, shutdown, cmd>>
      BY <1>8 DEF EndOfWaypoints
    <3>2. Endpoint \in Int
      BY EndpointType DEF IInv
    <3>3. PlayInv'
      BY <3>1, <3>2 DEF IInv, PlayInv
    <3>4. ASSUME points # <<>>, ~shutdown PROVE Endpoint = cmd.q
      <4>1. wp = Len(points) + 1 /\ sub = 0
        BY <3>1, <3>4 DEF IInv, TypeOK, PlayInv
      <4>2. cmd.q = Clamp(points[wp - 1])
        BY <3>1, <3>4, <4>1 DEF IInv, PlayInv
      <4>3. wp - 1 = Len(points)
        BY <4>1 DEF IInv, TypeOK
      <4>4. QED
        BY <3>4, <4>2, <4>3 DEF Endpoint
    <3>5. QED
      BY <3>1, <3>3, <3>4 DEF HandoverIsContinuous
  <2>6. ReleaseInv'
    BY <1>8 DEF IInv, TypeOK, ReleaseInv, RampInv, CacheInv, BusyInv, Ramping, EndOfWaypoints, Endpoint, InCallback, ExecutorAssumption
  <2>7. QED
    BY <2>1, <2>2, <2>3, <2>4, <2>5, <2>6 DEF IInv
<1>9. CASE Hold
  <2>1. TypeOK'
    <3>1. cmd' \in [w: 0 .. RampSteps, q: Int]
      BY <1>9 DEF IInv, PlayInv, Hold, Command, ExecutorAssumption
    <3>2. points' \in Seq(Int) /\ wp' \in Nat /\ sub' \in 0 .. (SubSteps - 1)
      BY <1>9, EmptySeq DEF Hold, ExecutorAssumption
    <3>8. QED
      BY <1>9, <3>1, <3>2 DEF IInv, TypeOK, Hold, BeginRampOrLeave, Leave, PlayInv, Phases, InCallback
  <2>2. CollectedIsPending'
    BY <1>9 DEF IInv, TypeOK, CollectedIsPending, Hold, Command, BeginRampOrLeave, Leave, Pending, Subscriptions
  <2>3. BusyInv' /\ CacheInv'
    BY <1>9 DEF IInv, TypeOK, BusyInv, CacheInv, Hold, Command, BeginRampOrLeave, Leave, InCallback, ExecutorAssumption
  <2>4. RampInv'
    BY <1>9 DEF IInv, TypeOK, CacheInv, RampInv, Ramping, Hold, Command, BeginRampOrLeave, Leave, ExecutorAssumption
  <2>5. PlayInv' /\ HandoverIsContinuous'
    BY <1>9 DEF IInv, TypeOK, PlayInv, HandoverIsContinuous, Hold, Command, BeginRampOrLeave, Leave, ExecutorAssumption
  <2>6. ReleaseInv'
    BY <1>9 DEF IInv, TypeOK, ReleaseInv, RampInv, CacheInv, BusyInv, Ramping, Hold, Command, BeginRampOrLeave, Leave, InCallback, ExecutorAssumption
  <2>7. QED
    BY <2>1, <2>2, <2>3, <2>4, <2>5, <2>6 DEF IInv
<1>10. CASE ReturnIgnored
  <2>1. TypeOK'
    BY <1>10 DEF IInv, TypeOK, ExecutorAssumption, ReturnIgnored, IsNext, AfterShort, Phases, InCallback, Subscriptions, RampInv, PlayInv, Ramping, CollectedIsPending, Pending
  <2>2. CollectedIsPending'
    BY <1>10 DEF IInv, TypeOK, CollectedIsPending, ReturnIgnored, IsNext, AfterShort, Pending, Subscriptions
  <2>3. BusyInv' /\ CacheInv'
    BY <1>10 DEF IInv, TypeOK, BusyInv, CacheInv, ReturnIgnored, IsNext, AfterShort, InCallback, ExecutorAssumption
  <2>4. RampInv'
    BY <1>10 DEF IInv, TypeOK, CacheInv, RampInv, Ramping, ReturnIgnored, IsNext, AfterShort, ExecutorAssumption
  <2>5. PlayInv' /\ HandoverIsContinuous'
    BY <1>10 DEF IInv, TypeOK, PlayInv, HandoverIsContinuous, ReturnIgnored, IsNext, AfterShort, ExecutorAssumption
  <2>6. ReleaseInv'
    BY <1>10 DEF IInv, TypeOK, ReleaseInv, RampInv, CacheInv, BusyInv, Ramping, ReturnIgnored, IsNext, AfterShort, InCallback, ExecutorAssumption
  <2>7. QED
    BY <2>1, <2>2, <2>3, <2>4, <2>5, <2>6 DEF IInv
<1>11. CASE ReturnToStanding
  <2>1. TypeOK'
    BY <1>11 DEF IInv, TypeOK, ExecutorAssumption, ReturnToStanding, IsNext, Enter, Phases, InCallback, Subscriptions, RampInv, PlayInv, Ramping, CollectedIsPending, Pending
  <2>2. CollectedIsPending'
    BY <1>11 DEF IInv, TypeOK, CollectedIsPending, ReturnToStanding, IsNext, Enter, Pending, Subscriptions
  <2>3. BusyInv' /\ CacheInv'
    BY <1>11 DEF IInv, TypeOK, BusyInv, CacheInv, ReturnToStanding, IsNext, Enter, InCallback, ExecutorAssumption
  <2>4. RampInv'
    BY <1>11 DEF IInv, TypeOK, CacheInv, RampInv, Ramping, ReturnToStanding, IsNext, Enter, ExecutorAssumption
  <2>5. PlayInv' /\ HandoverIsContinuous'
    BY <1>11 DEF IInv, TypeOK, PlayInv, HandoverIsContinuous, ReturnToStanding, IsNext, Enter, ExecutorAssumption
  <2>6. ReleaseInv'
    BY <1>11 DEF IInv, TypeOK, ReleaseInv, RampInv, CacheInv, BusyInv, Ramping, ReturnToStanding, IsNext, Enter, InCallback, ExecutorAssumption
  <2>7. QED
    BY <2>1, <2>2, <2>3, <2>4, <2>5, <2>6 DEF IInv
<1>12. CASE RampStep
  <2>0. Ramping
    BY <1>12 DEF RampStep, Ramping
  <2>1. /\ cmd' \in [w: 0 .. RampSteps, q: Int]
        /\ cmd'.w = RampSteps - step
        /\ step' \in 0 .. RampSteps
        /\ anchor' \in Int \cup {NoPose}
        /\ rampDone' \in BOOLEAN
        /\ \/ step < RampSteps /\ step' = step + 1 /\ anchor' = anchor
                               /\ rampDone' = rampDone
           \/ step = RampSteps /\ step' = 0 /\ rampDone' = TRUE
    BY <1>12, <2>0, RampPublishEffect DEF IInv, RampStep
  <2>2. /\ pc = "ramp"
        /\ IF step < RampSteps THEN pc' = pc /\ busy' = busy
                               ELSE Leave
        /\ UNCHANGED <<trajQ, lowQ, retQ, ready, latest, standing, shutdown,
                       points, wp, sub>>
    BY <1>12 DEF RampStep
  <2>3. TypeOK'
    BY <2>1, <2>2 DEF IInv, TypeOK, Leave, Phases, InCallback
  <2>4. CollectedIsPending'
    BY <2>2 DEF CollectedIsPending, Leave
  <2>5. BusyInv' /\ CacheInv'
    <3>1. standing # NoPose
      BY <2>0 DEF IInv, RampInv, ExecutorAssumption
    <3>2. CacheInv'
      BY <3>1, <2>1, <2>2 DEF IInv, CacheInv
    <3>3. BusyInv'
      BY <2>1, <2>2 DEF IInv, BusyInv, Leave, InCallback
    <3>4. QED
      BY <3>2, <3>3
  <2>6. RampInv'
    <3>1. step \in 0 .. RampSteps /\ RampSteps \in Nat \ {0}
      BY DEF IInv, TypeOK, ExecutorAssumption
    <3>2. anchor \in Int /\ standing \in Int
      BY <2>0 DEF IInv, RampInv
    <3>3. CASE step < RampSteps
      <4>1. step' = step + 1 /\ anchor' = anchor
        BY <2>1, <3>1, <3>3
      <4>2. Ramping' /\ standing' = standing
        BY <2>0, <2>2, <3>3 DEF Ramping
      <4>3. cmd'.w = RampSteps - (step' - 1) /\ step' > 0
        BY <2>1, <3>1, <4>1
      <4>4. QED
        BY <3>1, <3>2, <4>1, <4>2, <4>3 DEF RampInv
    <3>4. CASE step = RampSteps
      <4>1. step' = 0 /\ cmd'.w = 0 /\ ~Ramping'
        BY <2>1, <2>2, <3>1, <3>4 DEF Ramping, Leave
      <4>2. QED
        BY <4>1 DEF RampInv
    <3>5. QED
      BY <3>1, <3>3, <3>4
  <2>7. PlayInv' /\ HandoverIsContinuous'
    BY <2>2 DEF IInv, PlayInv, HandoverIsContinuous, Leave
  <2>8. ReleaseInv'
    BY <2>1, <2>2 DEF IInv, TypeOK, ReleaseInv, Leave, InCallback, ExecutorAssumption
  <2>9. QED
    BY <2>3, <2>4, <2>5, <2>6, <2>7, <2>8 DEF IInv
<1>13. CASE LeaveLoop
  <2>1. TypeOK'
    BY <1>13 DEF IInv, TypeOK, ExecutorAssumption, LeaveLoop, Phases, InCallback, Subscriptions, RampInv, PlayInv, Ramping, CollectedIsPending, Pending
  <2>2. CollectedIsPending'
    BY <1>13 DEF IInv, TypeOK, CollectedIsPending, LeaveLoop, Pending, Subscriptions
  <2>3. BusyInv' /\ CacheInv'
    BY <1>13 DEF IInv, TypeOK, BusyInv, CacheInv, LeaveLoop, InCallback, ExecutorAssumption
  <2>4. RampInv'
    BY <1>13 DEF IInv, TypeOK, CacheInv, RampInv, Ramping, LeaveLoop, ExecutorAssumption
  <2>5. PlayInv' /\ HandoverIsContinuous'
    BY <1>13 DEF IInv, TypeOK, PlayInv, HandoverIsContinuous, LeaveLoop, ExecutorAssumption
  <2>6. ReleaseInv'
    BY <1>13 DEF IInv, TypeOK, ReleaseInv, RampInv, CacheInv, BusyInv, Ramping, LeaveLoop, InCallback, ExecutorAssumption
  <2>7. QED
    BY <2>1, <2>2, <2>3, <2>4, <2>5, <2>6 DEF IInv
<1>14. CASE ShutdownRampIfNeeded
  <2>1. TypeOK'
    BY <1>14 DEF IInv, TypeOK, ExecutorAssumption, ShutdownRampIfNeeded, ShutdownRampWanted, Phases, InCallback, Subscriptions, RampInv, PlayInv, Ramping, CollectedIsPending, Pending
  <2>2. CollectedIsPending'
    BY <1>14 DEF IInv, TypeOK, CollectedIsPending, ShutdownRampIfNeeded, ShutdownRampWanted, Pending, Subscriptions
  <2>3. BusyInv' /\ CacheInv'
    BY <1>14 DEF IInv, TypeOK, BusyInv, CacheInv, ShutdownRampIfNeeded, ShutdownRampWanted, InCallback, ExecutorAssumption
  <2>4. RampInv'
    BY <1>14 DEF IInv, TypeOK, CacheInv, RampInv, Ramping, ShutdownRampIfNeeded, ShutdownRampWanted, ExecutorAssumption
  <2>5. PlayInv' /\ HandoverIsContinuous'
    BY <1>14 DEF IInv, TypeOK, PlayInv, HandoverIsContinuous, ShutdownRampIfNeeded, ShutdownRampWanted, ExecutorAssumption
  <2>6. ReleaseInv'
    BY <1>14 DEF IInv, TypeOK, ReleaseInv, RampInv, CacheInv, BusyInv, Ramping, ShutdownRampIfNeeded, ShutdownRampWanted, InCallback, ExecutorAssumption
  <2>7. QED
    BY <2>1, <2>2, <2>3, <2>4, <2>5, <2>6 DEF IInv
<1>15. CASE FinalRampStep
  <2>0. Ramping
    BY <1>15 DEF FinalRampStep, Ramping
  <2>1. /\ cmd' \in [w: 0 .. RampSteps, q: Int]
        /\ cmd'.w = RampSteps - step
        /\ step' \in 0 .. RampSteps
        /\ anchor' \in Int \cup {NoPose}
        /\ rampDone' \in BOOLEAN
        /\ \/ step < RampSteps /\ step' = step + 1 /\ anchor' = anchor
                               /\ rampDone' = rampDone
           \/ step = RampSteps /\ step' = 0 /\ rampDone' = TRUE
    BY <1>15, <2>0, RampPublishEffect DEF IInv, FinalRampStep
  <2>2. /\ pc = "final_ramp"
        /\ IF step < RampSteps THEN pc' = pc /\ busy' = busy
                               ELSE pc' = "teardown" /\ busy' = FALSE
        /\ UNCHANGED <<trajQ, lowQ, retQ, ready, latest, standing, shutdown,
                       points, wp, sub>>
    BY <1>15 DEF FinalRampStep
  <2>3. TypeOK'
    BY <2>1, <2>2 DEF IInv, TypeOK, Leave, Phases, InCallback
  <2>4. CollectedIsPending'
    BY <2>2 DEF CollectedIsPending, Leave
  <2>5. BusyInv' /\ CacheInv'
    <3>1. standing # NoPose
      BY <2>0 DEF IInv, RampInv, ExecutorAssumption
    <3>2. CacheInv'
      BY <3>1, <2>1, <2>2 DEF IInv, CacheInv
    <3>3. BusyInv'
      BY <2>1, <2>2 DEF IInv, BusyInv, Leave, InCallback
    <3>4. QED
      BY <3>2, <3>3
  <2>6. RampInv'
    <3>1. step \in 0 .. RampSteps /\ RampSteps \in Nat \ {0}
      BY DEF IInv, TypeOK, ExecutorAssumption
    <3>2. anchor \in Int /\ standing \in Int
      BY <2>0 DEF IInv, RampInv
    <3>3. CASE step < RampSteps
      <4>1. step' = step + 1 /\ anchor' = anchor
        BY <2>1, <3>1, <3>3
      <4>2. Ramping' /\ standing' = standing
        BY <2>0, <2>2, <3>3 DEF Ramping
      <4>3. cmd'.w = RampSteps - (step' - 1) /\ step' > 0
        BY <2>1, <3>1, <4>1
      <4>4. QED
        BY <3>1, <3>2, <4>1, <4>2, <4>3 DEF RampInv
    <3>4. CASE step = RampSteps
      <4>1. step' = 0 /\ cmd'.w = 0 /\ ~Ramping'
        BY <2>1, <2>2, <3>1, <3>4 DEF Ramping, Leave
      <4>2. QED
        BY <4>1 DEF RampInv
    <3>5. QED
      BY <3>1, <3>3, <3>4
  <2>7. PlayInv' /\ HandoverIsContinuous'
    BY <2>2 DEF IInv, PlayInv, HandoverIsContinuous, Leave
  <2>8. ReleaseInv'
    BY <2>1, <2>2 DEF IInv, TypeOK, ReleaseInv, Leave, InCallback, ExecutorAssumption
  <2>9. QED
    BY <2>3, <2>4, <2>5, <2>6, <2>7, <2>8 DEF IInv
<1>16. CASE Destroy
  <2>1. TypeOK'
    BY <1>16 DEF IInv, TypeOK, ExecutorAssumption, Destroy, DestructorPublish, Phases, InCallback, Subscriptions, RampInv, PlayInv, Ramping, CollectedIsPending, Pending
  <2>2. CollectedIsPending'
    BY <1>16 DEF IInv, TypeOK, CollectedIsPending, Destroy, DestructorPublish, Pending, Subscriptions
  <2>3. BusyInv' /\ CacheInv'
    BY <1>16 DEF IInv, TypeOK, BusyInv, CacheInv, Destroy, DestructorPublish, InCallback, ExecutorAssumption
  <2>4. RampInv'
    BY <1>16 DEF IInv, TypeOK, CacheInv, RampInv, Ramping, Destroy, DestructorPublish, ExecutorAssumption
  <2>5. PlayInv' /\ HandoverIsContinuous'
    BY <1>16 DEF IInv, TypeOK, PlayInv, HandoverIsContinuous, Destroy, DestructorPublish, ExecutorAssumption
  <2>6. ReleaseInv'
    BY <1>16 DEF IInv, TypeOK, ReleaseInv, RampInv, CacheInv, BusyInv, Ramping, Destroy, DestructorPublish, InCallback, ExecutorAssumption
  <2>7. QED
    BY <2>1, <2>2, <2>3, <2>4, <2>5, <2>6 DEF IInv
<1>17. QED
  BY <1>1, <1>2, <1>3, <1>4, <1>5, <1>6, <1>7, <1>8, <1>9, <1>10, <1>11, <1>12, <1>13, <1>14, <1>15, <1>16 DEF Executor

\* What arrives or is requested only lengthens a queue or raises the flag.
LEMMA EnvironmentStep == ASSUME IInv, Environment PROVE IInv'
<1> USE ExecutorAssumption DEF queues, cache, playing, ramping
<1>1. ASSUME NEW m \in Messages, SendTrajectory(m) PROVE IInv'
  <2>1. trajQ' \in Seq(Messages) /\ trajQ' # <<>>
    BY <1>1, KeepLastType DEF IInv, TypeOK, SendTrajectory
  <2>2. UNCHANGED <<pc, lowQ, retQ, ready, latest, standing, busy, rampDone,
                    shutdown, points, wp, sub, anchor, step, cmd>>
    BY <1>1 DEF SendTrajectory
  <2>3. TypeOK'
    BY <2>1, <2>2 DEF IInv, TypeOK
  <2>4. CollectedIsPending'
    BY <2>1, <2>2 DEF IInv, CollectedIsPending, Pending
  <2>5. QED
    BY <2>2, <2>3, <2>4 DEF IInv, BusyInv, CacheInv, RampInv, Ramping, PlayInv,
       HandoverIsContinuous, ReleaseInv
<1>2. ASSUME NEW p \in BodyPoses \cup {cmd.q}, LowState(p) PROVE IInv'
  <2>0. p \in Int
    BY DEF IInv, TypeOK, ExecutorAssumption
  <2>1. lowQ' \in Seq(Int) /\ lowQ' # <<>>
    BY <1>2, <2>0, KeepLastType DEF IInv, TypeOK, LowState
  <2>2. UNCHANGED <<pc, trajQ, retQ, ready, latest, standing, busy, rampDone,
                    shutdown, points, wp, sub, anchor, step, cmd>>
    BY <1>2 DEF LowState
  <2>3. TypeOK'
    BY <2>1, <2>2 DEF IInv, TypeOK
  <2>4. CollectedIsPending'
    BY <2>1, <2>2 DEF IInv, CollectedIsPending, Pending
  <2>5. QED
    BY <2>2, <2>3, <2>4 DEF IInv, BusyInv, CacheInv, RampInv, Ramping, PlayInv,
       HandoverIsContinuous, ReleaseInv
<1>3. CASE RequestReturn
  <2>1. retQ' \in 0 .. Depth /\ retQ' > 0
    BY <1>3 DEF IInv, TypeOK, RequestReturn, ExecutorAssumption
  <2>2. UNCHANGED <<pc, trajQ, lowQ, ready, latest, standing, busy, rampDone,
                    shutdown, points, wp, sub, anchor, step, cmd>>
    BY <1>3 DEF RequestReturn
  <2>3. TypeOK'
    BY <2>1, <2>2 DEF IInv, TypeOK
  <2>4. CollectedIsPending'
    BY <2>1, <2>2 DEF IInv, CollectedIsPending, Pending
  <2>5. QED
    BY <2>2, <2>3, <2>4 DEF IInv, BusyInv, CacheInv, RampInv, Ramping, PlayInv,
       HandoverIsContinuous, ReleaseInv
<1>4. CASE Signal
  <2>1. /\ shutdown' = TRUE
        /\ UNCHANGED <<pc, trajQ, lowQ, retQ, ready, latest, standing, busy,
                       rampDone, points, wp, sub, anchor, step, cmd>>
    BY <1>4 DEF Signal
  <2>2. TypeOK'
    BY <2>1 DEF IInv, TypeOK
  <2>3. CollectedIsPending'
    BY <2>1 DEF IInv, CollectedIsPending, Pending
  <2>4. QED
    BY <2>1, <2>2, <2>3 DEF IInv, BusyInv, CacheInv, RampInv, Ramping, PlayInv,
       HandoverIsContinuous, ReleaseInv
<1>5. QED
  BY <1>1, <1>2, <1>3, <1>4 DEF Environment

LEMMA InductiveStep == IInv /\ [Next]_vars => IInv'
<1>1. ASSUME IInv, UNCHANGED vars PROVE IInv'
  BY SMTT(30), <1>1 DEF vars, queues, cache, playing, ramping, IInv, TypeOK,
     CollectedIsPending, Pending, BusyInv, CacheInv, RampInv, Ramping, PlayInv,
     HandoverIsContinuous, ReleaseInv
<1>2. QED
  BY <1>1, ExecutorStep, EnvironmentStep DEF Next

THEOREM Inductive == SafetySpec => []IInv
BY InitIInv, InductiveStep, PTL DEF SafetySpec
-----------------------------------------------------------------------------
\* The variables keep their types, for every depth, ramp and message set.
THEOREM TypeCorrect == SafetySpec => []TypeOK
<1>1. IInv => TypeOK
  BY DEF IInv
<1>2. QED
  BY <1>1, Inductive, PTL

\* Single-threaded dispatch never lets a callback find busy_ set: no exit of
\* either callback, nor of the final ramp, forgets to clear it.
THEOREM CallbacksNeverOverlap == SafetySpec => []NoCallbackFindsBusy
<1>1. IInv => NoCallbackFindsBusy
  BY DEF IInv, BusyInv, NoCallbackFindsBusy, InCallback
<1>2. QED
  BY <1>1, Inductive, PTL

\* What spin_some() found ready stays in its subscription until its callback
\* runs: no goal or return that it announced is lost to a shutdown or a
\* message that arrives meanwhile.
THEOREM CollectedStaysPending == SafetySpec => []CollectedIsPending
<1>1. IInv => CollectedIsPending
  BY DEF IInv
<1>2. QED
  BY <1>1, Inductive, PTL

\* An uninterrupted trajectory passes into the hold loop without a jump.
THEOREM HandoverContinuous == SafetySpec => []HandoverIsContinuous
<1>1. IInv => HandoverIsContinuous
  BY DEF IInv
<1>2. QED
  BY <1>1, Inductive, PTL

\* The exact conditions under which the process may exit without having
\* released the arm.
THEOREM ExitReleases == SafetySpec => []ReleasedAtExit
<1>1. IInv => ReleasedAtExit
  BY DEF IInv, ReleaseInv, ReleasedAtExit, InCallback
<1>2. QED
  BY <1>1, Inductive, PTL

\* With auto_return_to_standing=false no release begins before SIGINT unless a
\* return request is taken from its queue.
THEOREM HoldUntilAsked == SafetySpec => HoldsUntilAsked
<1>1. IInv /\ [Next]_vars =>
        [~AutoReturn /\ ~shutdown /\ pc # "ramp" /\ pc' = "ramp"
           => retQ' < retQ]_vars
  <2> SUFFICES ASSUME IInv, Next, ~AutoReturn, ~shutdown, pc # "ramp", pc' = "ramp"
               PROVE  retQ' < retQ
    BY DEF vars
  <2>1. ~Environment
    BY DEF Environment, SendTrajectory, LowState, RequestReturn, Signal
  <2>2. ~Hold
    BY DEF Hold, BeginRampOrLeave, Leave
  <2>3. ReturnToStanding
    BY <2>1, <2>2 DEF Next, Executor, Poll, LowstateCallback, RejectTrajectory,
       AcceptTrajectory, Enter, FirstPoint, InterpolatedPoint, Waypoint,
       Playing, EndOfWaypoints, ReturnIgnored, RampStep, LeaveLoop,
       ShutdownRampIfNeeded, FinalRampStep, Destroy, AfterShort, Leave
  <2>4. QED
    BY <2>3 DEF IInv, TypeOK, ReturnToStanding
<1>2. QED
  BY <1>1, Inductive, PTL DEF SafetySpec, HoldsUntilAsked

\* The executor implements the authority protocol, for every number of steps.
THEOREM ImplementsAuthority == SafetySpec => Authority!SafetySpec
<1> USE ExecutorAssumption DEF ExecutorAssumption
<1>1. Init => Authority!Init
  BY DEF Init, Authority!Init
<1>2. IInv /\ [Next]_vars => [Authority!Next]_<<cmd.w, pc = "exited">>
  <2> SUFFICES ASSUME IInv, [Next]_vars
               PROVE  [Authority!Next]_<<cmd.w, pc = "exited">>
    OBVIOUS
  <2>1. CASE UNCHANGED cmd /\ (pc' = "exited" <=> pc = "exited")
    BY <2>1
  <2>2. CASE FirstPoint \/ InterpolatedPoint \/ Waypoint \/ Hold
    <3>1. /\ pc \in {"first", "segment", "hold"} /\ pc' # "exited"
          /\ UNCHANGED cmd \/ cmd'.w = RampSteps
      BY <2>2 DEF FirstPoint, InterpolatedPoint, Waypoint, Playing, Hold,
         PublishPositions, Command, BeginRampOrLeave, Leave
    <3>2. cmd.w \in {0, RampSteps}
      BY <3>1 DEF IInv, RampInv, Ramping
    <3>3. QED
      BY <3>1, <3>2 DEF Authority!Next, Authority!Take
  <2>3. CASE RampStep \/ FinalRampStep
    <3>1. Ramping /\ pc' # "exited"
      BY <2>3 DEF RampStep, FinalRampStep, Ramping, Leave
    <3>2. cmd'.w = RampSteps - step
      BY <2>3, <3>1, RampPublishEffect DEF IInv, RampStep, FinalRampStep
    <3>3. CASE step = 0
      <4>1. cmd'.w = RampSteps /\ cmd.w \in {0, RampSteps}
        BY <3>2, <3>3 DEF IInv, RampInv
      <4>2. QED
        BY <3>1, <4>1 DEF Authority!Next, Authority!Take, Ramping
    <3>4. CASE step > 0
      <4>1. cmd.w = RampSteps - (step - 1)
        BY <3>1, <3>4 DEF IInv, RampInv
      <4>2. cmd.w > 0 /\ cmd'.w = cmd.w - 1
        BY <3>2, <4>1 DEF IInv, TypeOK
      <4>3. QED
        BY <3>1, <4>2 DEF Authority!Next, Authority!Fade, Ramping
    <3>5. QED
      BY <3>3, <3>4 DEF IInv, TypeOK
  <2>4. CASE Destroy
    <3>1. cmd.w \in {0, RampSteps} /\ UNCHANGED cmd /\ pc # "exited"
          /\ pc' = "exited"
      BY <2>4 DEF IInv, RampInv, Ramping, Destroy, DestructorPublish
    <3>2. QED
      BY <3>1 DEF Authority!Next, Authority!Stop
  <2>5. CASE Environment
    BY <2>1, <2>5 DEF Environment, SendTrajectory, LowState, RequestReturn, Signal
  <2>6. CASE \/ Poll \/ LowstateCallback \/ RejectTrajectory
             \/ AcceptTrajectory \/ EndOfWaypoints \/ ReturnIgnored
             \/ ReturnToStanding \/ LeaveLoop \/ ShutdownRampIfNeeded
    BY <2>1, <2>6 DEF Poll, LowstateCallback, RejectTrajectory,
       AcceptTrajectory, EndOfWaypoints, ReturnIgnored, ReturnToStanding,
       LeaveLoop, ShutdownRampIfNeeded, IsNext, AfterShort, Enter
  <2>7. CASE UNCHANGED vars
    BY <2>1, <2>7 DEF vars
  <2>8. QED
    BY <2>2, <2>3, <2>4, <2>5, <2>6, <2>7 DEF Next, Executor
<1>3. QED
  BY <1>1, <1>2, Inductive, PTL DEF SafetySpec, Authority!SafetySpec, Authority!vars
=============================================================================
