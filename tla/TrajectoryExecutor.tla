------------------------- MODULE TrajectoryExecutor -------------------------
(***************************************************************************)
(* The joint_trajectory_executor node: one thread that polls three         *)
(* subscriptions, plays a trajectory on the arm_sdk topic waypoint by      *)
(* waypoint, holds its end point, and gives the arm back to the body       *)
(* controller by a ramp of the authority weight.  SIGINT only sets a flag. *)
(*                                                                         *)
(* A pose of the right arm is one integer on a line; a command is the      *)
(* authority weight (0 .. RampSteps, RampSteps standing for 1.0) and the   *)
(* pose.  Publishing, then sleeping, is one step; the 250 identical        *)
(* publications of the hold loop are one step.  The module starts when the *)
(* constructor has returned with the joint limits loaded.                  *)
(***************************************************************************)
EXTENDS Integers, Sequences

CONSTANTS
  RampSteps,      \* steps of the release ramp (750 in the code)
  SubSteps,       \* publications of a waypoint segment, its end point included
  Depth,          \* depth of each subscription's queue (10 in the code)
  AutoReturn,     \* the parameter auto_return_to_standing
  Messages,       \* trajectories that may be published: [names, points]
  BodyPoses,      \* poses the body controller may hold the arm in
  LimitLo, LimitHi, \* the joint's limits
  NoPose          \* no lowstate received yet

ASSUME ExecutorAssumption ==
  /\ RampSteps \in Nat \ {0}
  /\ SubSteps \in Nat \ {0}
  /\ Depth \in Nat \ {0}
  /\ AutoReturn \in BOOLEAN
  /\ Messages \subseteq [names: {"empty", "incomplete", "complete"},
                         points: Seq(Int)]
  /\ BodyPoses \subseteq Int
  /\ LimitLo \in Int /\ LimitHi \in Int /\ LimitLo <= LimitHi
  /\ NoPose \notin Int

VARIABLES
  pc,             \* where the node's thread is
  trajQ, lowQ,    \* pending messages of /joint_trajectory_targets, /lf/lowstate
  retQ,           \* number of pending /executor/return_to_standing messages
  ready,          \* subscriptions collected by spin_some and not yet run
  latest,         \* latest_joint_positions_
  standing,       \* initial_standing_pose_, NoPose while it is not ready
  busy,           \* busy_
  rampDone,       \* ramp_to_standing_executed_
  shutdown,       \* g_shutdown_requested
  points, wp, sub, \* trajectory being played, next waypoint, publications of its segment
  anchor,         \* trajectory_endpoint, then ramp_start_positions
  step,           \* next step of the ramp
  cmd             \* last command published: authority weight and pose

queues  == <<trajQ, lowQ, retQ>>
cache   == <<latest, standing>>
playing == <<points, wp, sub>>
ramping == <<anchor, step>>
vars == <<pc, queues, ready, cache, busy, rampDone, shutdown, playing, ramping,
          cmd>>

Subscriptions == {"traj", "low", "ret"}

\* Phases of trajectoryCallback and of returnToStandingCallback; "final_ramp"
\* is the ramp main() runs after its loop.
InCallback == {"first", "segment", "hold", "ramp"}
Phases == InCallback \cup
            {"poll", "dispatch", "closing", "final_ramp", "teardown", "exited"}

Init ==
  /\ pc = "poll"
  /\ trajQ = <<>> /\ lowQ = <<>> /\ retQ = 0
  /\ ready = {}
  /\ latest = NoPose /\ standing = NoPose
  /\ busy = FALSE
  /\ rampDone = FALSE
  /\ shutdown = FALSE
  /\ points = <<>> /\ wp = 0 /\ sub = 0
  /\ anchor = NoPose /\ step = 0
  /\ cmd = [w |-> 0, q |-> 0]
-----------------------------------------------------------------------------
(* What the node publishes.                                                *)

Clamp(q) == IF q < LimitLo THEN LimitLo ELSE IF q > LimitHi THEN LimitHi ELSE q

\* k n-ths of the way from a to b
Lerp(a, b, k, n) == a + ((b - a) * k) \div n

Command(w, q) == cmd' = [w |-> w, q |-> q]

PublishUnclamped(q) == Command(RampSteps, q)

\* publish_command_for_positions: full authority, the pose within the limits
PublishPositions(q) == Command(RampSteps, Clamp(q))

\* trajectory_endpoint: the message's last point, whatever was played of it
Endpoint == IF points # <<>> THEN Clamp(points[Len(points)])
            ELSE IF latest = NoPose THEN 0 ELSE latest
-----------------------------------------------------------------------------
(* The environment: other nodes, the robot and the operator.              *)

KeepLast(q) == IF Len(q) > Depth THEN Tail(q) ELSE q

SendTrajectory(m) ==
  /\ pc # "exited"
  /\ trajQ' = KeepLast(Append(trajQ, m))
  /\ UNCHANGED <<pc, lowQ, retQ, ready, cache, busy, rampDone, shutdown,
                 playing, ramping, cmd>>

\* A frame shows the arm where the body controller has it or where it was
\* last commanded.
LowState(p) ==
  /\ pc # "exited"
  /\ lowQ' = KeepLast(Append(lowQ, p))
  /\ UNCHANGED <<pc, trajQ, retQ, ready, cache, busy, rampDone, shutdown,
                 playing, ramping, cmd>>

RequestReturn ==
  /\ pc # "exited"
  /\ retQ < Depth
  /\ retQ' = retQ + 1
  /\ UNCHANGED <<pc, trajQ, lowQ, ready, cache, busy, rampDone, shutdown,
                 playing, ramping, cmd>>

\* executor_signal_handler
Signal ==
  /\ pc # "exited"
  /\ ~shutdown
  /\ shutdown' = TRUE
  /\ UNCHANGED <<pc, queues, ready, cache, busy, rampDone, playing, ramping,
                 cmd>>
-----------------------------------------------------------------------------
(* The polling loop of main() and the dispatch order of spin_some.         *)

Pending == {s \in Subscriptions : \/ s = "traj" /\ trajQ # <<>>
                                  \/ s = "low" /\ lowQ # <<>>
                                  \/ s = "ret" /\ retQ > 0}

\* One turn of the loop that finds work; a turn that finds none changes nothing.
Poll ==
  /\ pc = "poll"
  /\ ~shutdown
  /\ Pending # {}
  /\ ready' = Pending
  /\ pc' = "dispatch"
  /\ UNCHANGED <<queues, cache, busy, rampDone, shutdown, playing, ramping,
                 cmd>>

\* spin_some runs what it collected in the order the subscriptions were created
IsNext(s) == /\ pc = "dispatch"
             /\ s \in ready
             /\ (s = "low" => "traj" \notin ready)
             /\ (s = "ret" => ready = {"ret"})

\* After a short callback spin_some goes on with the rest of the set, or its
\* 50 ms are over and the rest is dropped (the messages stay queued).
AfterShort(s) ==
  \E rest \in {ready \ {s}, {}} :
     /\ ready' = rest
     /\ pc' = IF rest = {} THEN "poll" ELSE "dispatch"

\* A callback that plays or ramps outlasts the 50 ms.
Enter(phase) == pc' = phase /\ ready' = {} /\ busy' = TRUE

LeaveBusy == pc' = "poll" /\ UNCHANGED busy

Leave == pc' = "poll" /\ busy' = FALSE
-----------------------------------------------------------------------------
(* The callbacks.                                                          *)

\* lowstateCallback: the first frame is also the standing pose
LowstateCallback ==
  /\ IsNext("low")
  /\ lowQ' = Tail(lowQ)
  /\ latest' = Head(lowQ)
  /\ standing' = IF standing = NoPose THEN Head(lowQ) ELSE standing
  /\ AfterShort("low")
  /\ UNCHANGED <<trajQ, retQ, busy, rampDone, shutdown, playing, ramping, cmd>>

\* Foreign joints are stripped, so only a missing right-arm joint or an empty
\* name list makes a trajectory unacceptable.
RejectTrajectory ==
  /\ IsNext("traj")
  /\ Head(trajQ).names # "complete"
  /\ trajQ' = Tail(trajQ)
  /\ AfterShort("traj")
  /\ UNCHANGED <<lowQ, retQ, cache, busy, rampDone, shutdown, playing, ramping,
                 cmd>>

\* The compare-and-exchange of busy_ succeeds; its failure is unreachable here
\* (NoCallbackFindsBusy).
AcceptTrajectory ==
  /\ IsNext("traj")
  /\ ~busy
  /\ Head(trajQ).names = "complete"
  /\ points' = Head(trajQ).points
  /\ wp' = 1
  /\ trajQ' = Tail(trajQ)
  /\ Enter("first")
  /\ UNCHANGED <<lowQ, retQ, cache, rampDone, shutdown, sub, ramping, cmd>>

FirstPoint ==
  /\ pc = "first"
  /\ IF points # <<>> /\ ~shutdown THEN PublishPositions(points[1])
                                   ELSE UNCHANGED cmd
  /\ pc' = "segment"
  /\ wp' = 2
  /\ UNCHANGED <<queues, ready, cache, busy, rampDone, shutdown, points, sub,
                 ramping>>

Playing == pc = "segment" /\ wp <= Len(points) /\ ~shutdown

\* One 4 ms sample of the segment that ends at waypoint wp.
InterpolatedPoint ==
  /\ Playing
  /\ sub + 1 < SubSteps
  /\ sub' = sub + 1
  /\ PublishPositions(Lerp(points[wp - 1], points[wp], sub + 1, SubSteps))
  /\ UNCHANGED <<pc, queues, ready, cache, busy, rampDone, shutdown, points, wp,
                 ramping>>

\* The waypoint itself, after its samples or (a segment of at most 4 ms) at once.
Waypoint ==
  /\ Playing
  /\ sub \in {0, SubSteps - 1}
  /\ PublishPositions(points[wp])
  /\ wp' = wp + 1
  /\ sub' = 0
  /\ UNCHANGED <<pc, queues, ready, cache, busy, rampDone, shutdown, points,
                 ramping>>

EndOfWaypointsOnly ==
  /\ pc = "segment"
  /\ wp > Len(points)
  /\ pc' = "hold"
  /\ anchor' = Endpoint
  /\ UNCHANGED <<queues, ready, cache, busy, rampDone, shutdown, playing, step,
                 cmd>>

EndOfWaypoints ==
  /\ pc = "segment"
  /\ wp > Len(points) \/ shutdown
  /\ pc' = "hold"
  /\ anchor' = Endpoint
  /\ UNCHANGED <<queues, ready, cache, busy, rampDone, shutdown, playing, step,
                 cmd>>

BeginRampUnasked(wanted) ==
  IF standing # NoPose THEN pc' = "ramp" /\ UNCHANGED <<busy, anchor>>
                       ELSE Leave /\ anchor' = NoPose

\* The end of trajectoryCallback: the ramp, which executeRampToStanding refuses
\* while there is no standing pose, or the return to the loop.
BeginRampOrLeave(wanted) ==
  IF wanted /\ standing # NoPose
  THEN pc' = "ramp" /\ UNCHANGED <<busy, anchor>>
  ELSE Leave /\ anchor' = NoPose

\* The hold loop, then the decision between ramping and holding on.
Hold ==
  /\ pc = "hold"
  /\ Command(RampSteps, anchor)
  /\ points' = <<>> /\ wp' = 0 /\ sub' = 0
  /\ BeginRampOrLeave(AutoReturn \/ shutdown)
  /\ UNCHANGED <<queues, ready, cache, rampDone, shutdown, step>>

ReturnIgnored ==
  /\ IsNext("ret")
  /\ latest = NoPose
  /\ retQ' = retQ - 1
  /\ AfterShort("ret")
  /\ UNCHANGED <<trajQ, lowQ, cache, busy, rampDone, shutdown, playing, ramping,
                 cmd>>

ReturnToStanding ==
  /\ IsNext("ret")
  /\ ~busy
  /\ latest # NoPose
  /\ retQ' = retQ - 1
  /\ anchor' = latest
  /\ Enter("ramp")
  /\ UNCHANGED <<trajQ, lowQ, cache, rampDone, shutdown, playing, step, cmd>>

\* One publication of executeRampToStanding; the last one marks it executed.
RampPublish ==
  /\ Command(RampSteps - step, Lerp(anchor, standing, step, RampSteps))
  /\ IF step < RampSteps
     THEN step' = step + 1 /\ UNCHANGED <<anchor, rampDone>>
     ELSE step' = 0 /\ anchor' = NoPose /\ rampDone' = TRUE

RampStep ==
  /\ pc = "ramp"
  /\ RampPublish
  /\ IF step < RampSteps THEN UNCHANGED <<pc, busy>> ELSE Leave
  /\ UNCHANGED <<queues, ready, cache, shutdown, playing>>
-----------------------------------------------------------------------------
(* The end of main().                                                      *)

LeaveLoop ==
  /\ pc = "poll"
  /\ shutdown
  /\ pc' = "closing"
  /\ UNCHANGED <<queues, ready, cache, busy, rampDone, shutdown, playing,
                 ramping, cmd>>

ShutdownRampNever == FALSE

ShutdownRampWanted == ~AutoReturn /\ ~rampDone /\ ~busy
                      /\ standing # NoPose /\ latest # NoPose

\* executeShutdownRampIfNeeded
ShutdownRampIfNeeded ==
  /\ pc = "closing"
  /\ IF ShutdownRampWanted
     THEN pc' = "final_ramp" /\ busy' = TRUE /\ anchor' = latest
     ELSE pc' = "teardown" /\ UNCHANGED <<busy, anchor>>
  /\ UNCHANGED <<queues, ready, cache, rampDone, shutdown, playing, step, cmd>>

FinalRampStep ==
  /\ pc = "final_ramp"
  /\ RampPublish
  /\ IF step < RampSteps THEN UNCHANGED <<pc, busy>>
                         ELSE pc' = "teardown" /\ busy' = FALSE
  /\ UNCHANGED <<queues, ready, cache, shutdown, playing>>

PublishAtOnce == Command(0, 0)

\* The destructor publishes weight 0, but main() has called rclcpp::shutdown()
\* before the node is destroyed: a publisher of a context that has been shut
\* down drops the message.
DestructorPublish == UNCHANGED cmd

Destroy ==
  /\ pc = "teardown"
  /\ DestructorPublish
  /\ pc' = "exited"
  /\ UNCHANGED <<queues, ready, cache, busy, rampDone, shutdown, playing,
                 ramping>>
-----------------------------------------------------------------------------
Environment ==
  \/ \E m \in Messages : SendTrajectory(m)
  \/ \E p \in BodyPoses \cup {cmd.q} : LowState(p)
  \/ RequestReturn
  \/ Signal

Executor ==
  \/ Poll \/ LowstateCallback
  \/ RejectTrajectory \/ AcceptTrajectory
  \/ FirstPoint \/ InterpolatedPoint \/ Waypoint \/ EndOfWaypoints \/ Hold
  \/ ReturnIgnored \/ ReturnToStanding \/ RampStep
  \/ LeaveLoop \/ ShutdownRampIfNeeded \/ FinalRampStep \/ Destroy

Next == Environment \/ Executor

SafetySpec == Init /\ [][Next]_vars

\* The node's thread runs on, and it is not delayed beyond 50 ms in every
\* lowstate callback (it takes microseconds), so what is collected behind a
\* lowstate frame gets its turn.  Nothing is assumed of the environment.
Spec == SafetySpec /\ WF_vars(Executor)
                   /\ SF_vars(LowstateCallback /\ pc' = "dispatch")
-----------------------------------------------------------------------------
\* Every variable keeps its type, whatever the queues receive.
TypeOK ==
  /\ pc \in Phases
  /\ trajQ \in Seq(Messages) /\ lowQ \in Seq(Int) /\ retQ \in 0 .. Depth
  /\ ready \subseteq Subscriptions
  /\ latest \in Int \cup {NoPose} /\ standing \in Int \cup {NoPose}
  /\ busy \in BOOLEAN /\ rampDone \in BOOLEAN /\ shutdown \in BOOLEAN
  /\ points \in Seq(Int) /\ wp \in Nat /\ sub \in 0 .. (SubSteps - 1)
  /\ anchor \in Int \cup {NoPose} /\ step \in 0 .. RampSteps
  /\ cmd \in [w: 0 .. RampSteps, q: Int]

\* No callback leaves busy_ set behind, on any of its exits: whenever the
\* thread is about to run a callback, or to decide on the shutdown ramp, the
\* compare-and-exchange at its head succeeds.
NoCallbackFindsBusy == pc \in {"poll", "dispatch", "closing"} => ~busy

\* An uninterrupted trajectory is handed from its last waypoint to the hold
\* loop without a jump: trajectory_endpoint, recomputed from the message and
\* clamped by code of its own, is the pose commanded last.
HandoverIsContinuous ==
  pc = "hold" /\ points # <<>> /\ ~shutdown => anchor = cmd.q

\* What the node may leave behind when it exits.  With auto-return the arm is
\* released unless no ramp was ever possible; without it, unless an earlier
\* ramp makes the shutdown ramp look superfluous or there is no standing pose.
ReleasedAtExit ==
  pc = "exited" => \/ cmd.w = 0
                   \/ IF AutoReturn THEN ~rampDone
                                    ELSE rampDone \/ standing = NoPose

\* With auto_return_to_standing=false the arm is held where it is until the
\* process is told to stop or a return request is taken: no release begins
\* otherwise.
HoldsUntilAsked ==
  [][~AutoReturn /\ ~shutdown /\ pc # "ramp" /\ pc' = "ramp" => retQ' < retQ]_vars

\* The authority weight obeys the protocol of the abstract channel.
Authority == INSTANCE ArmControl
               WITH Full <- RampSteps, level <- cmd.w, stopped <- pc = "exited"

\* Authority is taken at once, given back step by step, a release is never
\* interrupted (not by a queued trajectory, not by SIGINT) and always ends.
ImplementsArmControl == Authority!Spec

\* SIGINT ends the process from every point of every callback.
ShutdownCompletes == shutdown ~> pc = "exited"

\* Once trajectories stop arriving, a return request is not forgotten: it is
\* queued during a trajectory and releases the arm afterwards.
ReturnIsServed ==
  <>[](trajQ = <<>>) =>
    (retQ > 0 /\ latest # NoPose ~> cmd.w = 0 \/ shutdown)
-----------------------------------------------------------------------------
(* Statements of the source's comments that the code does not keep.       *)

\* "... ramp ... has already left kNotUsedJoint.q at 0.0, so this is a redundant-
\* but-harmless final assertion" (the destructor): where a ramp was possible and has
\* been executed, the arm is released when the node is torn down.
FinalAssertionIsRedundant ==
  pc = "teardown" /\ rampDone /\ standing # NoPose => cmd.w = 0
=============================================================================
