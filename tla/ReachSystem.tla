----------------------------- MODULE ReachSystem -----------------------------
(***************************************************************************)
(* The reach system as apriltag_reach.launch.py starts it: the V4L2         *)
(* AprilTag trigger, the planner and the executor.  A key press starts a    *)
(* thread that captures the tag and publishes a goal; the flag              *)
(* _waiting_for_completion keeps the next press out until a timer, set from *)
(* the trajectory's duration, says that the motion is over.                 *)
(* (apriltag_goal_bridge has the same flag and timer without the thread.)   *)
(***************************************************************************)
EXTENDS MotionPipeline

CONSTANTS
  Margin,         \* the timer's second beyond the trajectory
  CaptureTimes    \* durations of a capture that succeeds

ASSUME ReachAssumption == Margin \in Nat /\ CaptureTimes \subseteq Nat

VARIABLES
  trigger,        \* where _run_trigger_once is; _trigger_busy unless "none"
  wait,           \* time left of the capture
  waiting,        \* _waiting_for_completion
  timer           \* time left of _completion_timer, or Off

client == <<trigger, wait, waiting, timer>>
vars == <<pipeline, client>>

Off == -1

Init == PipelineInit /\ trigger = "none" /\ wait = 0 /\ waiting = FALSE /\ timer = Off
-----------------------------------------------------------------------------
\* _on_trigger, by key or by topic; while the thread runs it is ignored.
OnTrigger ==
  /\ trigger = "none"
  /\ sent < MaxGoals
  /\ trigger' = "check"
  /\ UNCHANGED <<pipeline, wait, waiting, timer>>

FlagUnread == TRUE

FlagIsClear == ~waiting

\* The guard at the head of _run_trigger_once
CheckFlag ==
  /\ trigger = "check"
  /\ IF FlagIsClear THEN trigger' = "capture" /\ wait' \in CaptureTimes
                    ELSE trigger' = "none" /\ UNCHANGED wait
  /\ UNCHANGED <<pipeline, waiting, timer>>

\* TF has been stable over five samples, and the tag was seen within reach.
Captured ==
  /\ trigger = "capture" /\ wait = 0
  /\ trigger' = "publish"
  /\ UNCHANGED <<pipeline, wait, waiting, timer>>

\* No shoulder origin, no stable TF, no frames, no detection, no projection
NotCaptured ==
  /\ trigger = "capture"
  /\ trigger' = "none" /\ wait' = 0
  /\ UNCHANGED <<pipeline, waiting, timer>>

SendGoal ==
  /\ trigger = "publish"
  /\ PublishGoal
  /\ trigger' = "mark"
  /\ UNCHANGED <<wait, waiting, timer>>

MarkWaiting ==
  /\ trigger = "mark"
  /\ waiting' = TRUE
  /\ trigger' = "none"
  /\ UNCHANGED <<pipeline, wait, timer>>

NoMargin(d) == d

Completion(d) == d + Margin

\* _traj_cb: a new trajectory replaces the timer of the one before.
TrajCb ==
  /\ heard # <<>>
  /\ heard' = Tail(heard)
  /\ timer' = Completion(Head(heard))
  /\ UNCHANGED <<sent, planner, executor, trigger, wait, waiting>>

ClearNothing == UNCHANGED waiting

ClearWaiting == waiting' = FALSE

OnCompletion ==
  /\ timer = 0
  /\ ClearWaiting
  /\ timer' = Off
  /\ UNCHANGED <<pipeline, trigger, wait>>
-----------------------------------------------------------------------------
ClientDue == \/ heard # <<>> \/ timer = 0
             \/ trigger \in {"publish", "mark"}
             \/ (trigger = "capture" /\ wait = 0)

Tick ==
  /\ ~ClientDue
  /\ PipelineTick
  /\ wait' = IF trigger = "capture" THEN wait - 1 ELSE wait
  /\ timer' = IF timer = Off THEN Off ELSE timer - 1
  /\ UNCHANGED <<trigger, waiting>>

Pipeline == PipelineStep /\ UNCHANGED client

Trigger == CheckFlag \/ Captured \/ NotCaptured \/ SendGoal \/ MarkWaiting

Callbacks == TrajCb \/ OnCompletion

Next == OnTrigger \/ Trigger \/ Callbacks \/ Pipeline \/ Tick

SafetySpec == Init /\ [][Next]_vars

\* The nodes run and time goes on; nothing is assumed of the operator or of
\* the camera.
Spec == SafetySpec /\ WF_vars(Trigger)
                   /\ WF_vars(MarkWaiting \/ Callbacks \/ Pipeline \/ Tick)
-----------------------------------------------------------------------------
\* Every variable keeps its type.
TypeOK ==
  /\ PipelineTypeOK
  /\ trigger \in {"none", "check", "capture", "publish", "mark"}
  /\ wait \in Nat
  /\ waiting \in BOOLEAN
  /\ timer \in Nat \cup {Off}

\* The planner never has a goal waiting behind another one, so that every plan
\* starts from joint states read after the plan before it.
GoalsNeverQueue == Len(goals) + (IF job = Idle THEN 0 ELSE 1) <= 1

\* When the flag lets a goal through, the arm has finished what was asked
\* before: this is what the flag and its timer are for.
GuardMeansAtRest == trigger = "publish" => AtRest

\* A trajectory is planned from the current joint angles, those the arm has
\* when the trajectory is played.
StartIsCurrent == [][PlannedFromHere]_vars

\* The flag is cleared again after every trajectory that is heard, whoever it was
\* planned for; a goal that is answered by none leaves it set.
GuardReopens == heard # <<>> ~> ~waiting
=============================================================================
