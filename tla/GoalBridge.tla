----------------------------- MODULE GoalBridge -----------------------------
(***************************************************************************)
(* The reach demonstration with a camera stream: apriltag_detector_node.py *)
(* looks for the tag in the images it gets to, at most one in a while, and *)
(* sends the target's position; apriltag_goal_bridge.py keeps a window of  *)
(* positions and, when its key is pressed, sends their mean as a goal.     *)
(* The queue between them and the executors' turns delay every position.   *)
(*                                                                         *)
(* A position is the time of its image.                                    *)
(***************************************************************************)
EXTENDS Integers, Sequences, SequencesExt

CONSTANTS
  DetectEvery,    \* least time between detections: 0.33 s
  WindowSize,     \* smoothing_window
  StaleThreshold, \* stale_threshold_s
  LongestMotion,  \* the longest trajectory, and its second
  QueueDepth,     \* of both queues
  MaxTime         \* bound: when the clock stops

ASSUME BridgeAssumption ==
  /\ DetectEvery \in Nat /\ WindowSize \in Nat \ {0} /\ StaleThreshold \in Nat
  /\ LongestMotion \in Nat \ {0} /\ QueueDepth \in Nat \ {0} /\ MaxTime \in Nat

VARIABLES
  clock,
  images,         \* stamps of the images that wait for the detector
  intrinsics,     \* camera_params is set
  processedAt,    \* last_processed_time
  targets,        \* stamps of the positions that wait for the bridge
  cache,          \* position_cache
  lastStamp,      \* _last_stamp
  origin,         \* _shoulder_origin is known
  inFlight,       \* _waiting_for_completion
  completion,     \* when the completion timer fires, 0 without one
  goal            \* the last goal sent: when, and the positions it is the mean of

detector == <<images, intrinsics, processedAt>>
bridge == <<cache, lastStamp, origin, inFlight, completion, goal>>
bridgeVars == <<clock, detector, targets, bridge>>

BridgeInit ==
  /\ clock = 1
  /\ images = <<>> /\ intrinsics = FALSE /\ processedAt = 0
  /\ targets = <<>>
  /\ cache = <<>> /\ lastStamp = 0 /\ origin = FALSE
  /\ inFlight = FALSE /\ completion = 0 /\ goal = [at |-> 0, from |-> <<>>]

\* A queue that is full loses what came first.
Keep(q, depth) == IF Len(q) > depth THEN Tail(q) ELSE q
-----------------------------------------------------------------------------
\* The camera takes an image, which may be lost on its way.
TickClock ==
  /\ clock < MaxTime
  /\ clock' = clock + 1
  /\ images' \in {images, Keep(Append(images, clock'), QueueDepth)}
  /\ UNCHANGED <<intrinsics, processedAt, targets, bridge>>

InfoCb ==
  /\ ~intrinsics /\ intrinsics' = TRUE
  /\ UNCHANGED <<clock, images, processedAt, targets, bridge>>

\* An image too soon after the last, or before the camera is known, is dropped;
\* the rest show the tag and have a transform, or not.
ImageCb ==
  /\ images # <<>>
  /\ images' = Tail(images)
  /\ IF clock - processedAt < DetectEvery THEN UNCHANGED <<processedAt, targets>>
     ELSE /\ processedAt' = clock
          /\ \/ UNCHANGED targets
             \/ intrinsics /\ targets' = Keep(Append(targets, Head(images)), QueueDepth)
  /\ UNCHANGED <<clock, intrinsics, bridge>>
-----------------------------------------------------------------------------
BridgeTargetCb ==
  /\ targets # <<>>
  /\ targets' = Tail(targets)
  /\ cache' = Keep(Append(cache, Head(targets)), WindowSize)
  /\ lastStamp' = Head(targets)
  /\ UNCHANGED <<clock, detector, origin, inFlight, completion, goal>>

\* A trajectory, also one that another node asked for
BridgeTrajCb ==
  /\ completion' \in clock + 1 .. clock + LongestMotion
  /\ UNCHANGED <<clock, detector, targets, cache, lastStamp, origin, inFlight, goal>>

BridgeOnCompletion ==
  /\ completion > 0 /\ clock >= completion
  /\ inFlight' = FALSE /\ completion' = 0
  /\ UNCHANGED <<clock, detector, targets, cache, lastStamp, origin, goal>>

BridgeShoulderLookup ==
  /\ ~origin /\ origin' = TRUE
  /\ UNCHANGED <<clock, detector, targets, cache, lastStamp, inFlight, completion, goal>>

AnyAge == TRUE

FreshPose == clock - lastStamp <= StaleThreshold

\* The key of _tick; a trigger that fails a guard does nothing.
BridgeOnTrigger ==
  /\ cache # <<>> /\ origin /\ ~inFlight /\ FreshPose
  /\ inFlight' = TRUE
  /\ goal' = [at |-> clock, from |-> cache]
  /\ UNCHANGED <<clock, detector, targets, cache, lastStamp, origin, completion>>

BridgeNext ==
  \/ TickClock \/ InfoCb \/ ImageCb
  \/ BridgeTargetCb \/ BridgeTrajCb \/ BridgeOnCompletion \/ BridgeShoulderLookup
  \/ BridgeOnTrigger
-----------------------------------------------------------------------------
\* A goal is the mean of positions of different images, in their order, the last
\* of them fresh however long the queues held it; nothing bounds the older ones.
GoalIsFresh ==
  goal.from # <<>> =>
    /\ goal.at - Last(goal.from) <= StaleThreshold
    /\ \A j, k \in 1 .. Len(goal.from) : j < k => goal.from[j] < goal.from[k]
=============================================================================
