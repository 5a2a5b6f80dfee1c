--------------------------- MODULE ButtonDetector ---------------------------
(***************************************************************************)
(* The elevator button detectors: elevator_vision's button_detector_node.py *)
(* looks for the button in a thread of its own, which the image callback   *)
(* wakes with an event and the latest frame; the stack's copy does it in   *)
(* the callback.  With the v4l2 backend a timer reads the camera, and      *)
(* there is no depth.                                                      *)
(***************************************************************************)
EXTENDS Naturals

CONSTANT MaxImages      \* bound: images of the camera

ASSUME DetectorAssumption == MaxImages \in Nat

VARIABLES
  threaded, v4l2, \* which copy, which backend
  infoKnown,      \* camera_info is set
  depth,          \* the number of the latest depth image
  image,          \* the number of the last colour image
  frame,          \* _latest_frame: its image and its depth, or 0
  storing,        \* the image callback has stored a frame, not yet set the event
  event,          \* _frame_event
  inference,      \* where the thread is
  inHand,         \* frame_data of the thread
  seen,         \* the last image looked at
  labels, poses   \* the images a label, a pose was published for

callbacks == <<infoKnown, depth, image>>
handover == <<frame, storing, event>>
thread == <<inference, inHand>>
results == <<seen, labels, poses>>
buttonVars == <<threaded, v4l2, callbacks, handover, thread, results>>

NoFrame == [image |-> 0, depth |-> 0]

ButtonInit ==
  /\ threaded \in BOOLEAN /\ v4l2 \in BOOLEAN
  /\ infoKnown = FALSE /\ depth = 0 /\ image = 0
  /\ frame = NoFrame /\ storing = FALSE /\ event = FALSE
  /\ inference = "wait" /\ inHand = NoFrame
  /\ seen = 0 /\ labels = {} /\ poses = {}
-----------------------------------------------------------------------------
\* Detection finds the button (of the target floor), or not; only with the camera
\* known, enough depth there, and a transform is there a pose.
Look(n, d) ==
  /\ seen' = n
  /\ \/ UNCHANGED <<labels, poses>>
     \/ /\ labels' = labels \cup {n}
        /\ poses' \in {poses} \cup IF infoKnown /\ d > 0 THEN {poses \cup {n}} ELSE {}

ButtonInfoCb ==
  /\ ~v4l2 /\ ~infoKnown
  /\ infoKnown' = TRUE
  /\ UNCHANGED <<threaded, v4l2, depth, image, handover, thread, results>>

DepthCb ==
  /\ ~v4l2 /\ ~storing /\ depth <= image
  /\ depth' = depth + 1
  /\ UNCHANGED <<threaded, v4l2, infoKnown, image, handover, thread, results>>

\* A frame is stored, under its lock; the event is set after that.
RgbCb ==
  /\ ~v4l2 /\ threaded /\ ~storing /\ image < MaxImages
  /\ image' = image + 1
  /\ IF ~infoKnown \/ depth = 0 THEN UNCHANGED <<frame, storing>>
     ELSE frame' = [image |-> image', depth |-> depth] /\ storing' = TRUE
  /\ UNCHANGED <<threaded, v4l2, infoKnown, depth, event, thread, results>>

\* The stack's copy
RgbCbInline ==
  /\ ~v4l2 /\ ~threaded /\ image < MaxImages
  /\ image' = image + 1
  /\ IF ~infoKnown \/ depth = 0 THEN UNCHANGED results ELSE Look(image', depth)
  /\ UNCHANGED <<threaded, v4l2, infoKnown, depth, handover, thread>>

SetEvent ==
  /\ storing
  /\ storing' = FALSE /\ event' = TRUE
  /\ UNCHANGED <<threaded, v4l2, callbacks, frame, thread, results>>

V4l2Tick ==
  /\ v4l2 /\ image < MaxImages
  /\ image' = image + 1
  /\ Look(image', 0)
  /\ UNCHANGED <<threaded, v4l2, infoKnown, depth, handover, thread>>
-----------------------------------------------------------------------------
\* A wait that times out is repeated.
WakeAndClear ==
  /\ inference = "wait" /\ event
  /\ inference' = "read" /\ event' = FALSE
  /\ UNCHANGED <<threaded, v4l2, callbacks, frame, storing, inHand, results>>

ReadFrame ==
  /\ inference = "read"
  /\ inHand' = frame /\ inference' = "look"
  /\ UNCHANGED <<threaded, v4l2, callbacks, handover, results>>

ProcessAndClear ==
  /\ inference = "look"
  /\ Look(inHand.image, inHand.depth)
  /\ inference' = "wait" /\ event' = FALSE
  /\ UNCHANGED <<threaded, v4l2, callbacks, frame, storing, inHand>>

\* An exception is caught: the thread waits again.
ProcessBgr ==
  /\ inference = "look"
  /\ Look(inHand.image, inHand.depth)
  /\ inference' = "wait"
  /\ UNCHANGED <<threaded, v4l2, callbacks, handover, inHand>>

InferenceLoop == WakeAndClear \/ ReadFrame \/ ProcessBgr

ButtonNext ==
  \/ ButtonInfoCb \/ DepthCb \/ RgbCb \/ RgbCbInline \/ SetEvent \/ V4l2Tick \/ InferenceLoop
-----------------------------------------------------------------------------
\* No wake-up is lost: every frame that is stored is looked at, or a later one is,
\* also when no image follows it.
LatestFrameIsSeen ==
  \A n \in 1 .. MaxImages : frame.image = n ~> seen >= n
=============================================================================
