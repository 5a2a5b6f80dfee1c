----------------------------- MODULE TagTrigger -----------------------------
(***************************************************************************)
(* The capture of v4l2_apriltag_trigger.py: a trigger starts a thread that *)
(* waits until the transform of the camera has stood still, takes frames   *)
(* (from a capture thread that reads the camera all the time, or from a    *)
(* camera it opens itself), keeps those with the tag and publishes.  The   *)
(* camera may be unplugged and come back under another path.               *)
(*                                                                         *)
(* The transform of the camera is a point on a line, a frame its number    *)
(* and its age; what the detector sees in a frame is its verdict.  That    *)
(* the transform stands still is required, as in all configurations.       *)
(***************************************************************************)
EXTENDS Integers, Sequences

CONSTANTS
  Paths,          \* device paths the camera may have
  Places,         \* where the transform may put the camera
  Tolerance,      \* tf_stable_translation_tol_m
  StableCount,    \* tf_stable_sample_count
  StableWait,     \* tf_stable_wait_s, in sample intervals
  SampleCount,    \* sample_count
  CaptureWait,    \* the longest capture from the stream
  StaleAfter,     \* a frame of the stream is stale after a second
  WarmupFrames,   \* warmup_frames
  MaxFrames       \* bound: frames the capture thread reads

ASSUME TriggerAssumption ==
  /\ Places \subseteq Int /\ Tolerance \in Nat
  /\ StableCount \in Nat \ {0, 1} /\ StableWait \in Nat
  /\ SampleCount \in Nat \ {0} /\ CaptureWait \in Nat /\ StaleAfter \in Nat
  /\ WarmupFrames \in Nat /\ MaxFrames \in Nat

AutoDevice == "auto"

VARIABLES
  cfg,            \* continuous_capture, detect_only, publish_intermediate_poses
  up,             \* the node runs
  plugged,        \* the path the camera has now, if any
  device,         \* video_device
  cap,            \* the capture thread: "off", "closed", "open", "dead"
  latest,         \* _latest_frame: its number and its age
  ready,          \* _stream_ready
  busy,           \* _trigger_busy
  waiting,        \* _waiting_for_completion
  shoulder,       \* _shoulder_origin is known
  thr,            \* where the trigger thread is
  job             \* its local variables

world == <<cfg, up, plugged>>
stream == <<cap, latest, ready>>
node == <<device, waiting, shoulder>>
triggerVars == <<world, stream, node, busy, thr, job>>

\* left is the time to the deadline of the loop it is in, samples are transforms
\* looked up, apart says how far any two of the last of them were (for the properties),
\* frames were taken, looked of them looked at, accepted those
\* with the tag, targets and goals were published.
NoJob == [left |-> 0, samples |-> <<>>, apart |-> {}, attempt |-> 0, reads |-> 0, frames |-> <<>>,
          looked |-> 0, accepted |-> 0, targets |-> 0, goals |-> 0]

TriggerInit ==
  /\ cfg \in [continuous : BOOLEAN, detectOnly : BOOLEAN, intermediate : BOOLEAN]
  /\ up = TRUE /\ plugged \in {{}} \cup {{p} : p \in Paths}
  /\ cap = (IF cfg.continuous THEN "closed" ELSE "off")
  /\ latest = [seq |-> 0, age |-> 0] /\ ready = FALSE
  /\ device = AutoDevice /\ waiting = FALSE /\ shoulder = FALSE
  /\ busy = FALSE /\ thr = "none" /\ job = NoJob
-----------------------------------------------------------------------------
(* The world: the camera is unplugged, time passes.                        *)

\* An open handle does not survive it: its reads fail from then on.
Replug ==
  /\ up
  /\ plugged' \in ({{}} \cup {{p} : p \in Paths}) \ {plugged}
  /\ cap' = IF cap = "open" THEN "dead" ELSE cap
  /\ UNCHANGED <<cfg, up, latest, ready, node, busy, thr, job>>

\* The latest frame grows old and the deadline of the thread comes nearer.
Tick ==
  /\ up
  /\ latest' = [latest EXCEPT !.age = IF latest.seq = 0 \/ @ > StaleAfter THEN @ ELSE @ + 1]
  /\ job' = [job EXCEPT !.left = IF @ > 0 THEN @ - 1 ELSE 0]
  /\ UNCHANGED <<world, cap, ready, node, busy, thr>>
-----------------------------------------------------------------------------
(* The callbacks of the node's executor.                                   *)

RetryShoulderLookup ==
  /\ up /\ ~shoulder /\ shoulder' = TRUE
  /\ UNCHANGED <<world, stream, device, waiting, busy, thr, job>>

\* The timer that _traj_cb starts (ReachSystem has its duration)
OnCompletion ==
  /\ up /\ waiting /\ waiting' = FALSE
  /\ UNCHANGED <<world, stream, device, shoulder, busy, thr, job>>

\* By topic or by key; a trigger that finds the thread busy is ignored.
OnTrigger ==
  /\ up /\ ~busy
  /\ busy' = TRUE /\ thr' = "guards"
  /\ UNCHANGED <<world, stream, node, job>>

DestroyNode ==
  /\ up /\ up' = FALSE
  /\ UNCHANGED <<cfg, plugged, stream, node, busy, thr, job>>
-----------------------------------------------------------------------------
(* The device: the first path with the serial number, the interface and    *)
(* the format asked for; a path that does not open is looked for again.    *)

Configured == AutoDevice

SelectVideoDevice == IF plugged = {} THEN device ELSE CHOOSE p \in plugged : TRUE

Opens == plugged # {} /\ device' = SelectVideoDevice

\* The camera is absent, or another process has it.
DoesNotOpen == device' \in {device, Configured, SelectVideoDevice}
-----------------------------------------------------------------------------
(* The capture thread.                                                     *)

CaptureOpen ==
  /\ up /\ cap = "closed"
  /\ Opens
  /\ cap' = "open" /\ latest' = [seq |-> 0, age |-> 0] /\ ready' = FALSE
  /\ UNCHANGED <<world, waiting, shoulder, busy, thr, job>>

CaptureOpenFails ==
  /\ up /\ cap = "closed"
  /\ DoesNotOpen
  /\ UNCHANGED <<world, stream, waiting, shoulder, busy, thr, job>>

\* Warm once enough frames were read; the least time may take longer.
CaptureRead ==
  /\ up /\ cap = "open" /\ latest.seq < MaxFrames
  /\ latest' = [seq |-> latest.seq + 1, age |-> 0]
  /\ ready' \in {ready, latest'.seq >= WarmupFrames}
  /\ UNCHANGED <<world, cap, node, busy, thr, job>>
-----------------------------------------------------------------------------
(* The trigger thread.                                                     *)

Thread(pc) == up /\ thr = pc

Continue(pc) == thr' = pc /\ UNCHANGED busy

EndThread == thr' = "none" /\ busy' = FALSE /\ job' = NoJob

StartCapture(work) ==
  /\ job' = [work EXCEPT !.left = IF cfg.continuous THEN CaptureWait ELSE 0]
  /\ Continue(IF cfg.continuous THEN "stream" ELSE "open")

\* A goal in flight, or a shoulder that TF still does not know, ends it.
Guards ==
  /\ Thread("guards")
  /\ \/ ~cfg.detectOnly /\ (waiting \/ ~shoulder) /\ EndThread /\ UNCHANGED shoulder
     \/ /\ ~cfg.detectOnly => ~waiting
        /\ shoulder' = (shoulder \/ ~cfg.detectOnly)
        /\ job' = [job EXCEPT !.left = StableWait] /\ Continue("stable")
  /\ UNCHANGED <<world, stream, device, waiting>>

Apart(a, b) == IF a >= b THEN a - b ELSE b - a

Distances(s) == {Apart(s[i], s[j]) : i, j \in 1 .. Len(s)}

EndsAreStable(s) == Apart(s[1], s[Len(s)]) <= Tolerance

SamplesAreStable(s) == \A i \in 1 .. Len(s) : Apart(s[1], s[i]) <= Tolerance

Window(s) == IF Len(s) > StableCount THEN Tail(s) ELSE s

\* A lookup that fails, and a sample that does not end the wait, cost an interval.
SampleTf ==
  /\ Thread("stable") /\ job.left > 0
  /\ \E place \in Places :
        LET s == Window(Append(job.samples, place))
        IN  IF Len(s) >= StableCount /\ SamplesAreStable(s)
            THEN StartCapture([job EXCEPT !.samples = <<>>, !.apart = Distances(s)])
            ELSE /\ job' \in {[job EXCEPT !.samples = s, !.left = @ - 1],
                              [job EXCEPT !.left = @ - 1]}
                 /\ UNCHANGED <<thr, busy>>
  /\ UNCHANGED <<world, stream, node>>

TfNotStable ==
  /\ Thread("stable") /\ job.left = 0
  /\ EndThread
  /\ UNCHANGED <<world, stream, node>>

AnyFrame == TRUE

NewFrame == latest.seq # (IF job.frames = <<>> THEN 0 ELSE job.frames[Len(job.frames)].seq)

MoreWanted == job.left > 0 /\ Len(job.frames) < SampleCount

\* While there is no new frame it sleeps, and the deadline comes nearer.
TakeFrame ==
  /\ Thread("stream") /\ MoreWanted
  /\ ready /\ NewFrame /\ latest.age <= StaleAfter
  /\ job' = [job EXCEPT !.frames = Append(@, latest)]
  /\ UNCHANGED <<world, stream, node, busy, thr>>

\* Not warmed up, or stale: what was taken is dropped.
StreamUnusable ==
  /\ Thread("stream") /\ MoreWanted
  /\ ready => NewFrame /\ latest.age > StaleAfter
  /\ EndThread
  /\ UNCHANGED <<world, stream, node>>

StreamTaken ==
  /\ Thread("stream") /\ ~MoreWanted
  /\ IF job.frames = <<>> THEN EndThread ELSE Continue("look") /\ UNCHANGED job
  /\ UNCHANGED <<world, stream, node>>

\* The warm-up has a deadline of its own, and frames that fail do not count.
OpenOnDemand ==
  /\ Thread("open")
  /\ \/ Opens /\ Continue("demand") /\ job' = [job EXCEPT !.reads = 0]
     \/ DoesNotOpen /\ EndThread
  /\ UNCHANGED <<world, stream, waiting, shoulder>>

ReadOnDemand ==
  /\ Thread("demand") /\ job.reads < SampleCount
  /\ LET read == [job EXCEPT !.reads = @ + 1]
         frame == [seq |-> read.reads, age |-> 0]
     IN  job' \in {read} \cup IF device \in plugged
                             THEN {[read EXCEPT !.frames = Append(@, frame)]} ELSE {}
  /\ UNCHANGED <<world, stream, node, busy, thr>>

\* Without a frame the devices are scanned again, once.
DemandTaken ==
  /\ Thread("demand") /\ job.reads = SampleCount
  /\ \/ job.frames # <<>> /\ Continue("look") /\ UNCHANGED <<job, device>>
     \/ job.frames = <<>> /\ job.attempt > 0 /\ EndThread /\ UNCHANGED device
     \/ /\ job.frames = <<>> /\ job.attempt = 0
        /\ job' = [job EXCEPT !.attempt = 1] /\ device' = Configured
        /\ Continue("open")
  /\ UNCHANGED <<world, stream, waiting, shoulder>>

\* The tag is accepted and has a transform, or not.
ProcessFrame ==
  /\ Thread("look") /\ job.looked < Len(job.frames)
  /\ LET without == [job EXCEPT !.looked = @ + 1]
         with == [without EXCEPT !.accepted = @ + 1,
                                 !.targets = IF cfg.intermediate THEN @ + 1 ELSE @]
     IN  job' \in {with, without}
  /\ UNCHANGED <<world, stream, node, busy, thr>>

RaiseKeepsBusy ==
  /\ Thread("look") /\ job.looked < Len(job.frames)
  /\ thr' = "none" /\ job' = NoJob /\ UNCHANGED busy
  /\ UNCHANGED <<world, stream, node>>

\* An exception ends the thread as well.
Raise ==
  /\ Thread("look") /\ job.looked < Len(job.frames)
  /\ EndThread
  /\ UNCHANGED <<world, stream, node>>

NoTag ==
  /\ Thread("look") /\ job.looked = Len(job.frames) /\ job.accepted = 0
  /\ EndThread
  /\ UNCHANGED <<world, stream, node>>

\* The average, compensated for the baseline, is a target pose; the goal is made
\* from the average as it was, drawn back to where the arm reaches.
Conclude ==
  /\ Thread("look") /\ job.looked = Len(job.frames) /\ job.accepted # 0
  /\ job' = [job EXCEPT !.targets = IF cfg.intermediate THEN @ ELSE 1,
                        !.goals = IF cfg.detectOnly THEN 0 ELSE 1]
  /\ Continue(IF cfg.detectOnly THEN "return" ELSE "sent")
  /\ UNCHANGED <<world, stream, node>>

\* Only after the goal is out
SetWaiting ==
  /\ Thread("sent")
  /\ waiting' = TRUE /\ EndThread
  /\ UNCHANGED <<world, stream, device, shoulder>>

Return ==
  /\ Thread("return")
  /\ EndThread
  /\ UNCHANGED <<world, stream, node>>

RunTrigger ==
  \/ Guards \/ SampleTf \/ TfNotStable \/ TakeFrame \/ StreamUnusable \/ StreamTaken
  \/ OpenOnDemand \/ ReadOnDemand \/ DemandTaken \/ ProcessFrame \/ Raise
  \/ NoTag \/ Conclude \/ SetWaiting \/ Return

TriggerNext ==
  \/ RunTrigger \/ OnTrigger \/ OnCompletion \/ RetryShoulderLookup
  \/ CaptureOpen \/ CaptureOpenFails \/ CaptureRead \/ DestroyNode
  \/ Replug \/ Tick
-----------------------------------------------------------------------------
(* What it promises.                                                       *)

\* When frames are taken, no two of the last transforms of the camera were
\* further apart than twice the tolerance, however it moved.
StoodStill == \A d \in job.apart : d <= 2 * Tolerance

\* Frames of one capture are in order, each is used once, none of them was taken
\* while the camera warmed up and none is stale, whatever the capture thread does
\* meanwhile.
EachFrameOnce ==
  \A i, j \in 1 .. Len(job.frames) :
     /\ i < j => job.frames[i].seq < job.frames[j].seq
     /\ cfg.continuous => job.frames[i].seq >= WarmupFrames /\ job.frames[i].age <= StaleAfter

\* The guard against a second trigger is opened again, whatever ends the first.
TriggerEnds == busy ~> (~busy \/ ~up)
=============================================================================
