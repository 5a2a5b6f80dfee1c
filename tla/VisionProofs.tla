----------------------------- MODULE VisionProofs -----------------------------
(***************************************************************************)
(* What the goal bridge sends is fresh, for every length of its window and *)
(* of the queues, every interval of detection and every clock; a capture   *)
(* on a trigger uses each frame once, for every number of samples and      *)
(* every age at which a frame is stale, and only after the camera stood    *)
(* still, for every tolerance and length of the window.                    *)
(***************************************************************************)
EXTENDS Vision, SequenceTheorems, TLAPS

Ascending(q) == \A j, k \in 1 .. Len(q) : j < k => q[j] < q[k]
UpTo(q, x) == \A j \in 1 .. Len(q) : q[j] <= x
Stamps(q) == q \in Seq(Nat) /\ Ascending(q)

\* The elements of r are those of q, and x.
Within(r, q, x) == \A j \in 1 .. Len(r) : r[j] = x \/ \E i \in 1 .. Len(q) : r[j] = q[i]

\* A queue that keeps what is newer than all it holds stays in order.
LEMMA KeepNewer ==
  ASSUME NEW q, Stamps(q), NEW x \in Nat, \A j \in 1 .. Len(q) : q[j] < x,
         NEW room \in Nat \ {0}
  PROVE  LET r == Keep(Append(q, x), room)
         IN  Stamps(r) /\ r # <<>> /\ Last(r) = x /\ Within(r, q, x)
<1> DEFINE a == Append(q, x)
<1>1. /\ a \in Seq(Nat) /\ Len(a) = Len(q) + 1 /\ a[Len(q) + 1] = x
      /\ \A j \in 1 .. Len(q) : a[j] = q[j]
  BY AppendProperties DEF Stamps
<1>2. Len(q) \in Nat
  BY DEF Stamps
<1>3. Ascending(a)
  BY <1>1, <1>2 DEF Stamps, Ascending
<1>4. \A j \in 1 .. Len(a) : a[j] = x \/ \E i \in 1 .. Len(q) : a[j] = q[i]
  BY <1>1, <1>2
<1>5. CASE Len(a) > room
  <2>1. /\ Tail(a) \in Seq(Nat) /\ Len(Tail(a)) = Len(q)
        /\ \A j \in 1 .. Len(Tail(a)) : Tail(a)[j] = a[j + 1]
    <3> HIDE DEF a
    <3>1. a # <<>>
      BY <1>1, <1>2
    <3> QED BY <1>1, <1>2, <3>1, HeadTailProperties, SMTT(30)
  <2>2. Len(q) >= 1
    BY <1>1, <1>2, <1>5
  <2>3. Tail(a) # <<>> /\ Last(Tail(a)) = x
    <3> HIDE DEF a
    <3>1. Len(q) \in 1 .. Len(Tail(a))
      BY <1>2, <2>1, <2>2
    <3>2. Tail(a)[Len(q)] = a[Len(q) + 1]
      BY <2>1, <3>1
    <3>3. Tail(a)[Len(Tail(a))] = x
      BY <1>1, <2>1, <3>2
    <3>4. Tail(a) # <<>>
      BY <2>1, <2>2
    <3> QED BY <3>3, <3>4 DEF Last
  <2>4. \A j \in 1 .. Len(Tail(a)) : j + 1 \in 1 .. Len(a) /\ Tail(a)[j] = a[j + 1]
    BY <1>1, <1>2, <2>1
  <2>5. Ascending(Tail(a))
    <3> SUFFICES ASSUME NEW j \in 1 .. Len(Tail(a)), NEW k \in 1 .. Len(Tail(a)), j < k
                 PROVE  Tail(a)[j] < Tail(a)[k]
      BY DEF Ascending
    <3>1. j + 1 < k + 1
      OBVIOUS
    <3> HIDE DEF a
    <3> QED BY <1>3, <2>4, <3>1 DEF Ascending
  <2>6. Within(Tail(a), q, x)
    <3> HIDE DEF a
    <3> QED BY <1>4, <2>4 DEF Within
  <2> QED BY <1>5, <2>1, <2>3, <2>5, <2>6 DEF Keep, Stamps
<1>6. CASE ~(Len(a) > room)
  <2>1. a # <<>> /\ Last(a) = x
    <3>1. Len(a) # 0
      BY <1>1, <1>2
    <3> HIDE DEF a
    <3> QED BY <1>1, <3>1 DEF Last
  <2> QED BY <1>1, <1>3, <1>4, <1>6, <2>1 DEF Keep, Stamps, Within
<1> QED BY <1>5, <1>6

\* What is left of a queue is in order and newer than what was taken.
LEMMA TakeFirst ==
  ASSUME NEW q, Stamps(q), q # <<>>
  PROVE  /\ Head(q) \in Nat /\ Stamps(Tail(q))
         /\ \A j \in 1 .. Len(Tail(q)) : Head(q) < Tail(q)[j] /\ \E i \in 1 .. Len(q) : Tail(q)[j] = q[i]
         /\ \E i \in 1 .. Len(q) : Head(q) = q[i]
<1>1. /\ Head(q) = q[1] /\ Tail(q) \in Seq(Nat) /\ Len(Tail(q)) = Len(q) - 1
      /\ Len(q) \in Nat \ {0} /\ q[1] \in Nat
      /\ \A j \in 1 .. Len(Tail(q)) : Tail(q)[j] = q[j + 1]
  BY HeadTailProperties DEF Stamps
<1> QED BY <1>1 DEF Stamps, Ascending

\* A stamp is on its way in one place: what is cached is older than what waits
\* for the bridge, and that than what waits for the detector.
Older(p, q) == \A j \in 1 .. Len(p), k \in 1 .. Len(q) : p[j] < q[k]

BridgeInv ==
  /\ clock \in Nat /\ Stamps(images) /\ Stamps(targets) /\ Stamps(cache)
  /\ Older(cache, targets) /\ Older(targets, images) /\ Older(cache, images)
  /\ UpTo(images, clock) /\ UpTo(targets, clock) /\ UpTo(cache, clock)
  /\ cache # <<>> => Last(cache) = lastStamp
  /\ GoalIsFresh

\* A goal is the mean of positions of different images, in their order, the last
\* of them fresh, however long the queues and the executors delay them
\* (apriltag_goal_bridge.py, _on_trigger).
THEOREM GoalsAreFresh == Spec => []GoalIsFresh
<1>1. Init => BridgeInv
  <2>1. <<>> \in Seq(Nat) /\ Len(<<>>) = 0
    OBVIOUS
  <2> QED BY <2>1 DEF Init, BridgeInit, BridgeInv, Stamps, Ascending, Older, UpTo, GoalIsFresh
<1>2. BridgeInv /\ [BridgeNext]_bridgeVars => BridgeInv'
  <2> SUFFICES ASSUME BridgeInv, [BridgeNext]_bridgeVars PROVE BridgeInv'
    OBVIOUS
  <2> USE BridgeAssumption DEF BridgeInv, BridgeAssumption
  <2>1. CASE TickClock
    <3>1. /\ clock' = clock + 1 /\ UNCHANGED <<targets, cache, lastStamp, goal>>
          /\ images' \in {images, Keep(Append(images, clock'), QueueDepth)}
      BY <2>1 DEF TickClock, bridge
    <3>2. clock' \in Nat /\ clock' > clock
      BY <3>1
    <3>3. UpTo(images, clock') /\ UpTo(targets', clock') /\ UpTo(cache', clock')
      <4>1. \A q : Stamps(q) /\ UpTo(q, clock) => UpTo(q, clock')
        <5> SUFFICES ASSUME NEW q, Stamps(q), UpTo(q, clock), NEW j \in 1 .. Len(q)
                     PROVE  q[j] <= clock'
          BY DEF UpTo
        <5>1. q[j] \in Nat /\ q[j] <= clock
          BY DEF Stamps, UpTo
        <5> QED BY <3>2, <5>1
      <4> QED BY <3>1, <4>1
    <3>4. CASE images' = images
      BY <3>1, <3>2, <3>3, <3>4 DEF GoalIsFresh
    <3>5. CASE images' = Keep(Append(images, clock'), QueueDepth)
      <4>1. \A q : Stamps(q) /\ UpTo(q, clock) => \A j \in 1 .. Len(q) : q[j] < clock'
        <5> SUFFICES ASSUME NEW q, Stamps(q), UpTo(q, clock), NEW j \in 1 .. Len(q)
                     PROVE  q[j] < clock'
          OBVIOUS
        <5>1. q[j] \in Nat /\ q[j] <= clock
          BY DEF Stamps, UpTo
        <5> QED BY <3>2, <5>1
      <4>2. Stamps(images') /\ Within(images', images, clock')
        BY <3>2, <3>5, <4>1, KeepNewer
      <4>3. UpTo(images', clock')
        BY <3>2, <3>3, <4>2 DEF UpTo, Within
      <4>4. Older(targets', images') /\ Older(cache', images')
        <5>1. \A q : Stamps(q) /\ UpTo(q, clock) /\ Older(q, images) => Older(q, images')
          BY <4>1, <4>2 DEF Older, Within
        <5> QED BY <3>1, <5>1
      <4> QED BY <3>1, <3>2, <3>3, <4>2, <4>3, <4>4 DEF GoalIsFresh
    <3> QED BY <3>1, <3>4, <3>5
  <2>2. CASE ImageCb
    <3>1. /\ images # <<>> /\ images' = Tail(images)
          /\ UNCHANGED <<clock, cache, lastStamp, goal>>
          /\ \/ targets' = targets
             \/ targets' = Keep(Append(targets, Head(images)), QueueDepth)
      BY <2>2 DEF ImageCb, bridge
    <3>2. /\ Head(images) \in Nat /\ Stamps(images')
          /\ \A j \in 1 .. Len(images') : Head(images) < images'[j]
          /\ \A j \in 1 .. Len(images') : \E i \in 1 .. Len(images) : images'[j] = images[i]
          /\ \E i \in 1 .. Len(images) : Head(images) = images[i]
      BY <3>1, TakeFirst
    <3>3. UpTo(images', clock) /\ Older(targets, images') /\ Older(cache, images')
      BY <3>2 DEF UpTo, Older
    <3>4. CASE targets' = targets
      BY <3>1, <3>2, <3>3, <3>4 DEF GoalIsFresh
    <3>5. CASE targets' = Keep(Append(targets, Head(images)), QueueDepth)
      <4>1. \A j \in 1 .. Len(targets) : targets[j] < Head(images)
        BY <3>2 DEF Older
      <4>2. Stamps(targets') /\ Within(targets', targets, Head(images))
        BY <3>2, <3>5, <4>1, KeepNewer
      <4>3. Older(targets', images')
        BY <3>2, <3>3, <4>2 DEF Older, Within
      <4>4. UpTo(targets', clock) /\ Older(cache, targets')
        BY <3>2, <4>2 DEF UpTo, Older, Within
      <4> QED BY <3>1, <3>2, <3>3, <4>2, <4>3, <4>4 DEF GoalIsFresh
    <3> QED BY <3>1, <3>4, <3>5
  <2>3. CASE BridgeTargetCb
    <3>1. /\ targets # <<>> /\ targets' = Tail(targets) /\ lastStamp' = Head(targets)
          /\ cache' = Keep(Append(cache, Head(targets)), WindowSize)
          /\ UNCHANGED <<clock, images, goal>>
      BY <2>3 DEF BridgeTargetCb, detector
    <3>2. /\ Head(targets) \in Nat /\ Stamps(targets')
          /\ \A j \in 1 .. Len(targets') : Head(targets) < targets'[j]
          /\ \A j \in 1 .. Len(targets') : \E i \in 1 .. Len(targets) : targets'[j] = targets[i]
          /\ \E i \in 1 .. Len(targets) : Head(targets) = targets[i]
      BY <3>1, TakeFirst
    <3>3. UpTo(targets', clock) /\ Older(targets', images) /\ Older(cache, targets')
      BY <3>2 DEF UpTo, Older
    <3>4. \A j \in 1 .. Len(cache) : cache[j] < Head(targets)
      BY <3>2 DEF Older
    <3>5. Stamps(cache') /\ Last(cache') = lastStamp' /\ Within(cache', cache, Head(targets))
      BY <3>1, <3>2, <3>4, KeepNewer
    <3>6. Older(cache', targets')
      BY <3>2, <3>3, <3>5 DEF Older, Within
    <3>7. UpTo(cache', clock) /\ Older(cache', images)
      BY <3>2, <3>5 DEF UpTo, Older, Within
    <3> QED BY <3>1, <3>2, <3>3, <3>5, <3>6, <3>7 DEF GoalIsFresh
  <2>4. CASE BridgeOnTrigger
    <3>1. /\ cache # <<>> /\ clock - lastStamp <= StaleThreshold
          /\ goal'.at = clock /\ goal'.from = cache
          /\ UNCHANGED <<clock, images, targets, cache, lastStamp>>
      BY <2>4 DEF BridgeOnTrigger, FreshPose, detector
    <3>2. GoalIsFresh'
      BY <3>1 DEF GoalIsFresh, Stamps, Ascending
    <3> QED BY <3>1, <3>2
  <2>5. CASE InfoCb \/ BridgeTrajCb \/ BridgeOnCompletion \/ BridgeShoulderLookup \/ UNCHANGED bridgeVars
    <3>1. UNCHANGED <<clock, images, targets, cache, lastStamp, goal>>
      BY <2>5 DEF InfoCb, BridgeTrajCb, BridgeOnCompletion, BridgeShoulderLookup, bridgeVars,
         detector, bridge
    <3> QED BY <3>1 DEF GoalIsFresh
  <2> QED BY <2>1, <2>2, <2>3, <2>4, <2>5 DEF BridgeNext
<1>3. Next => BridgeNext \/ UNCHANGED bridgeVars
  BY DEF Next
<1>4. BridgeInv /\ [Next]_vars => BridgeInv'
  BY <1>2, <1>3 DEF vars
<1>5. BridgeInv => GoalIsFresh
  BY DEF BridgeInv
<1> QED BY <1>1, <1>4, <1>5, PTL DEF Spec
-----------------------------------------------------------------------------
(* Captures on a trigger.                                                  *)

JobFields == {"left", "samples", "apart", "attempt", "reads", "frames", "looked", "accepted",
              "targets", "goals"}
IsJob(j) == DOMAIN j = JobFields /\ j = [f \in JobFields |-> j[f]]

Frame == [seq : Nat, age : Nat]

\* What was taken so far is in order and not newer than the camera's last shot.
FramesInv ==
  /\ latest \in Frame
  /\ IsJob(job) /\ job.frames \in Seq(Frame) /\ job.reads \in Nat
  /\ ~busy => thr = "none"
  /\ ready => latest.seq >= WarmupFrames
  /\ cap \in {"off", "closed"} => ~ready
  /\ thr = "stream" => cfg.continuous
  /\ thr \in {"open", "demand"} => ~cfg.continuous
  /\ thr \in {"none", "guards", "stable", "open"} => job.frames = <<>>
  /\ cfg.continuous /\ job.frames # <<>> => cap \notin {"off", "closed"}
  /\ \A i \in 1 .. Len(job.frames) :
        job.frames[i].seq <= IF cfg.continuous THEN latest.seq ELSE job.reads
  /\ EachFrameOnce

\* Neither the frames of the job nor what they are compared with changed.
LEMMA SameFrames ==
  ASSUME FramesInv, IsJob(job'), UNCHANGED <<job.frames, job.reads, latest, ready, cap, cfg>>,
         ~busy' => thr' = "none",
         \/ thr' = thr
         \/ thr' \in {"guards", "stable"} /\ thr \in {"none", "guards"}
         \/ thr' \in {"stream", "open"} /\ job.frames = <<>> /\ (thr' = "stream" <=> cfg.continuous)
         \/ thr' = "demand" /\ ~cfg.continuous
         \/ thr' \notin {"none", "guards", "stable", "stream", "open", "demand"}
  PROVE  FramesInv'
BY DEF FramesInv, EachFrameOnce

\* A thread that ends leaves no frames.
LEMMA NoFrames ==
  ASSUME FramesInv, EndThread, UNCHANGED <<latest, ready, cap, cfg>>
  PROVE  FramesInv'
<1>1. /\ thr' = "none" /\ job'.frames = <<>> /\ job'.reads = 0 /\ IsJob(job')
  BY DEF EndThread, NoJob, IsJob, JobFields
<1>2. <<>> \in Seq(Frame) /\ Len(<<>>) = 0
  OBVIOUS
<1> QED BY <1>1, <1>2 DEF FramesInv, EachFrameOnce

\* One frame more, newer than those before.
LEMMA AnotherFrame ==
  ASSUME FramesInv, NEW shot \in Frame, IsJob(job'), job'.frames = Append(job.frames, shot),
         \A i \in 1 .. Len(job.frames) : job.frames[i].seq < shot.seq,
         cfg.continuous => shot.seq >= WarmupFrames /\ shot.age <= StaleAfter,
         shot.seq <= IF cfg.continuous THEN latest.seq ELSE job'.reads,
         job.reads <= job'.reads, job'.reads \in Nat,
         cfg.continuous => cap \notin {"off", "closed"}, thr \in {"stream", "demand"},
         UNCHANGED <<latest, ready, cap, cfg, thr, busy>>
  PROVE  FramesInv'
<1> DEFINE old == job.frames
           new == job'.frames
<1>1. /\ new \in Seq(Frame) /\ Len(new) = Len(old) + 1 /\ new[Len(old) + 1] = shot
      /\ \A i \in 1 .. Len(old) : new[i] = old[i] /\ old[i] \in Frame
      /\ Len(old) \in Nat
  BY AppendProperties DEF FramesInv
<1>2. \A i \in 1 .. Len(new) : i \in 1 .. Len(old) \/ new[i] = shot
  BY <1>1
<1>3. \A i \in 1 .. Len(new) :
        new[i].seq <= IF cfg.continuous THEN latest.seq ELSE job'.reads
  <2> TAKE i \in 1 .. Len(new)
  <2>1. CASE new[i] = shot
    BY <2>1
  <2>2. CASE i \in 1 .. Len(old)
    <3>1. new[i] = old[i] /\ old[i].seq \in Nat
      BY <1>1, <2>2 DEF Frame
    <3>2. old[i].seq <= IF cfg.continuous THEN latest.seq ELSE job.reads
      BY <2>2 DEF FramesInv
    <3>3. job.reads \in Nat
      BY DEF FramesInv
    <3> QED BY <3>1, <3>2, <3>3
  <2> QED BY <1>2, <2>1, <2>2
<1>4. EachFrameOnce'
  <2> SUFFICES ASSUME NEW i \in 1 .. Len(new), NEW j \in 1 .. Len(new)
               PROVE  /\ i < j => new[i].seq < new[j].seq
                      /\ cfg.continuous => new[i].seq >= WarmupFrames /\ new[i].age <= StaleAfter
    BY DEF EachFrameOnce
  <2>1. i < j => i \in 1 .. Len(old)
    BY <1>1
  <2>2. CASE j \in 1 .. Len(old)
    BY <1>1, <1>2, <2>1, <2>2 DEF FramesInv, EachFrameOnce
  <2>3. CASE new[j] = shot
    BY <1>1, <1>2, <2>1, <2>3 DEF FramesInv, EachFrameOnce
  <2> QED BY <1>2, <2>2, <2>3
<1> QED BY <1>1, <1>3, <1>4 DEF FramesInv

\* Frames of one capture are in order, each is used once, and none was taken while
\* the camera warmed up or is stale, whatever the capture thread does meanwhile
\* (v4l2_apriltag_trigger.py, _capture_frames).
THEOREM FramesUsedOnce == Spec => []EachFrameOnce
<1>1. Init => FramesInv
  <2> SUFFICES ASSUME TriggerInit PROVE FramesInv
    BY DEF Init
  <2>1. job.frames = <<>> /\ job.reads = 0 /\ IsJob(job) /\ thr = "none" /\ ~ready
    BY DEF TriggerInit, NoJob, IsJob, JobFields
  <2>2. latest \in Frame
    BY DEF TriggerInit, Frame
  <2>3. <<>> \in Seq(Frame) /\ Len(<<>>) = 0
    OBVIOUS
  <2> QED BY <2>1, <2>2, <2>3 DEF FramesInv, EachFrameOnce
<1>2. FramesInv /\ [TriggerNext]_triggerVars => FramesInv'
  <2> SUFFICES ASSUME FramesInv, [TriggerNext]_triggerVars PROVE FramesInv'
    OBVIOUS
  <2>0. /\ IsJob(job) /\ latest \in Frame /\ job.frames \in Seq(Frame) /\ job.reads \in Nat
        /\ \A v : /\ IsJob([job EXCEPT !.left = v]) /\ IsJob([job EXCEPT !.looked = v])
                 /\ IsJob([job EXCEPT !.reads = v]) /\ IsJob([job EXCEPT !.frames = v])
    BY DEF FramesInv, IsJob, JobFields
  <2>n. latest.seq \in Nat /\ \A i \in 1 .. Len(job.frames) : job.frames[i].seq \in Nat
    <3>1. \A i \in 1 .. Len(job.frames) : job.frames[i] \in Frame
      BY <2>0
    <3>2. \A f \in Frame : f.seq \in Nat
      BY DEF Frame
    <3> QED BY <2>0, <3>1, <3>2
  <2>1. CASE OnTrigger \/ OnCompletion \/ RetryShoulderLookup \/ DestroyNode \/ CaptureOpenFails
             \/ UNCHANGED triggerVars
    <3>1. /\ UNCHANGED <<job, latest, ready, cap, cfg>>
          /\ \/ thr' = thr /\ busy' = busy
             \/ thr' = "guards" /\ ~busy /\ busy'
      BY <2>1 DEF OnTrigger, OnCompletion, RetryShoulderLookup, DestroyNode, CaptureOpenFails,
         triggerVars, world, stream, node
    <3> QED BY <2>0, <3>1, SameFrames DEF FramesInv
  <2>2. CASE Replug \/ Tick \/ CaptureOpen \/ CaptureRead
    <3>1. UNCHANGED <<cfg, thr, busy>> /\ IsJob(job') /\ job'.frames = job.frames /\ job'.reads = job.reads
      <4>1. CASE Replug \/ CaptureOpen \/ CaptureRead
        BY <2>0, <4>1 DEF Replug, CaptureOpen, CaptureRead, world, node
      <4>2. CASE Tick
        BY <2>0, <4>2 DEF Tick, world, node, IsJob, JobFields
      <4> QED BY <2>2, <4>1, <4>2
    <3>2. /\ latest' \in Frame
          /\ ready' => latest'.seq >= WarmupFrames
          /\ cap' \in {"off", "closed"} => ~ready'
          /\ \/ latest'.seq >= latest.seq
             \/ cap = "closed"
          /\ cap' \in {"off", "closed"} => cap' = cap
      <4>1. CASE Replug
        BY <2>n, <4>1 DEF Replug, FramesInv
      <4>2. CASE Tick
        <5>1. UNCHANGED <<cap, ready>>
          BY <4>2 DEF Tick, world, node
        <5>2. latest' \in Frame /\ latest'.seq = latest.seq
          BY <2>0, <4>2 DEF Tick, Frame
        <5> QED BY <2>n, <5>1, <5>2 DEF FramesInv
      <4>3. CASE CaptureOpen
        BY <4>3 DEF CaptureOpen, Frame
      <4>4. CASE CaptureRead
        <5>1. /\ cap = "open" /\ cap' = cap /\ latest' = [seq |-> latest.seq + 1, age |-> 0]
              /\ ready' \in {ready, latest'.seq >= WarmupFrames}
          BY <4>4 DEF CaptureRead, world, node
        <5>2. latest' \in Frame /\ latest'.seq = latest.seq + 1
          BY <2>n, <5>1 DEF Frame
        <5>3. ready' => latest'.seq >= WarmupFrames
          <6>1. CASE ready' = ready
            BY <2>n, <5>2, <6>1, TriggerAssumption DEF FramesInv, TriggerAssumption
          <6>2. CASE ready' = (latest'.seq >= WarmupFrames)
            BY <6>2, Zenon
          <6> QED BY <5>1, <6>1, <6>2
        <5> QED BY <2>n, <5>1, <5>2, <5>3
      <4> QED BY <2>2, <4>1, <4>2, <4>3, <4>4
    <3>3. latest'.seq \in Nat
      BY <3>2 DEF Frame
    <3>4. \A i \in 1 .. Len(job.frames) :
            job.frames[i].seq <= IF cfg.continuous THEN latest'.seq ELSE job.reads
      <4>1. CASE ~cfg.continuous
        BY <4>1 DEF FramesInv
      <4>2. CASE cfg.continuous /\ cap = "closed"
        <5>1. job.frames = <<>>
          BY <4>2 DEF FramesInv
        <5> QED BY <5>1
      <4>3. CASE cfg.continuous /\ latest'.seq >= latest.seq
        BY <2>n, <3>3, <4>3 DEF FramesInv
      <4> QED BY <3>2, <4>1, <4>2, <4>3
    <3>5. cfg.continuous /\ job.frames # <<>> => cap' \notin {"off", "closed"}
      BY <3>2 DEF FramesInv
    <3> QED BY <2>0, <3>1, <3>2, <3>4, <3>5 DEF FramesInv, EachFrameOnce
  <2>3. CASE TfNotStable \/ StreamUnusable \/ Raise \/ NoTag \/ SetWaiting \/ Return
    <3>1. EndThread /\ UNCHANGED <<latest, ready, cap, cfg>>
      BY <2>3 DEF TfNotStable, StreamUnusable, Raise, NoTag, SetWaiting, Return, world, stream
    <3> QED BY <3>1, NoFrames
  <2>4. CASE Guards
    <3>1. UNCHANGED <<latest, ready, cap, cfg>> /\ thr = "guards"
      BY <2>4 DEF Guards, Thread, world, stream
    <3>2. CASE EndThread
      BY <3>1, <3>2, NoFrames
    <3>3. CASE job' = [job EXCEPT !.left = StableWait] /\ Continue("stable")
      BY <2>0, <3>1, <3>3, SameFrames DEF Continue, IsJob, JobFields, FramesInv
    <3> QED BY <2>4, <3>2, <3>3 DEF Guards
  <2>5. CASE SampleTf
    <3>1. UNCHANGED <<latest, ready, cap, cfg>> /\ thr = "stable" /\ job.frames = <<>>
      BY <2>5 DEF SampleTf, Thread, world, stream, FramesInv
    <3>2. busy
      BY <3>1 DEF FramesInv
    <3>3. ASSUME NEW s, NEW d, StartCapture([job EXCEPT !.samples = s, !.apart = d])
          PROVE  FramesInv'
      <4>1. /\ IsJob(job') /\ job'.frames = job.frames /\ job'.reads = job.reads
        BY <2>0, <3>3 DEF StartCapture, IsJob, JobFields
      <4>2. thr' = (IF cfg.continuous THEN "stream" ELSE "open") /\ busy' = busy
        BY <3>3 DEF StartCapture, Continue
      <4> QED BY <3>1, <3>2, <4>1, <4>2, SameFrames
    <3>4. ASSUME NEW s, NEW d, UNCHANGED <<thr, busy>>,
                 job' \in {[job EXCEPT !.samples = s, !.left = d], [job EXCEPT !.left = d]}
          PROVE  FramesInv'
      <4>1. /\ IsJob(job') /\ job'.frames = job.frames /\ job'.reads = job.reads
        BY <2>0, <3>4 DEF IsJob, JobFields
      <4> QED BY <3>1, <3>2, <3>4, <4>1, SameFrames
    <3>5. PICK place \in Places :
            LET s == Window(Append(job.samples, place))
            IN  \/ StartCapture([job EXCEPT !.samples = <<>>, !.apart = Distances(s)])
                \/ /\ job' \in {[job EXCEPT !.samples = s, !.left = job.left - 1],
                                [job EXCEPT !.left = job.left - 1]}
                   /\ UNCHANGED <<thr, busy>>
      BY <2>0, <2>5 DEF SampleTf, IsJob, JobFields
    <3> QED BY <3>3, <3>4, <3>5
  <2>6. CASE TakeFrame
    <3>1. /\ thr = "stream" /\ ready /\ latest.age <= StaleAfter /\ NewFrame
          /\ job' = [job EXCEPT !.frames = Append(job.frames, latest)]
          /\ UNCHANGED <<latest, ready, cap, cfg, thr, busy>>
      BY <2>6 DEF TakeFrame, Thread, world, stream, node
    <3>2. IsJob(job') /\ job'.frames = Append(job.frames, latest) /\ job'.reads = job.reads
      BY <2>0, <3>1 DEF IsJob, JobFields
    <3>3. cfg.continuous /\ cap \notin {"off", "closed"} /\ latest.seq >= WarmupFrames
      BY <3>1 DEF FramesInv
    <3>4. \A i \in 1 .. Len(job.frames) : job.frames[i].seq < latest.seq
      <4> DEFINE n == Len(job.frames)
      <4> SUFFICES ASSUME NEW i \in 1 .. n PROVE job.frames[i].seq < latest.seq
        OBVIOUS
      <4>1. n \in Nat /\ n \in 1 .. n /\ job.frames # <<>>
        BY <2>0
      <4>2. job.frames[n].seq # latest.seq
        BY <3>1, <4>1 DEF NewFrame
      <4>3. job.frames[n].seq <= latest.seq /\ job.frames[i].seq <= latest.seq
        BY <3>3, <4>1 DEF FramesInv
      <4>4. i # n => job.frames[i].seq < job.frames[n].seq
        BY <4>1 DEF FramesInv, EachFrameOnce
      <4>5. job.frames[i].seq \in Nat /\ job.frames[n].seq \in Nat /\ latest.seq \in Nat
        BY <2>n, <4>1
      <4> HIDE DEF n
      <4> QED BY <4>2, <4>3, <4>4, <4>5
    <3>5. job'.reads \in Nat /\ job.reads <= job'.reads
      BY <2>0, <3>2
    <3>6. latest.seq <= IF cfg.continuous THEN latest.seq ELSE job'.reads
      BY <2>n, <3>3
    <3> QED BY <2>0, <3>1, <3>2, <3>3, <3>4, <3>5, <3>6, AnotherFrame
  <2>7. CASE StreamTaken
    <3>1. UNCHANGED <<latest, ready, cap, cfg>> /\ thr = "stream"
      BY <2>7 DEF StreamTaken, Thread, world, stream
    <3>2. CASE EndThread
      BY <3>1, <3>2, NoFrames
    <3>3. CASE Continue("look") /\ UNCHANGED job
      BY <2>0, <3>1, <3>3, SameFrames DEF Continue, FramesInv
    <3> QED BY <2>7, <3>2, <3>3 DEF StreamTaken
  <2>8. CASE OpenOnDemand
    <3>1. UNCHANGED <<latest, ready, cap, cfg>> /\ thr = "open"
      BY <2>8 DEF OpenOnDemand, Thread, world, stream
    <3>2. CASE EndThread
      BY <3>1, <3>2, NoFrames
    <3>3. CASE Continue("demand") /\ job' = [job EXCEPT !.reads = 0]
      <4>1. job.frames = <<>> /\ busy /\ ~cfg.continuous
        BY <3>1 DEF FramesInv
      <4>2. IsJob(job') /\ job'.frames = <<>> /\ job'.reads = 0
        BY <2>0, <3>3, <4>1 DEF IsJob, JobFields
      <4>3. thr' = "demand" /\ busy'
        BY <3>3, <4>1 DEF Continue
      <4> QED BY <2>0, <3>1, <4>1, <4>2, <4>3 DEF FramesInv, EachFrameOnce
    <3> QED BY <2>8, <3>2, <3>3 DEF OpenOnDemand
  <2>9. CASE ReadOnDemand
    <3> DEFINE shot == [seq |-> job.reads + 1, age |-> 0]
    <3>1. /\ UNCHANGED <<latest, ready, cap, cfg, thr, busy>> /\ thr = "demand"
          /\ \/ job' = [job EXCEPT !.reads = job.reads + 1]
             \/ job' = [[job EXCEPT !.reads = job.reads + 1] EXCEPT !.frames = Append(job.frames, shot)]
      BY <2>0, <2>9 DEF ReadOnDemand, Thread, world, stream, node, IsJob, JobFields
    <3>2. ~cfg.continuous /\ busy
      BY <3>1 DEF FramesInv
    <3>3. \A i \in 1 .. Len(job.frames) : job.frames[i].seq <= job.reads
      BY <3>2 DEF FramesInv
    <3>4. shot \in Frame /\ job.reads <= job.reads + 1 /\ job.reads + 1 \in Nat /\ shot.seq = job.reads + 1
      BY <2>0 DEF Frame
    <3>5. \A i \in 1 .. Len(job.frames) : job.frames[i].seq < shot.seq /\ job.frames[i].seq <= job.reads + 1
      BY <2>n, <2>0, <3>3, <3>4
    <3>6. CASE job' = [job EXCEPT !.reads = job.reads + 1]
      <4>1. IsJob(job') /\ job'.frames = job.frames /\ job'.reads = job.reads + 1
        BY <2>0, <3>6 DEF IsJob, JobFields
      <4> HIDE DEF shot
      <4> QED BY <3>1, <3>2, <3>4, <3>5, <4>1 DEF FramesInv, EachFrameOnce
    <3>7. CASE job' = [[job EXCEPT !.reads = job.reads + 1] EXCEPT !.frames = Append(job.frames, shot)]
      <4>1. IsJob(job') /\ job'.frames = Append(job.frames, shot) /\ job'.reads = job.reads + 1
        <5> HIDE DEF shot
        <5> QED BY <2>0, <3>7 DEF IsJob, JobFields
      <4>2. shot.seq <= IF cfg.continuous THEN latest.seq ELSE job'.reads
        BY <2>0, <3>2, <3>4, <4>1
      <4> HIDE DEF shot
      <4> QED BY <3>1, <3>2, <3>4, <3>5, <4>1, <4>2, AnotherFrame
    <3> QED BY <3>1, <3>6, <3>7
  <2>10. CASE DemandTaken
    <3>1. UNCHANGED <<latest, ready, cap, cfg>> /\ thr = "demand"
      BY <2>10 DEF DemandTaken, Thread, world, stream
    <3>2. CASE EndThread
      BY <3>1, <3>2, NoFrames
    <3>3. CASE Continue("look") /\ UNCHANGED job
      BY <2>0, <3>1, <3>3, SameFrames DEF Continue, FramesInv
    <3>4. CASE job.frames = <<>> /\ job' = [job EXCEPT !.attempt = 1] /\ Continue("open")
      <4>1. IsJob(job') /\ job'.frames = job.frames /\ job'.reads = job.reads
        BY <2>0, <3>4 DEF IsJob, JobFields
      <4>2. busy /\ ~cfg.continuous
        BY <3>1 DEF FramesInv
      <4> QED BY <3>1, <3>4, <4>1, <4>2, SameFrames DEF Continue
    <3> QED BY <2>10, <3>2, <3>3, <3>4 DEF DemandTaken
  <2>11. CASE ProcessFrame
    <3>1. /\ UNCHANGED <<latest, ready, cap, cfg, thr, busy>>
          /\ IsJob(job') /\ job'.frames = job.frames /\ job'.reads = job.reads
      BY <2>0, <2>11 DEF ProcessFrame, world, stream, node, IsJob, JobFields
    <3> QED BY <3>1, SameFrames DEF FramesInv
  <2>12. CASE Conclude
    <3>1. /\ UNCHANGED <<latest, ready, cap, cfg, busy>> /\ thr = "look" /\ thr' \in {"return", "sent"}
          /\ IsJob(job') /\ job'.frames = job.frames /\ job'.reads = job.reads
      BY <2>0, <2>12 DEF Conclude, Continue, Thread, world, stream, node, IsJob, JobFields
    <3> QED BY <3>1, SameFrames DEF FramesInv
  <2> QED BY <2>1, <2>2, <2>3, <2>4, <2>5, <2>6, <2>7, <2>8, <2>9, <2>10, <2>11, <2>12
      DEF TriggerNext, RunTrigger
<1>3. Next => TriggerNext \/ UNCHANGED triggerVars
  BY DEF Next
<1>4. FramesInv /\ [Next]_vars => FramesInv'
  BY <1>2, <1>3 DEF vars
<1>5. FramesInv => EachFrameOnce
  BY DEF FramesInv
<1> QED BY <1>1, <1>4, <1>5, PTL DEF Spec
-----------------------------------------------------------------------------
(* The wait for a camera that stands still.                                *)

StillInv == /\ job.samples \in Seq(Int)
            /\ IsJob(job)
            /\ StoodStill

\* A window stays a sequence of places.
LEMMA WindowTyped ==
  ASSUME NEW q \in Seq(Int), NEW place \in Int
  PROVE  Window(Append(q, place)) \in Seq(Int)
<1> DEFINE a == Append(q, place)
<1>1. a \in Seq(Int) /\ a # <<>>
  BY AppendProperties, EmptySeq
<1>2. Tail(a) \in Seq(Int)
  <2> HIDE DEF a
  <2> QED BY <1>1, HeadTailProperties
<1> HIDE DEF a
<1> QED BY <1>1, <1>2 DEF Window, a

\* Two places near a third are near each other.
LEMMA NearTheFirst ==
  ASSUME NEW q \in Seq(Int), q # <<>>, SamplesAreStable(q), NEW d \in Distances(q)
  PROVE  d <= 2 * Tolerance
<1>1. PICK i \in 1 .. Len(q), j \in 1 .. Len(q) : d = Apart(q[i], q[j])
  BY DEF Distances
<1>2. q[1] \in Int /\ q[i] \in Int /\ q[j] \in Int /\ Tolerance \in Nat
  BY TriggerAssumption, EmptySeq DEF TriggerAssumption
<1>3. Apart(q[1], q[i]) <= Tolerance /\ Apart(q[1], q[j]) <= Tolerance
  BY DEF SamplesAreStable
<1> QED BY <1>1, <1>2, <1>3 DEF Apart

\* When frames are taken, the last transforms of the camera, which the code only
\* compares with the first of them, were within twice the tolerance of each other
\* (v4l2_apriltag_trigger.py, _wait_for_stable_tf and _samples_are_stable).
THEOREM CameraStoodStill == Spec => []StoodStill
<1>0. IsJob(NoJob) /\ NoJob.samples = <<>> /\ NoJob.apart = {} /\ <<>> \in Seq(Int)
  BY DEF NoJob, IsJob, JobFields
<1>1. Init => StillInv
  BY <1>0 DEF Init, TriggerInit, StillInv, StoodStill
<1>2. StillInv /\ [TriggerNext]_triggerVars => StillInv'
  <2> SUFFICES ASSUME StillInv, [TriggerNext]_triggerVars PROVE StillInv'
    OBVIOUS
  <2>0. IsJob(job) /\ job.samples \in Seq(Int) /\ StoodStill
    BY DEF StillInv
  <2>1. ASSUME job' = NoJob \/ UNCHANGED job
        PROVE  StillInv'
    BY <1>0, <2>0, <2>1 DEF StillInv, StoodStill
  <2>2. ASSUME IsJob(job'), UNCHANGED <<job.samples, job.apart>>
        PROVE  StillInv'
    BY <2>0, <2>2 DEF StillInv, StoodStill
  <2>3. CASE Guards
    BY <2>0, <2>1, <2>2, <2>3 DEF Guards, EndThread, IsJob, JobFields
  <2>4. CASE SampleTf
    <3>1. PICK place \in Places :
            LET s == Window(Append(job.samples, place))
            IN  IF Len(s) >= StableCount /\ SamplesAreStable(s)
                THEN StartCapture([job EXCEPT !.samples = <<>>, !.apart = Distances(s)])
                ELSE job' \in {[job EXCEPT !.samples = s, !.left = job.left - 1],
                               [job EXCEPT !.left = job.left - 1]}
      BY <2>0, <2>4 DEF SampleTf, IsJob, JobFields
    <3> DEFINE s == Window(Append(job.samples, place))
    <3>2. s \in Seq(Int)
      BY <2>0, WindowTyped, TriggerAssumption DEF TriggerAssumption
    <3>3. CASE Len(s) >= StableCount /\ SamplesAreStable(s)
      <4>1. s # <<>>
        BY <3>2, <3>3, TriggerAssumption DEF TriggerAssumption
      <4>2. \A d \in Distances(s) : d <= 2 * Tolerance
        <5> HIDE DEF s
        <5> QED BY <3>2, <3>3, <4>1, NearTheFirst
      <4>3. StartCapture([job EXCEPT !.samples = <<>>, !.apart = Distances(s)])
        BY <3>1, <3>3
      <4>4. IsJob(job') /\ job'.samples = <<>> /\ job'.apart = Distances(s)
        <5> HIDE DEF s
        <5> QED BY <2>0, <4>3 DEF StartCapture, IsJob, JobFields
      <4> HIDE DEF s
      <4> QED BY <1>0, <4>2, <4>4 DEF StillInv, StoodStill
    <3>4. CASE ~(Len(s) >= StableCount /\ SamplesAreStable(s))
      <4>1. job' \in {[job EXCEPT !.samples = s, !.left = job.left - 1],
                      [job EXCEPT !.left = job.left - 1]}
        BY <3>1, <3>4
      <4> HIDE DEF s
      <4>2. IsJob(job') /\ job'.apart = job.apart /\ job'.samples \in {s, job.samples}
        BY <2>0, <4>1 DEF IsJob, JobFields
      <4> QED BY <2>0, <3>2, <4>2 DEF StillInv, StoodStill
    <3> QED BY <3>3, <3>4
  <2>5. CASE TfNotStable \/ StreamUnusable \/ Raise \/ NoTag \/ SetWaiting \/ Return
    BY <2>1, <2>5 DEF TfNotStable, StreamUnusable, Raise, NoTag, SetWaiting, Return, EndThread
  <2>6. CASE StreamTaken \/ OnTrigger \/ OnCompletion \/ RetryShoulderLookup \/ DestroyNode
             \/ CaptureOpen \/ CaptureOpenFails \/ CaptureRead \/ Replug \/ UNCHANGED triggerVars
    BY <2>1, <2>6 DEF StreamTaken, OnTrigger, OnCompletion, RetryShoulderLookup, DestroyNode,
       CaptureOpen, CaptureOpenFails, CaptureRead, Replug, EndThread, triggerVars
  <2>7. CASE OpenOnDemand \/ DemandTaken
    BY <2>0, <2>1, <2>2, <2>7 DEF OpenOnDemand, DemandTaken, EndThread, IsJob, JobFields
  <2>8. CASE TakeFrame \/ ReadOnDemand \/ ProcessFrame \/ Conclude \/ Tick
    BY <2>0, <2>2, <2>8 DEF TakeFrame, ReadOnDemand, ProcessFrame, Conclude, Tick, IsJob, JobFields
  <2> QED BY <2>3, <2>4, <2>5, <2>6, <2>7, <2>8 DEF TriggerNext, RunTrigger
<1>3. Next => TriggerNext \/ UNCHANGED triggerVars
  BY DEF Next
<1>4. StillInv /\ [Next]_vars => StillInv'
  BY <1>2, <1>3 DEF vars
<1>5. StillInv => StoodStill
  BY DEF StillInv
<1> QED BY <1>1, <1>4, <1>5, PTL DEF Spec
=============================================================================
