---------------------------- MODULE TeleopProofs ----------------------------
(***************************************************************************)
(* Proofs about parts of the teleoperation, for any number of images,      *)
(* samples, cycles and requests and any queue.  A step of Teleop is a step *)
(* or a stutter of each part, so that each has an invariant of its own.    *)
(***************************************************************************)
EXTENDS Teleop, SequenceTheorems, TLAPS

\* A step of the whole is a step of one part.
LEMMA StepOfPart ==
  [Next]_vars => /\ [LoopNext]_loopVars /\ [IpcNext]_ipcVars /\ [StreamNext]_streamVars
                 /\ [ServerNext]_serverVars /\ [HandsNext]_handsVars
BY DEF Next, vars, otherThanLoop, otherThanServer
-----------------------------------------------------------------------------
(* The triple ring buffers.                                                *)

\* The slot to be written is neither the newest nor the one being read.
RingInv(ring) ==
  /\ ring \in [buffer : [Slots -> Nat], write : Slots, latest : Slots \cup {-1},
               read : Slots \cup {-1}]
  /\ ring.write # ring.read /\ ring.write # ring.latest

\* What reading the chosen slot gives.
Reading(ring) == IF ring.read = -1 THEN 0 ELSE ring.buffer[ring.read]

StreamInv ==
  /\ wire \in Seq(Nat) /\ queue \in Seq(Nat) /\ decodeQ \in Seq(Nat)
  /\ published \in Nat /\ pending \in Nat /\ decoder \in Nat \cup {-1}
  /\ reader \in [at : {"idle", "jpg", "got_jpg", "bgr", "got_bgr"}, want : Nat, got : Nat]
  /\ RingInv(jpg) /\ RingInv(bgr)
  /\ reader.at = "jpg" => reader.want = Reading(jpg)
  /\ reader.at = "bgr" => reader.want = Reading(bgr)
  /\ ReadIsStable

\* Writing keeps the ring in order and what is being read as it is.
LEMMA WriteRing ==
  ASSUME NEW ring, RingInv(ring), NEW x \in Nat
  PROVE  RingInv(Write(ring, x)) /\ Reading(Write(ring, x)) = Reading(ring)
<1> DEFINE next == IF NextSlot(ring.write) = ring.read THEN NextSlot(NextSlot(ring.write))
                   ELSE NextSlot(ring.write)
<1>1. ring.write \in {0, 1, 2}
  BY DEF RingInv, Slots
<1>2. next \in Slots /\ next # ring.write /\ next # ring.read
  BY <1>1 DEF NextSlot, Slots, RingInv
<1>3. Write(ring, x) = [ring EXCEPT !.buffer = [ring.buffer EXCEPT ![ring.write] = x],
                                    !.latest = ring.write, !.write = next]
  BY DEF Write, RingInv
<1> HIDE DEF next
<1>4. [ring.buffer EXCEPT ![ring.write] = x] \in [Slots -> Nat]
  BY DEF RingInv
<1>5. RingInv(Write(ring, x))
  BY <1>2, <1>3, <1>4 DEF RingInv
<1>6. Reading(Write(ring, x)) = Reading(ring)
  BY <1>3 DEF RingInv, Reading
<1> QED BY <1>5, <1>6

\* The slot chosen is the newest one.
LEMMA ChooseRing ==
  ASSUME NEW ring, RingInv(ring)
  PROVE  RingInv(Choose(ring)) /\ Reading(Choose(ring)) = Newest(ring) /\ Newest(ring) \in Nat
BY DEF RingInv, Choose, Reading, Newest

LEMMA ShortQueues ==
  ASSUME NEW x \in Nat
  PROVE  <<x>> \in Seq(Nat) /\ <<>> \in Seq(Nat)
OBVIOUS

\* An image read from a ring is the newest of when its slot was chosen.
THEOREM ReadStable == Spec => []ReadIsStable
<1>1. Init => StreamInv
  <2>1. RingInv(NewRing)
    BY DEF RingInv, NewRing, Slots
  <2> QED BY <2>1 DEF Init, StreamInit, StreamInv, ReadIsStable
<1>2. StreamInv /\ [StreamNext]_streamVars => StreamInv'
  <2> SUFFICES ASSUME StreamInv, [StreamNext]_streamVars PROVE StreamInv'
    OBVIOUS
  <2> USE DEF StreamInv, ReadIsStable
  <2>1. CASE Publish
    <3>1. queue' \in Seq(Nat) /\ published' \in Nat
      BY <2>1, AppendProperties DEF Publish
    <3> QED BY <2>1, <3>1 DEF Publish
  <2>2. CASE PublisherSend \/ PublisherFails
    <3>1. queue # <<>> /\ queue' = Tail(queue)
          /\ (wire' = <<Head(queue)>> \/ wire' = wire)
      BY <2>2 DEF PublisherSend, PublisherFails
    <3>2. queue' \in Seq(Nat) /\ Head(queue) \in Nat
      BY <3>1, HeadTailProperties
    <3>3. wire' \in Seq(Nat)
      BY <3>1, <3>2, ShortQueues
    <3> QED BY <2>2, <3>2, <3>3 DEF PublisherSend, PublisherFails
  <2>3. CASE SubscriberPoll
    <3> DEFINE x == IF wire # <<>> THEN Head(wire) ELSE 0
    <3>1. x \in Nat
      BY HeadTailProperties
    <3>2. /\ jpg' = Write(jpg, x) /\ wire' = <<>>
          /\ decodeQ' = <<x>> \/ decodeQ' = <<>> \/ decodeQ' = decodeQ
          /\ pending' = x \/ pending' = pending
      BY <2>3 DEF SubscriberPoll
    <3> HIDE DEF x
    <3>3. RingInv(jpg') /\ Reading(jpg') = Reading(jpg)
      BY <3>1, <3>2, WriteRing
    <3>4. decodeQ' \in Seq(Nat) /\ pending' \in Nat /\ wire' \in Seq(Nat)
      BY <3>1, <3>2, ShortQueues
    <3> QED BY <2>3, <3>3, <3>4 DEF SubscriberPoll
  <2>4. CASE SubscriberReplace
    <3>1. pending' = 0 /\ (decodeQ' = <<pending>> \/ decodeQ' = decodeQ)
      BY <2>4 DEF SubscriberReplace
    <3>2. decodeQ' \in Seq(Nat) /\ pending' \in Nat
      BY <3>1, ShortQueues
    <3> QED BY <2>4, <3>2 DEF SubscriberReplace
  <2>5. CASE DecoderGet
    <3>1. Head(decodeQ) \in Nat
      BY <2>5, HeadTailProperties DEF DecoderGet
    <3>2. decodeQ' \in Seq(Nat) /\ decoder' \in Nat \cup {-1}
      BY <2>5, <3>1 DEF DecoderGet
    <3> QED BY <2>5, <3>2 DEF DecoderGet
  <2>6. CASE DecoderWrite
    <3>1. PICK x \in Nat : bgr' = Write(bgr, x)
      BY <2>6 DEF DecoderWrite
    <3>2. RingInv(bgr') /\ Reading(bgr') = Reading(bgr)
      BY <3>1, WriteRing
    <3> QED BY <2>6, <3>2 DEF DecoderWrite
  <2>7. CASE ChooseJpg
    <3>1. RingInv(jpg') /\ Reading(jpg') = Newest(jpg) /\ Newest(jpg) \in Nat
      BY <2>7, ChooseRing DEF ChooseJpg
    <3> QED BY <2>7, <3>1 DEF ChooseJpg, Chosen
  <2>8. CASE ReadJpg
    <3>1. reader' = [reader EXCEPT !.at = "got_jpg", !.got = Reading(jpg)]
      BY <2>8 DEF ReadJpg, Got, Reading
    <3>2. Reading(jpg) = reader.want
      BY <2>8 DEF ReadJpg
    <3> QED BY <2>8, <3>1, <3>2 DEF ReadJpg
  <2>9. CASE ChooseBgr
    <3>1. RingInv(bgr') /\ Reading(bgr') = Newest(bgr) /\ Newest(bgr) \in Nat
      BY <2>9, ChooseRing DEF ChooseBgr
    <3> QED BY <2>9, <3>1 DEF ChooseBgr, Chosen
  <2>10. CASE ReadBgr
    <3>1. reader' = [reader EXCEPT !.at = "got_bgr", !.got = Reading(bgr)]
      BY <2>10 DEF ReadBgr, Got, Reading
    <3>2. Reading(bgr) = reader.want
      BY <2>10 DEF ReadBgr
    <3> QED BY <2>10, <3>1, <3>2 DEF ReadBgr
  <2>11. CASE Recv
    BY <2>11 DEF Recv
  <2>12. CASE StartPublisher \/ RequestConfig \/ StartClient
    BY <2>12 DEF StartPublisher, RequestConfig, StartClient, rings
  <2>13. CASE ClosePublishers
    <3>1. queue' = <<>> /\ (wire' = wire \/ (queue # <<>> /\ wire' = <<Head(queue)>>))
      BY <2>13 DEF ClosePublishers
    <3>2. queue # <<>> => Head(queue) \in Nat
      BY HeadTailProperties
    <3>3. queue' \in Seq(Nat) /\ wire' \in Seq(Nat)
      BY <3>1, <3>2, ShortQueues
    <3> QED BY <2>13, <3>3 DEF ClosePublishers, rings
  <2>14. CASE CloseClient
    <3>1. RingInv(NewRing)
      BY DEF RingInv, NewRing, Slots
    <3>2. decodeQ' \in Seq(Nat)
      BY <2>14, ShortQueues DEF CloseClient
    <3> QED BY <2>14, <3>1, <3>2 DEF CloseClient
  <2>15. CASE UNCHANGED streamVars
    BY <2>15 DEF streamVars
  <2> QED BY <2>1, <2>2, <2>3, <2>4, <2>5, <2>6, <2>7, <2>8, <2>9, <2>10, <2>11, <2>12,
             <2>13, <2>14, <2>15
      DEF StreamNext
<1>3. StreamInv => ReadIsStable
  BY DEF StreamInv
<1> QED BY <1>1, <1>2, <1>3, StepOfPart, PTL DEF Spec
-----------------------------------------------------------------------------
(* The hands.                                                              *)

\* The lock is held between the two writes and between the two reads; outside the
\* writes the shared pair is of one cycle.
PairInv ==
  /\ lock = "main" <=> teleop.at = "action"
  /\ lock = "control" <=> control.at = "action"
  /\ control.at # "action" => out.state = out.action
  /\ control.at = "action" => out.state = control.cycle
  /\ teleop.at = "action" => recorded.state = out.state
  /\ SameCycle

\* The left hand's data are there when the right hand's are; once a cycle has taken
\* zeros for the left hand, no later one does.
BlindInv ==
  /\ teleop.sample \in Nat /\ control.blind \in Nat /\ input \in [Hands -> Nat]
  /\ teleop.at = "right" => input["left"] # 0
  /\ input["right"] # 0 => input["left"] # 0
  /\ teleop.at # "left" => teleop.sample > 0
  /\ kind # "dex1" =>
       /\ control.blind <= 1
       /\ control.blind = 1 => input["left"] # 0 /\ (control.at = "right" => control.left # 0)

Controls == [at : {"wait", "left", "right", "report", "action", "command", "ended"},
             cycle : Nat, left : Nat, right : Nat, blind : Nat]

HandsType ==
  /\ control \in Controls
  /\ teleop \in [at : {"left", "right", "record", "action"}, sample : Nat]
  /\ input \in [Hands -> Nat]
  /\ out \in [state : Nat, action : Nat] /\ recorded \in [state : Nat, action : Nat]
  /\ lock \in {"none", "control", "main"}

\* Changes of a cycle's record keep its type.
LEMMA ControlUpdate ==
  ASSUME NEW c \in Controls, NEW n \in Nat,
         NEW p \in {"wait", "left", "right", "report", "action", "command", "ended"}
  PROVE  /\ [c EXCEPT !.at = p, !.left = n, !.cycle = c.cycle + 1] \in Controls
         /\ [c EXCEPT !.at = p, !.left = 0, !.right = 0] \in Controls
<1>1. c.cycle + 1 \in Nat
  BY DEF Controls
<1>2. [c EXCEPT !.at = p, !.left = n, !.cycle = c.cycle + 1] \in Controls
  BY <1>1 DEF Controls
<1>3. [c EXCEPT !.at = p, !.left = 0, !.right = 0] \in Controls
  BY DEF Controls
<1> QED BY <1>2, <1>3

\* Reporting updates the control record within its type.
LEMMA TargetsUpdate ==
  ASSUME NEW c \in Controls, NEW n \in Nat, NEW b \in Nat
  PROVE  [c EXCEPT !.at = "report", !.right = n, !.blind = b] \in Controls
BY DEF Controls

\* What a cycle does with the data it has read.
LEMMA TargetsEffect ==
  ASSUME HandsType, NEW initialized \in BOOLEAN, Targets(initialized)
  PROVE  \E b \in Nat :
           /\ b = control.blind \/ (b = control.blind + 1 /\ initialized /\ control.left = 0)
           /\ control' = [control EXCEPT !.at = "report", !.right = input["right"], !.blind = b]
<1> DEFINE b == IF initialized /\ control.left = 0 /\ control.blind < 2
                THEN control.blind + 1 ELSE control.blind
<1>1. control' = [control EXCEPT !.at = "report", !.right = input["right"], !.blind = b]
  BY DEF Targets
<1>2. /\ b \in Nat
      /\ b = control.blind \/ (b = control.blind + 1 /\ initialized /\ control.left = 0)
  BY DEF HandsType, Controls
<1> HIDE DEF b
<1> QED BY <1>1, <1>2

\* The shared data of the hands keep their types.
LEMMA HandsTyped == Spec => []HandsType
<1>1. Init => HandsType
  BY DEF Init, HandsInit, HandsType, Hands, Controls
<1>2. HandsType /\ [HandsNext]_handsVars => HandsType'
  <2> SUFFICES ASSUME HandsType, [HandsNext]_handsVars PROVE HandsType'
    OBVIOUS
  <2> USE DEF HandsType
  <2>1. CASE SubscribeState \/ StartControl
    BY <2>1 DEF SubscribeState, StartControl, Controls
  <2>2. CASE WriteInput
    <3>1. PICK h \in Hands, n \in Nat : input' = [input EXCEPT ![h] = n]
      <4>1. teleop.sample + 1 \in Nat /\ teleop.sample \in Nat
        OBVIOUS
      <4> QED BY <2>2, <4>1 DEF WriteInput, Hands
    <3>2. input' \in [Hands -> Nat]
      BY <3>1
    <3>3. teleop' \in [at : {"left", "right", "record", "action"}, sample : Nat]
      BY <2>2 DEF WriteInput
    <3>4. UNCHANGED <<control, out, lock, recorded>>
      BY <2>2 DEF WriteInput
    <3> HIDE DEF HandsType
    <3> QED BY <3>2, <3>3, <3>4 DEF HandsType
  <2>3. CASE RecordState \/ RecordAction
    BY <2>3 DEF RecordState, RecordAction
  <2>4. CASE ReadLeft
    <3>1. input["left"] \in Nat
      BY DEF Hands
    <3>2. control' \in Controls
      <4>1. control' = [control EXCEPT !.at = "right", !.left = input["left"],
                                       !.cycle = control.cycle + 1]
        BY <2>4 DEF ReadLeft
      <4> QED BY <3>1, <4>1, ControlUpdate
    <3>3. UNCHANGED <<input, out, lock, teleop, recorded>>
      BY <2>4 DEF ReadLeft
    <3> QED BY <3>2, <3>3
  <2>5. CASE ReadRight
    <3>1. \E initialized \in BOOLEAN : Targets(initialized)
      BY <2>5 DEF ReadRight, Dex3Targets, DfxTargets, FtpTargets, BraincoTargets,
         GripperTargets, HandData
    <3>2. input["right"] \in Nat
      BY DEF Hands
    <3>3. control' \in Controls
      <4>1. PICK initialized \in BOOLEAN : Targets(initialized)
        BY <3>1
      <4>2. PICK b \in Nat :
              control' = [control EXCEPT !.at = "report", !.right = input["right"], !.blind = b]
        BY <4>1, TargetsEffect
      <4> QED BY <3>2, <4>2, TargetsUpdate
    <3>4. UNCHANGED <<input, out, lock, teleop, recorded>>
      BY <2>5 DEF ReadRight
    <3> QED BY <3>3, <3>4
  <2>6. CASE ReportState \/ ReportAction
    <3>1. control' \in Controls /\ out' \in [state : Nat, action : Nat]
      BY <2>6 DEF ReportState, ReportAction, Controls
    <3>2. lock' \in {"none", "control", "main"} /\ UNCHANGED <<input, teleop, recorded>>
      BY <2>6 DEF ReportState, ReportAction, TakeLock
    <3> QED BY <3>1, <3>2
  <2>7. CASE SendCommand
    <3>1. \E next \in {"left", "ended"} : Sent(next)
      BY <2>7 DEF SendCommand, Dex3Sends, DfxSends, BraincoSends, GripperSends, FtpSends
    <3>2. control' \in Controls
      BY <3>1, ControlUpdate DEF Sent
    <3>3. UNCHANGED <<input, out, lock, teleop, recorded>>
      BY <2>7 DEF SendCommand
    <3> QED BY <3>2, <3>3
  <2>8. CASE UNCHANGED handsVars
    BY <2>8 DEF handsVars
  <2> QED BY <2>1, <2>2, <2>3, <2>4, <2>5, <2>6, <2>7, <2>8 DEF HandsNext
<1> QED BY <1>1, <1>2, StepOfPart, PTL DEF Spec

\* A recorded state and action are of the same control cycle.
THEOREM PairsOfOneCycle == Spec => []SameCycle
<1>1. Init => PairInv
  BY DEF Init, HandsInit, PairInv, SameCycle
<1>2. HandsType /\ PairInv /\ [HandsNext]_handsVars => PairInv'
  <2> SUFFICES ASSUME HandsType, PairInv, [HandsNext]_handsVars PROVE PairInv'
    OBVIOUS
  <2> USE DEF PairInv, SameCycle, HandsType, Controls
  <2>1. CASE SubscribeState \/ StartControl
    BY <2>1 DEF SubscribeState, StartControl
  <2>2. CASE WriteInput
    BY <2>2 DEF WriteInput
  <2>3. CASE RecordState
    BY <2>3 DEF RecordState
  <2>4. CASE RecordAction
    BY <2>4 DEF RecordAction
  <2>5. CASE ReadLeft
    BY <2>5 DEF ReadLeft
  <2>6. CASE ReadRight
    <3>1. \E initialized \in BOOLEAN : Targets(initialized)
      BY <2>6 DEF ReadRight, Dex3Targets, DfxTargets, FtpTargets, BraincoTargets,
         GripperTargets, HandData
    <3> QED BY <2>6, <3>1 DEF ReadRight, Targets
  <2>7. CASE ReportState
    BY <2>7 DEF ReportState, TakeLock
  <2>8. CASE ReportAction
    BY <2>8 DEF ReportAction
  <2>9. CASE SendCommand
    BY <2>9 DEF SendCommand, Dex3Sends, DfxSends, BraincoSends, GripperSends, FtpSends, Sent
  <2>10. CASE UNCHANGED handsVars
    BY <2>10 DEF handsVars
  <2> QED BY <2>1, <2>2, <2>3, <2>4, <2>5, <2>6, <2>7, <2>8, <2>9, <2>10 DEF HandsNext
<1>3. PairInv => SameCycle
  BY DEF PairInv
<1> QED BY <1>1, <1>2, <1>3, HandsTyped, StepOfPart, PTL DEF Spec

\* At most one cycle takes the zeros before the first sample for a left hand.
THEOREM BlindOnce == Spec => []OneBlindCycle
<1>1. Init => BlindInv
  BY DEF Init, HandsInit, BlindInv, Hands
<1>2. HandsType /\ BlindInv /\ [HandsNext]_handsVars => BlindInv'
  <2> SUFFICES ASSUME HandsType, BlindInv, [HandsNext]_handsVars PROVE BlindInv'
    OBVIOUS
  <2> USE DEF BlindInv, HandsType, Hands, Controls
  <2>1. CASE SubscribeState \/ StartControl
    BY <2>1 DEF SubscribeState, StartControl
  <2>2. CASE WriteInput
    BY <2>2 DEF WriteInput
  <2>3. CASE RecordState \/ RecordAction
    BY <2>3 DEF RecordState, RecordAction
  <2>4. CASE ReadLeft
    BY <2>4 DEF ReadLeft
  <2>5. CASE ReadRight
    <3>1. PICK initialized \in BOOLEAN :
            Targets(initialized) /\ (kind # "dex1" /\ initialized => input["right"] # 0)
      BY <2>5 DEF ReadRight, Dex3Targets, DfxTargets, FtpTargets, BraincoTargets,
         GripperTargets, HandData
    <3>2. PICK b \in Nat :
            /\ b = control.blind \/ (b = control.blind + 1 /\ initialized /\ control.left = 0)
            /\ control' = [control EXCEPT !.at = "report", !.right = input["right"], !.blind = b]
      BY <3>1, TargetsEffect
    <3>3. control'.blind = b /\ control'.at = "report" /\ control.at = "right"
          /\ UNCHANGED <<kind, input, teleop>>
      BY <2>5, <3>2 DEF ReadRight
    <3>4. kind # "dex1" => control'.blind <= 1
                           /\ (control'.blind = 1 => input["left"] # 0)
      BY <3>1, <3>2, <3>3
    <3> QED BY <3>2, <3>3, <3>4
  <2>6. CASE ReportState \/ ReportAction
    BY <2>6 DEF ReportState, ReportAction
  <2>7. CASE SendCommand
    BY <2>7 DEF SendCommand, Dex3Sends, DfxSends, BraincoSends, GripperSends, FtpSends, Sent
  <2>8. CASE UNCHANGED handsVars
    BY <2>8 DEF handsVars
  <2> QED BY <2>1, <2>2, <2>3, <2>4, <2>5, <2>6, <2>7, <2>8 DEF HandsNext
<1>3. BlindInv => OneBlindCycle
  BY DEF BlindInv, OneBlindCycle
<1> QED BY <1>1, <1>2, <1>3, HandsTyped, StepOfPart, PTL DEF Spec
-----------------------------------------------------------------------------
(* The command channel.                                                    *)

Messages == [id : Nat, status : {"none", "ok", "error"}]

IpcType ==
  /\ reqWire \in Messages /\ repWire \in Messages
  /\ dataLoop \in [at : {"poll", "handle", "reply"}, req : Messages]
  /\ asked \in 0 .. MaxRequests
  /\ pressed \in [Requests -> Nat]
  /\ answer \in [Requests -> {"none", "ok", "error"}]
  /\ send \in {"idle", "waiting", "stuck"}

\* At most one request is under way: on the wire, in the server, or on its way back.
\* A client that is idle has none under way; one that waits, its last.
OneUnderWay ==
  /\ reqWire # NoMsg => dataLoop.at = "poll" /\ repWire = NoMsg
  /\ dataLoop.at # "poll" => repWire = NoMsg
  /\ send = "idle" => reqWire = NoMsg /\ dataLoop.at = "poll" /\ repWire = NoMsg
  /\ reqWire # NoMsg => reqWire.id \in 1 .. asked
  /\ dataLoop.at # "poll" => dataLoop.req.id \in 1 .. asked
  /\ repWire # NoMsg => repWire.id \in 1 .. asked

\* A request is handed to on_press on its way through the server, not before and not
\* again; "ok" travels back only with one that was.
Applied ==
  /\ \A r \in Requests : r > asked => pressed[r] = 0 /\ answer[r] = "none"
  /\ reqWire # NoMsg => pressed[reqWire.id] = 0
  /\ dataLoop.at = "handle" => pressed[dataLoop.req.id] = 0
  /\ dataLoop.at = "reply" /\ dataLoop.req.status = "ok" => pressed[dataLoop.req.id] = 1
  /\ repWire.status = "ok" => pressed[repWire.id] = 1
  /\ OkMeansApplied

IpcInv == IpcType /\ OneUnderWay /\ Applied

\* A command answered "ok" was applied, and none is applied twice.
THEOREM OkIsApplied == Spec => []OkMeansApplied
<1> USE DEF NoMsg, Requests
<1>1. Init => IpcInv
  <2> SUFFICES ASSUME Init PROVE IpcInv
    OBVIOUS
  <2> USE DEF Init, IpcInit, Polling
  <2>1. IpcType
    BY IpcAssumption DEF IpcType, Messages, IpcAssumption
  <2>2. OneUnderWay
    BY DEF OneUnderWay
  <2>3. Applied
    BY DEF Applied, OkMeansApplied
  <2> QED BY <2>1, <2>2, <2>3 DEF IpcInv
<1>2. IpcInv /\ [IpcNext]_ipcVars => IpcInv'
  <2> SUFFICES ASSUME IpcInv, [IpcNext]_ipcVars PROVE IpcInv'
    OBVIOUS
  <2> USE DEF IpcInv
  <2>1. CASE StartServer \/ StopServer \/ CloseServer \/ KillServer
    <3>1. IpcType'
      BY <2>1 DEF StartServer, StopServer, CloseServer, KillServer, Polling, IpcType, Messages
    <3>2. OneUnderWay'
      BY <2>1 DEF StartServer, StopServer, CloseServer, KillServer, Polling, IpcType, Messages, OneUnderWay
    <3>3. Applied'
      <4>1. UNCHANGED <<reqWire, repWire, pressed, answer, asked>>
            /\ (dataLoop' = dataLoop \/ dataLoop'.at = "poll")
        BY <2>1 DEF StartServer, StopServer, CloseServer, KillServer, Polling
      <4> QED BY <4>1 DEF Applied, OkMeansApplied
    <3> QED BY <3>1, <3>2, <3>3 DEF IpcInv
  <2>2. CASE Receive
    <3>1. IpcType'
      BY <2>2 DEF Receive, IpcType, Messages
    <3>2. OneUnderWay'
      BY <2>2 DEF Receive, IpcType, Messages, OneUnderWay
    <3>3. Applied'
      BY <2>2 DEF Receive, IpcType, Messages, OneUnderWay, Applied, OkMeansApplied
    <3> QED BY <3>1, <3>2, <3>3 DEF IpcInv
  <2>3. CASE HandleMessage
    <3>1. IpcType'
      BY <2>3 DEF HandleMessage, IpcType, Messages
    <3>2. OneUnderWay'
      BY <2>3 DEF HandleMessage, IpcType, Messages, OneUnderWay
    <3>3. Applied'
      <4> DEFINE r == dataLoop.req.id
      <4>1. dataLoop.at = "handle" /\ r \in Requests /\ r <= asked /\ pressed[r] = 0
            /\ reqWire = NoMsg /\ repWire = NoMsg /\ UNCHANGED <<reqWire, repWire, answer, asked>>
        <5>1. dataLoop.at = "handle" /\ UNCHANGED <<reqWire, repWire, answer, asked>>
          BY <2>3 DEF HandleMessage
        <5>2. reqWire = NoMsg /\ repWire = NoMsg /\ r \in 1 .. asked
          BY <5>1 DEF OneUnderWay
        <5>3. r \in Requests /\ r <= asked
          BY <5>2, IpcAssumption DEF IpcType, IpcAssumption
        <5> QED BY <5>1, <5>2, <5>3 DEF Applied
      <4>2. CASE /\ pressed' = [pressed EXCEPT ![r] = @ + 1]
                 /\ dataLoop' = [dataLoop EXCEPT !.at = "reply"]
        <5>1. dataLoop'.at = "reply" /\ dataLoop'.req.id = r
          BY <4>2 DEF IpcType
        <5>2. pressed'[r] = 1 /\ \A x \in Requests : x # r => pressed'[x] = pressed[x]
          BY <4>1, <4>2 DEF IpcType
        <5> QED BY <4>1, <5>1, <5>2 DEF Applied, OkMeansApplied, IpcType
      <4>3. CASE /\ dataLoop' = [at |-> "reply", req |-> [dataLoop.req EXCEPT !.status = "error"]]
                 /\ UNCHANGED pressed
        <5>1. dataLoop'.at = "reply" /\ dataLoop'.req.status = "error"
          BY <4>3 DEF IpcType, Messages
        <5> QED BY <4>1, <4>3, <5>1 DEF Applied, OkMeansApplied
      <4> QED BY <2>3, <4>2, <4>3 DEF HandleMessage
    <3> QED BY <3>1, <3>2, <3>3 DEF IpcInv
  <2>4. CASE SendReply
    <3>1. IpcType'
      BY <2>4 DEF SendReply, Polling, IpcType, Messages
    <3>2. OneUnderWay'
      BY <2>4 DEF SendReply, Polling, IpcType, Messages, OneUnderWay
    <3>3. Applied'
      BY <2>4 DEF SendReply, Polling, IpcType, Messages, OneUnderWay, Applied, OkMeansApplied
    <3> QED BY <3>1, <3>2, <3>3 DEF IpcInv
  <2>5. CASE PublishHeartbeat \/ HbLoop
    <3>1. IpcType'
      BY <2>5 DEF PublishHeartbeat, HbLoop, IpcType, Messages
    <3>2. OneUnderWay'
      BY <2>5 DEF PublishHeartbeat, HbLoop, IpcType, Messages, OneUnderWay
    <3>3. Applied'
      <4>1. UNCHANGED <<reqWire, repWire, pressed, answer, asked, dataLoop>>
        BY <2>5 DEF PublishHeartbeat, HbLoop
      <4> QED BY <4>1 DEF Applied, OkMeansApplied
    <3> QED BY <3>1, <3>2, <3>3 DEF IpcInv
  <2>6. CASE LoseMessage
    <3>1. IpcType'
      BY <2>6 DEF LoseMessage, IpcType, Messages
    <3>2. OneUnderWay'
      BY <2>6 DEF LoseMessage, IpcType, Messages, OneUnderWay
    <3>3. Applied'
      BY <2>6 DEF LoseMessage, IpcType, Messages, OneUnderWay, Applied, OkMeansApplied
    <3> QED BY <3>1, <3>2, <3>3 DEF IpcInv
  <2>7. CASE SendDataFails
    <3>1. IpcType'
      BY <2>7, IpcAssumption DEF SendDataFails, Returns, IpcAssumption, IpcType, Messages
    <3>2. OneUnderWay'
      BY <2>7, IpcAssumption DEF SendDataFails, Returns, IpcAssumption, IpcType, Messages, OneUnderWay
    <3>3. Applied'
      BY <2>7, IpcAssumption DEF SendDataFails, Returns, IpcAssumption, IpcType, Messages, OneUnderWay, Applied, OkMeansApplied
    <3> QED BY <3>1, <3>2, <3>3 DEF IpcInv
  <2>8. CASE SendData
    <3>1. IpcType'
      BY <2>8, IpcAssumption DEF SendData, IpcAssumption, IpcType, Messages
    <3>2. OneUnderWay'
      BY <2>8, IpcAssumption DEF SendData, IpcAssumption, IpcType, Messages, OneUnderWay
    <3>3. Applied'
      BY <2>8, IpcAssumption DEF SendData, IpcAssumption, IpcType, Messages, OneUnderWay, Applied, OkMeansApplied
    <3> QED BY <3>1, <3>2, <3>3 DEF IpcInv
  <2>9. CASE GetReply
    <3>1. IpcType'
      BY <2>9, IpcAssumption DEF GetReply, Returns, IpcAssumption, IpcType, Messages
    <3>2. OneUnderWay'
      BY <2>9, IpcAssumption DEF GetReply, Returns, IpcAssumption, IpcType, Messages, OneUnderWay
    <3>3. Applied'
      BY <2>9, IpcAssumption DEF GetReply, Returns, IpcAssumption, IpcType, Messages, OneUnderWay, Applied, OkMeansApplied
    <3> QED BY <3>1, <3>2, <3>3 DEF IpcInv
  <2>10. CASE ReplyTimeout
    <3>1. IpcType'
      BY <2>10 DEF ReplyTimeout, Returns, IpcType, Messages
    <3>2. OneUnderWay'
      BY <2>10 DEF ReplyTimeout, Returns, IpcType, Messages, OneUnderWay
    <3>3. Applied'
      BY <2>10 DEF ReplyTimeout, Returns, IpcType, Messages, OneUnderWay, Applied, OkMeansApplied
    <3> QED BY <3>1, <3>2, <3>3 DEF IpcInv
  <2>11. CASE UNCHANGED ipcVars
    <3>1. IpcType'
      BY <2>11 DEF ipcVars, IpcType, Messages
    <3>2. OneUnderWay'
      BY <2>11 DEF ipcVars, IpcType, Messages, OneUnderWay
    <3>3. Applied'
      BY <2>11 DEF ipcVars, IpcType, Messages, OneUnderWay, Applied, OkMeansApplied
    <3> QED BY <3>1, <3>2, <3>3 DEF IpcInv
  <2> QED BY <2>1, <2>2, <2>3, <2>4, <2>5, <2>6, <2>7, <2>8, <2>9, <2>10, <2>11 DEF IpcNext
<1>3. IpcInv => OkMeansApplied
  BY DEF IpcInv, Applied
<1> QED BY <1>1, <1>2, <1>3, StepOfPart, PTL DEF Spec
-----------------------------------------------------------------------------
(* The camera server.                                                      *)

\* A server that has started the threads of the cameras that it took on, and was
\* not told to stop, has them all.
ServingInv ==
  /\ updating \in [Cameras -> {"none", "run", "ended"}] /\ publishing \in [Cameras -> SUBSET AllOutputs]
  /\ outputs \in [Cameras -> SUBSET AllOutputs] /\ cameras \subseteq Cameras
  /\ serving \in {"ready", "publish", "wait", "returned"} /\ ~stop_event =>
       \A c \in cameras : updating[c] = "run"
  /\ serving \in {"wait", "returned"} /\ ~stop_event =>
       \A c \in cameras : publishing[c] = outputs[c]

\* The server never serves some of the cameras that it took on without the others.
THEOREM ServesAllOrNothing == Spec => []AllOrNothing
<1>1. Init => ServingInv
  BY DEF Init, ServerInit, ServingInv
<1>2. ServingInv /\ [ServerNext]_serverVars => ServingInv'
  <2> SUFFICES ASSUME ServingInv, [ServerNext]_serverVars PROVE ServingInv'
    OBVIOUS
  <2> USE DEF ServingInv
  <2>1. CASE SignalChanges \/ AwaitReady \/ StopServing \/ CleanUp
    BY <2>1 DEF SignalChanges, AwaitReady, StopServing, CleanUp
  <2>2. CASE Load
    BY <2>2 DEF Load
  <2>3. CASE StartUpdaters
    BY <2>3 DEF StartUpdaters
  <2>4. CASE StartPublishers
    <3>1. publishing' = [c \in Cameras |-> IF c \in cameras THEN outputs[c] ELSE {}]
      BY <2>4 DEF StartPublishers
    <3>2. publishing' \in [Cameras -> SUBSET AllOutputs] /\ \A c \in cameras : publishing'[c] = outputs[c]
      BY <3>1
    <3> QED BY <2>4, <3>2 DEF StartPublishers
  <2>5. CASE Interrupted \/ KillGroup
    BY <2>5 DEF Interrupted, KillGroup, NoThreads
  <2>6. ASSUME NEW c \in Cameras, UpdateFrames(c)
        PROVE  ServingInv'
    <3>1. UNCHANGED <<outputs, cameras, serving, publishing>>
      BY <2>6 DEF UpdateFrames
    <3>2. CASE UNCHANGED <<updating, stop_event>>
      BY <3>1, <3>2
    <3>3. CASE updating' = [updating EXCEPT ![c] = "ended"] /\ stop_event'
      BY <3>1, <3>3
    <3> QED BY <2>6, <3>2, <3>3 DEF UpdateFrames, UpdateFrame, UpdateRaises
  <2>7. ASSUME NEW c \in Cameras, NEW o, PublisherEnds(c, o)
        PROVE  ServingInv'
    BY <2>7 DEF PublisherEnds
  <2>8. CASE UNCHANGED serverVars
    BY <2>8 DEF serverVars
  <2> QED BY <2>1, <2>2, <2>3, <2>4, <2>5, <2>6, <2>7, <2>8
      DEF ServerNext, Threads, PublisherLeaves, PublishRaises
<1>3. ServingInv => AllOrNothing
  BY DEF ServingInv, AllOrNothing
<1> QED BY <1>1, <1>2, <1>3, StepOfPart, PTL DEF Spec
-----------------------------------------------------------------------------
(* The recorder.                                                           *)

Alive == worker.at # "none"

\* The episode under way has been opened and not been given free.
Open == Alive /\ ~is_available

\* The main loop adds no item.
Quiet == main \in Looping => ~RECORD_RUNNING

Saving == worker.at \in {"save", "reset", "free"}

File == [items : Seq(Int), ends : Nat, recorded : Nat]

RecorderType ==
  /\ files \in [DOMAIN files -> File]
  /\ item_id \in Int /\ itemQ \in Seq(Int) /\ worker.item \in Int
  /\ is_available \in BOOLEAN /\ need_save \in BOOLEAN /\ RECORD_RUNNING \in BOOLEAN

\* Who may do what when: a save is asked for, and made, only when no item follows.
OrderInv ==
  /\ main \in Looping \cup {"close", "flag", "closing", "joining"} => Alive
  /\ main = "setup" => ~RECORD_RUNNING
  /\ main \in Looping /\ RECORD_RUNNING => ~is_available
  /\ need_save \/ Saving => Quiet
  /\ main \in Looping /\ is_available => ~need_save /\ ~Saving
  /\ Saving \/ (Alive /\ is_available) => itemQ = <<>>
  /\ main \in Looping /\ worker.at = "free" => ~need_save
  /\ worker.at = "item" => ~is_available

\* A free recorder that saves once more saves what is complete already.
SavedInv ==
  /\ Open \/ (Alive /\ need_save) \/ Saving \/ main = "flag" => episode_id \in DOMAIN files
  /\ worker.at \in {"reset", "free"} => files[episode_id].ends > 0
  /\ Alive /\ is_available /\ (need_save \/ Saving \/ main = "flag") => files[episode_id].ends > 0
  /\ Open /\ files[episode_id].ends > 0 => worker.at \in {"reset", "free"}

\* The items of the episode under way are in its file, with the worker, or queued.
Taken == IF worker.at = "item" THEN 1 ELSE 0
ItemsInv ==
  Open /\ Written =>
    LET f == files[episode_id]
        n == Len(f.items)
    IN  /\ \A j \in 1 .. n : f.items[j] = j - 1
        /\ worker.at = "item" => worker.item = n
        /\ \A j \in 1 .. Len(itemQ) : itemQ[j] = n + Taken + j - 1
        /\ f.recorded = n + Taken + Len(itemQ)
        /\ item_id = f.recorded - 1

Complete(f) == Len(f.items) = f.recorded /\ \A j \in 1 .. f.recorded : f.items[j] = j - 1
ClosedInv == \A e \in DOMAIN files : files[e].ends > 0 /\ Written => Complete(files[e])

RecorderInv == RecorderType /\ OrderInv /\ SavedInv /\ ItemsInv /\ ClosedInv

LEMMA NoItems == <<>> \in Seq(Int)
OBVIOUS

\* What leaves the recorder alone.
LEMMA RecorderUntouched ==
  ASSUME RecorderInv, UNCHANGED writerVars, RECORD_RUNNING' \in BOOLEAN
  PROVE  RecorderType' /\ ItemsInv' /\ ClosedInv'
<1>1. UNCHANGED <<binocular, disk, files, episode_id, item_id, itemQ, is_available, need_save,
                  stop_worker, worker>>
  BY DEF writerVars, media
<1> QED BY <1>1 DEF RecorderInv, RecorderType, ItemsInv, ClosedInv, Complete, Taken, Open, Alive, Written

\* What the main loop does beside recording, and what comes between.
LEMMA MainStep ==
  ASSUME RecorderInv, UNCHANGED writerVars,
         \/ main' = main /\ RECORD_RUNNING' = RECORD_RUNNING
         \/ main \in Looping \cup {"setup"} /\ main' = "home" /\ RECORD_RUNNING' = RECORD_RUNNING
         \/ main \in Looping /\ main' \in Looping \cup {"home"} /\ RECORD_RUNNING' \in {RECORD_RUNNING, FALSE}
         \/ main' \in {"listener", "exited", "aborted"} /\ RECORD_RUNNING' = RECORD_RUNNING
         \/ main' = "close" /\ Alive /\ RECORD_RUNNING' = RECORD_RUNNING
         \/ main = "close" /\ is_available /\ main' = "closing" /\ RECORD_RUNNING' = RECORD_RUNNING
         \/ main = "close" /\ ~is_available /\ main' = "flag" /\ RECORD_RUNNING' = RECORD_RUNNING
  PROVE  RecorderInv'
<1>1. UNCHANGED <<binocular, disk, files, episode_id, item_id, itemQ, is_available, need_save,
                  stop_worker, worker>>
  BY DEF writerVars, media
<1>2. RECORD_RUNNING' \in BOOLEAN
  BY DEF RecorderInv, RecorderType
<1>3. RecorderType' /\ ItemsInv' /\ ClosedInv'
  BY <1>2, RecorderUntouched
<1>4. OrderInv'
  <2> USE <1>1, <1>2 DEF RecorderInv, RecorderType, OrderInv, Looping
  <2>1. Alive' = Alive /\ Saving' = Saving
    BY DEF Alive, Saving
  <2>2. Quiet => Quiet'
    BY DEF Quiet
  <2>3. main' \in Looping \cup {"close", "flag", "closing", "joining"} => Alive'
    BY <2>1
  <2>4. main' = "setup" => ~RECORD_RUNNING'
    OBVIOUS
  <2>5. main' \in Looping /\ RECORD_RUNNING' => ~is_available'
    OBVIOUS
  <2>6. main' \in Looping => main \in Looping
    OBVIOUS
  <2> QED BY <2>1, <2>2, <2>3, <2>4, <2>5, <2>6
<1>5. SavedInv'
  BY <1>1, <1>2 DEF RecorderInv, RecorderType, OrderInv, SavedInv, Alive, Open, Saving, Looping
<1> QED BY <1>3, <1>4, <1>5 DEF RecorderInv

\* create_episode(), in the main loop.
LEMMA NewEpisode ==
  ASSUME RecorderInv, main = "toggle", main' = "command", CreateEpisode, Recording(TRUE)
  PROVE  RecorderInv'
<1>1. /\ is_available /\ RECORD_RUNNING' = TRUE /\ item_id' = -1 /\ is_available' = FALSE
      /\ UNCHANGED <<binocular, itemQ, need_save, worker, disk>>
      /\ episode_id' = episode_id + 1
      /\ files' = [e \in DOMAIN files \cup {episode_id + 1} |->
                     IF e = episode_id + 1 THEN EmptyFile ELSE files[e]]
  BY DEF CreateEpisode, Recording, media
<1>2. Alive /\ ~need_save /\ ~Saving /\ itemQ = <<>> /\ worker.at # "item"
  BY <1>1 DEF RecorderInv, OrderInv, Looping
<1>3. EmptyFile \in File
  BY NoItems DEF EmptyFile, File
<1>4. /\ episode_id' \in DOMAIN files' /\ files'[episode_id'] = EmptyFile
      /\ DOMAIN files' = DOMAIN files \cup {episode_id'}
      /\ \A e \in DOMAIN files : e # episode_id' => files'[e] = files[e]
  BY <1>1
<1>5. RecorderType'
  <2>1. files' \in [DOMAIN files' -> File]
    BY <1>1, <1>3 DEF RecorderInv, RecorderType
  <2>2. item_id' \in Int
    BY <1>1
  <2> QED BY <1>1, <2>1, <2>2 DEF RecorderInv, RecorderType
<1>6. OrderInv'
  BY <1>1, <1>2 DEF OrderInv, Alive, Quiet, Saving, Looping
<1>7. SavedInv'
  BY <1>1, <1>2, <1>4 DEF SavedInv, Alive, Open, Saving, EmptyFile
<1>8. ItemsInv'
  BY <1>1, <1>2, <1>4 DEF ItemsInv, Taken, EmptyFile
<1>9. ClosedInv'
  BY <1>1, <1>4 DEF RecorderInv, ClosedInv, Complete, Written, EmptyFile
<1> QED BY <1>5, <1>6, <1>7, <1>8, <1>9 DEF RecorderInv

\* save_episode(), by the main loop or by close().
LEMMA AskSave ==
  ASSUME RecorderInv, SaveEpisode,
         \/ main = "toggle" /\ main' = "command" /\ RECORD_RUNNING /\ RECORD_RUNNING' = FALSE
         \/ main = "flag" /\ main' = "closing" /\ RECORD_RUNNING' = RECORD_RUNNING
  PROVE  RecorderInv'
<1>1. need_save' = TRUE /\ UNCHANGED <<binocular, disk, files, episode_id, item_id, itemQ,
                                       is_available, worker>>
  BY DEF SaveEpisode, media
<1>2. RecorderType' /\ ItemsInv' /\ ClosedInv'
  BY <1>1 DEF RecorderInv, RecorderType, ItemsInv, ClosedInv, Complete, Taken, Open, Alive, Written
<1>3. OrderInv'
  BY <1>1 DEF RecorderInv, OrderInv, Alive, Quiet, Saving, Looping
<1>4. SavedInv'
  <2>1. main = "toggle" => Open
    BY DEF RecorderInv, OrderInv, Open, Alive, Looping
  <2> QED BY <1>1, <2>1 DEF RecorderInv, SavedInv, OrderInv, Alive, Open, Saving
<1> QED BY <1>2, <1>3, <1>4 DEF RecorderInv

\* Counting an item keeps a file a file.
LEMMA OneRecorded ==
  ASSUME NEW f \in File
  PROVE  [f EXCEPT !.recorded = f.recorded + 1] \in File
<1>1. f.recorded + 1 \in Nat
  BY DEF File
<1> QED BY <1>1 DEF File

\* add_item(), in the main loop.
LEMMA OneItemMore ==
  ASSUME RecorderInv, main = "record", main' \in {"home", "toggle"}, RECORD_RUNNING,
         RECORD_RUNNING' = RECORD_RUNNING, AddItem
  PROVE  RecorderInv'
<1>1. /\ item_id' = item_id + 1 /\ itemQ' = Append(itemQ, item_id + 1)
      /\ files' = [files EXCEPT ![episode_id].recorded = @ + 1]
      /\ UNCHANGED <<binocular, disk, episode_id, is_available, need_save, worker>>
  BY DEF AddItem, media
<1>2. Open /\ ~need_save /\ ~Saving /\ episode_id \in DOMAIN files
  BY DEF RecorderInv, OrderInv, SavedInv, Open, Quiet, Looping
<1> DEFINE f == files[episode_id]
<1>3. files \in [DOMAIN files -> File] /\ f \in File /\ item_id \in Int /\ itemQ \in Seq(Int)
  BY <1>2 DEF RecorderInv, RecorderType
<1>4. /\ DOMAIN files' = DOMAIN files
      /\ files'[episode_id] = [f EXCEPT !.recorded = f.recorded + 1]
      /\ \A e \in DOMAIN files : e # episode_id => files'[e] = files[e]
  BY <1>1, <1>2, <1>3
<1>5. files'[episode_id] \in File /\ f.ends = 0
  <2>1. files'[episode_id] \in File
    <3> HIDE DEF f
    <3> QED BY <1>3, <1>4, OneRecorded
  <2>2. f.ends \in Nat /\ ~(f.ends > 0)
    BY <1>2, <1>3, SMTT(30) DEF File, RecorderInv, SavedInv, Saving
  <2> HIDE DEF f
  <2> QED BY <2>1, <2>2
<1>6. /\ itemQ' \in Seq(Int) /\ Len(itemQ') = Len(itemQ) + 1
      /\ itemQ'[Len(itemQ) + 1] = item_id + 1
      /\ \A j \in 1 .. Len(itemQ) : itemQ'[j] = itemQ[j]
  BY <1>1, <1>3, AppendProperties
<1>7. RecorderType'
  <2>1. files' \in [DOMAIN files' -> File]
    BY <1>1, <1>3, <1>4, <1>5
  <2>2. item_id' \in Int
    BY <1>1, <1>3
  <2> QED BY <1>1, <1>6, <2>1, <2>2 DEF RecorderInv, RecorderType
<1>8. OrderInv'
  BY <1>1, <1>2 DEF RecorderInv, OrderInv, Alive, Open, Quiet, Saving, Looping
<1>9. SavedInv'
  BY <1>1, <1>2, <1>4, <1>5 DEF RecorderInv, SavedInv, Alive, Open, Saving, File
<1>10. ItemsInv'
  <2> SUFFICES ASSUME Written PROVE ItemsInv'
    BY <1>1 DEF ItemsInv, Written
  <2> DEFINE n == Len(f.items)
             g == files'[episode_id]
  <2>1. /\ \A j \in 1 .. n : f.items[j] = j - 1
        /\ worker.at = "item" => worker.item = n
        /\ \A j \in 1 .. Len(itemQ) : itemQ[j] = n + Taken + j - 1
        /\ f.recorded = n + Taken + Len(itemQ)
        /\ item_id = f.recorded - 1
    BY <1>2 DEF RecorderInv, ItemsInv
  <2>2. n \in Nat /\ Len(itemQ) \in Nat /\ Taken \in {0, 1} /\ f.recorded \in Nat
    BY <1>3 DEF File, Taken
  <2>3. g.items = f.items /\ g.recorded = f.recorded + 1
    BY <1>3, <1>4 DEF File
  <2>4. Taken' = Taken
    BY <1>1 DEF Taken
  <2>5. \A j \in 1 .. Len(itemQ') : itemQ'[j] = n + Taken + j - 1
    <3> HIDE DEF n, Taken
    <3> TAKE j \in 1 .. Len(itemQ')
    <3>1. CASE j = Len(itemQ) + 1
      <4>1. itemQ'[j] = item_id + 1
        BY <1>6, <3>1
      <4> QED BY <2>1, <2>2, <3>1, <4>1
    <3>2. CASE j # Len(itemQ) + 1
      <4>1. j \in 1 .. Len(itemQ)
        BY <1>6, <2>2, <3>2
      <4>2. itemQ'[j] = itemQ[j]
        BY <1>6, <4>1
      <4> QED BY <2>1, <4>1, <4>2
    <3> QED BY <3>1, <3>2
  <2>6. g.recorded = n + Taken + Len(itemQ') /\ item_id' = g.recorded - 1
    <3>1. g.recorded = f.recorded + 1 /\ Len(itemQ') = Len(itemQ) + 1 /\ item_id' = item_id + 1
      BY <1>1, <1>6, <2>3
    <3> HIDE DEF f, g, n, Taken
    <3> QED BY <2>1, <2>2, <3>1
  <2> HIDE DEF f
  <2> QED BY <1>1, <2>1, <2>3, <2>4, <2>5, <2>6 DEF ItemsInv, f
<1>11. ClosedInv'
  BY <1>1, <1>3, <1>4, <1>5 DEF RecorderInv, ClosedInv, Complete, Written, File
<1> QED BY <1>7, <1>8, <1>9, <1>10, <1>11 DEF RecorderInv

\* A step of the worker: the main loop stands still.
LEMMA WorkerStep ==
  ASSUME RecorderInv, InWriter(Worker)
  PROVE  RecorderInv'
<1>0. UNCHANGED <<main, RECORD_RUNNING, binocular, disk, episode_id, item_id>>
  BY DEF InWriter, Worker, WorkerGet, ProcessItem, CheckSave, CloseFile, ResetNeed, FreeWriter, flags, media
<1> DEFINE f == files[episode_id]
<1>t. /\ files \in [DOMAIN files -> File] /\ itemQ \in Seq(Int) /\ item_id \in Int
      /\ worker.item \in Int
  BY DEF RecorderInv, RecorderType
<1>1. CASE WorkerGet
  <2>1. /\ worker.at = "get" /\ UNCHANGED <<files, is_available, need_save>>
        /\ \/ /\ itemQ # <<>> /\ itemQ' = Tail(itemQ)
              /\ worker' = [at |-> "item", item |-> Head(itemQ)]
           \/ /\ itemQ = <<>> /\ itemQ' = itemQ
              /\ \E p \in {"ended", "check"} : worker' = [at |-> p, item |-> 0]
    BY <1>1 DEF WorkerGet, ToWorker, Idle, media
  <2>2. CASE itemQ = <<>>
    <3>1. worker'.at \in {"ended", "check"} /\ worker'.item = 0 /\ itemQ' = <<>>
      BY <2>1, <2>2
    <3>2. RecorderType'
      BY <1>0, <2>1, <2>2, <3>1 DEF RecorderInv, RecorderType
    <3>3. OrderInv' /\ SavedInv'
      BY <1>0, <2>1, <3>1 DEF RecorderInv, OrderInv, SavedInv, Alive, Open, Quiet, Saving
    <3>4. ItemsInv'
      BY <1>0, <2>1, <2>2, <3>1 DEF RecorderInv, ItemsInv, Open, Alive, Taken, Written
    <3>5. ClosedInv'
      BY <1>0, <2>1 DEF RecorderInv, ClosedInv, Written, Complete
    <3> QED BY <3>2, <3>3, <3>4, <3>5 DEF RecorderInv
  <2>3. CASE itemQ # <<>>
    <3>1. /\ worker'.at = "item" /\ worker'.item = Head(itemQ) /\ itemQ' = Tail(itemQ)
      BY <2>1, <2>3
    <3>2. /\ Head(itemQ) = itemQ[1] /\ itemQ[1] \in Int /\ Tail(itemQ) \in Seq(Int)
          /\ Len(itemQ) \in Nat \ {0}
          /\ Len(Tail(itemQ)) = Len(itemQ) - 1
          /\ \A j \in 1 .. Len(Tail(itemQ)) : Tail(itemQ)[j] = itemQ[j + 1]
      BY <1>t, <2>3, HeadTailProperties
    <3>3. Open /\ ~Saving
      BY <2>1, <2>3 DEF RecorderInv, OrderInv, Open, Alive, Saving
    <3>4. RecorderType'
      BY <1>0, <2>1, <3>1, <3>2 DEF RecorderInv, RecorderType
    <3>5. OrderInv' /\ SavedInv'
      BY <1>0, <2>1, <3>1, <3>3 DEF RecorderInv, OrderInv, SavedInv, Alive, Open, Quiet, Saving
    <3>6. ItemsInv'
      <4> SUFFICES ASSUME Written PROVE ItemsInv'
        BY <1>0 DEF ItemsInv, Written
      <4> DEFINE n == Len(f.items)
                 L == Len(itemQ)
      <4>1. /\ \A j \in 1 .. n : f.items[j] = j - 1
            /\ \A j \in 1 .. L : itemQ[j] = n + j - 1
            /\ f.recorded = n + L /\ item_id = f.recorded - 1
        <5>1. Taken = 0
          BY <2>1 DEF Taken
        <5>2. f \in File
          BY <1>t, <3>3 DEF RecorderInv, SavedInv
        <5>3. n \in Nat
          BY <5>2 DEF File
        <5>4. /\ \A j \in 1 .. n : f.items[j] = j - 1
              /\ \A j \in 1 .. L : itemQ[j] = n + Taken + j - 1
              /\ f.recorded = n + Taken + L /\ item_id = f.recorded - 1
          BY <3>3 DEF RecorderInv, ItemsInv
        <5> HIDE DEF n
        <5>5. n + Taken = n
          BY <5>1, <5>3
        <5> QED BY <5>4, <5>5
      <4>2. n \in Nat
        <5>1. f \in File
          BY <1>t, <3>3 DEF RecorderInv, SavedInv
        <5> QED BY <5>1 DEF File
      <4>3. Taken' = 1 /\ Len(itemQ') = L - 1
        BY <3>1, <3>2 DEF Taken
      <4>4. worker'.item = n
        BY <3>1, <3>2, <4>1, <4>2
      <4>5. \A j \in 1 .. Len(itemQ') : itemQ'[j] = n + Taken' + j - 1
        <5> TAKE j \in 1 .. Len(itemQ')
        <5>1. itemQ'[j] = itemQ[j + 1] /\ j + 1 \in 1 .. L
          BY <3>1, <3>2, <4>3
        <5> HIDE DEF n
        <5> QED BY <4>1, <4>2, <4>3, <5>1
      <4>6. f.recorded = n + Taken' + Len(itemQ')
        <5> HIDE DEF n
        <5> QED BY <3>2, <4>1, <4>2, <4>3
      <4>7. files' = files /\ episode_id' = episode_id /\ item_id' = item_id
        BY <1>0, <2>1
      <4> QED BY <4>1, <4>3, <4>4, <4>5, <4>6, <4>7 DEF ItemsInv
    <3>7. ClosedInv'
      BY <1>0, <2>1 DEF RecorderInv, ClosedInv, Written, Complete
    <3> QED BY <3>4, <3>5, <3>6, <3>7 DEF RecorderInv
  <2> QED BY <2>2, <2>3
<1>2. CASE ProcessItem
  <2>1. /\ worker.at = "item" /\ worker'.at = "check" /\ worker'.item = 0
        /\ UNCHANGED <<itemQ, is_available, need_save>>
    BY <1>2 DEF ProcessItem, ToWorker, Idle, media
  <2>2. Open /\ episode_id \in DOMAIN files
    BY <2>1 DEF RecorderInv, OrderInv, SavedInv, Open, Alive
  <2>3. f \in File /\ f.ends = 0
    BY <1>t, <2>1, <2>2 DEF RecorderInv, SavedInv, File
  <2>4. OrderInv'
    BY <1>0, <2>1 DEF RecorderInv, OrderInv, Alive, Quiet, Saving
  <2>5. CASE ~Written
    <3>1. files' = files
      BY <1>2, <2>5 DEF ProcessItem
    <3>2. RecorderType'
      BY <1>0, <2>1, <3>1 DEF RecorderInv, RecorderType
    <3>3. SavedInv'
      BY <1>0, <2>1, <3>1 DEF RecorderInv, SavedInv, Alive, Open, Saving
    <3>4. ItemsInv' /\ ClosedInv'
      BY <1>0, <2>5, <3>1 DEF RecorderInv, ItemsInv, ClosedInv, Complete, Written
    <3> QED BY <2>4, <3>2, <3>3, <3>4 DEF RecorderInv
  <2>6. CASE Written
    <3> DEFINE n == Len(f.items)
               g == files'[episode_id]
    <3>1. files' = [files EXCEPT ![episode_id].items = Append(@, worker.item)]
      BY <1>2, <2>6 DEF ProcessItem
    <3>2. /\ DOMAIN files' = DOMAIN files /\ g = [f EXCEPT !.items = Append(f.items, worker.item)]
          /\ \A e \in DOMAIN files : e # episode_id => files'[e] = files[e]
      BY <1>t, <2>2, <3>1
    <3>3. /\ f.items \in Seq(Int) /\ f.recorded \in Nat /\ n \in Nat
          /\ g.items = Append(f.items, worker.item) /\ g.ends = 0 /\ g.recorded = f.recorded
      BY <2>3, <3>2 DEF File
    <3>4. /\ g.items \in Seq(Int) /\ Len(g.items) = n + 1 /\ g.items[n + 1] = worker.item
          /\ \A j \in 1 .. n : g.items[j] = f.items[j]
      BY <1>t, <3>3, AppendProperties
    <3>5. RecorderType'
      <4>1. g \in File
        BY <2>3, <3>2, <3>4 DEF File
      <4>2. files' \in [DOMAIN files' -> File]
        BY <1>t, <3>1, <3>2, <4>1
      <4> QED BY <1>0, <2>1, <4>2 DEF RecorderInv, RecorderType
    <3>6. SavedInv'
      BY <1>0, <2>1, <2>2, <3>2, <3>3 DEF RecorderInv, SavedInv, OrderInv, Alive, Open, Saving
    <3>7. ItemsInv'
      <4>1. /\ \A j \in 1 .. n : f.items[j] = j - 1
            /\ worker.item = n
            /\ \A j \in 1 .. Len(itemQ) : itemQ[j] = n + 1 + j - 1
            /\ f.recorded = n + 1 + Len(itemQ)
            /\ item_id = f.recorded - 1
        BY <2>1, <2>2, <2>6 DEF RecorderInv, ItemsInv, Taken
      <4>2. Taken' = 0
        BY <2>1 DEF Taken
      <4>3. Len(itemQ) \in Nat /\ (\A j \in 1 .. Len(itemQ) : itemQ[j] \in Int)
        BY <1>t
      <4>4. \A j \in 1 .. Len(g.items) : g.items[j] = j - 1
        <5> TAKE j \in 1 .. Len(g.items)
        <5> HIDE DEF n, g
        <5>1. j \in 1 .. n \/ j = n + 1
          BY <3>3, <3>4
        <5>2. g.items[n + 1] = n
          BY <3>4, <4>1
        <5> QED BY <3>3, <3>4, <4>1, <5>1, <5>2
      <4>5. \A j \in 1 .. Len(itemQ') : itemQ'[j] = Len(g.items) + Taken' + j - 1
        <5>1. itemQ' = itemQ /\ Len(g.items) = n + 1
          BY <2>1, <3>4
        <5> HIDE DEF n, g
        <5>2. ASSUME NEW j \in 1 .. Len(itemQ)
              PROVE  itemQ[j] = Len(g.items) + 0 + j - 1
          <6>1. itemQ[j] = n + 1 + j - 1
            BY <4>1
          <6>2. n \in Int /\ j \in Int /\ Len(g.items) = n + 1
            BY <3>3, <4>3, <5>1
          <6> QED BY <6>1, <6>2
        <5> QED BY <4>2, <5>1, <5>2
      <4>6. g.recorded = Len(g.items) + Taken' + Len(itemQ') /\ item_id' = g.recorded - 1
        <5>1. itemQ' = itemQ /\ Len(g.items) = n + 1 /\ g.recorded = f.recorded /\ item_id' = item_id
          BY <1>0, <2>1, <3>3, <3>4
        <5> HIDE DEF n, g, f
        <5> QED BY <3>3, <4>1, <4>2, <4>3, <5>1
      <4>7. episode_id' = episode_id
        BY <1>0
      <4> QED BY <2>1, <4>4, <4>5, <4>6, <4>7 DEF ItemsInv
    <3>8. ClosedInv'
      <4> SUFFICES ASSUME NEW e \in DOMAIN files', files'[e].ends > 0, Written
                   PROVE  Complete(files'[e])
        BY <1>0 DEF ClosedInv, Written, Complete
      <4>1. e # episode_id
        <5>1. ~ (0 > 0)
          OBVIOUS
        <5>2. e = episode_id => files'[e].ends = 0
          BY <3>3
        <5> QED BY <5>1, <5>2, files'[e].ends > 0
      <4>2. e \in DOMAIN files /\ files'[e] = files[e]
        BY <3>2, <4>1
      <4> QED BY <4>2 DEF RecorderInv, ClosedInv
    <3> QED BY <2>4, <3>5, <3>6, <3>7, <3>8 DEF RecorderInv
  <2> QED BY <2>5, <2>6
<1>3. CASE CheckSave
  <2>1. /\ worker.at = "check" /\ worker'.item = 0
        /\ \/ worker'.at = "save" /\ need_save /\ itemQ = <<>>
           \/ worker'.at = "get"
        /\ UNCHANGED <<files, itemQ, is_available, need_save>>
    BY <1>3 DEF CheckSave, SaveDue, ToWorker, Idle, media
  <2>2. RecorderType'
    BY <1>0, <2>1 DEF RecorderInv, RecorderType
  <2>3. OrderInv'
    BY <1>0, <2>1 DEF RecorderInv, OrderInv, Alive, Quiet, Saving
  <2>4. SavedInv'
    BY <1>0, <2>1 DEF RecorderInv, SavedInv, Alive, Open, Saving
  <2>5. ItemsInv'
    BY <1>0, <2>1 DEF RecorderInv, ItemsInv, Open, Alive, Taken, Written
  <2>6. ClosedInv'
    BY <1>0, <2>1 DEF RecorderInv, ClosedInv, Written, Complete
  <2> QED BY <2>2, <2>3, <2>4, <2>5, <2>6 DEF RecorderInv
<1>4. CASE CloseFile
  <2>1. /\ worker.at = "save" /\ worker'.item = 0 /\ itemQ = <<>>
        /\ UNCHANGED <<itemQ, is_available, need_save>>
    BY <1>4 DEF CloseFile, ToWorker, Idle, media, RecorderInv, OrderInv, Saving
  <2>2. CASE disk = "full"
    <3>1. worker'.at = "died" /\ files' = files
      BY <1>4, <2>2 DEF CloseFile, ToWorker, Idle
    <3>2. RecorderType'
      BY <1>0, <2>1, <3>1 DEF RecorderInv, RecorderType
    <3>3. OrderInv' /\ SavedInv'
      BY <1>0, <2>1, <3>1 DEF RecorderInv, OrderInv, SavedInv, Alive, Open, Quiet, Saving
    <3>4. ItemsInv' /\ ClosedInv'
      BY <1>0, <2>2, <3>1 DEF RecorderInv, ItemsInv, ClosedInv, Complete, Written
    <3> QED BY <3>2, <3>3, <3>4 DEF RecorderInv
  <2>3. CASE disk = "ok"
    <3> DEFINE g == files'[episode_id]
    <3>1. worker'.at = "reset" /\ files' = [files EXCEPT ![episode_id].ends = @ + 1]
      BY <1>4, <2>3 DEF CloseFile, ToWorker, Idle
    <3>2. episode_id \in DOMAIN files
      BY <2>1 DEF RecorderInv, SavedInv, Saving
    <3>3. /\ DOMAIN files' = DOMAIN files /\ g = [f EXCEPT !.ends = f.ends + 1]
          /\ \A e \in DOMAIN files : e # episode_id => files'[e] = files[e]
      BY <1>t, <3>1, <3>2
    <3>4. f \in File
      BY <1>t, <3>2
    <3>5. /\ g \in File /\ g.ends > 0
          /\ g.items = f.items /\ g.recorded = f.recorded
      BY <3>3, <3>4 DEF File
    <3>6. RecorderType'
      <4>1. files' \in [DOMAIN files' -> File]
        BY <1>t, <3>1, <3>3, <3>5
      <4> QED BY <1>0, <2>1, <4>1 DEF RecorderInv, RecorderType
    <3>7. OrderInv'
      BY <1>0, <2>1, <3>1 DEF RecorderInv, OrderInv, Alive, Quiet, Saving
    <3>8. SavedInv'
      BY <1>0, <2>1, <3>1, <3>2, <3>3, <3>5 DEF RecorderInv, SavedInv, Alive, Open, Saving
    <3>9. Taken = 0 /\ Taken' = 0
      BY <2>1, <3>1 DEF Taken
    <3>10. ItemsInv'
      <4>1. Open' => Open
        BY <2>1 DEF Open, Alive
      <4>2. g.items = f.items /\ g.recorded = f.recorded /\ episode_id' = episode_id
            /\ item_id' = item_id /\ itemQ' = itemQ
        BY <1>0, <2>1, <3>5
      <4> QED BY <1>0, <3>1, <3>9, <4>1, <4>2 DEF RecorderInv, ItemsInv, Written
    <3>11. Written => Complete(f)
      <4> SUFFICES ASSUME Written PROVE Complete(f)
        OBVIOUS
      <4>1. CASE is_available
        BY <2>1, <3>2, <4>1 DEF RecorderInv, SavedInv, ClosedInv, Alive, Saving
      <4>2. CASE ~is_available
        <5> DEFINE n == Len(f.items)
        <5>1. (\A j \in 1 .. n : f.items[j] = j - 1) /\ f.recorded = n + 0 + Len(itemQ)
          BY <2>1, <3>9, <4>2 DEF RecorderInv, ItemsInv, Open, Alive
        <5>2. n \in Nat /\ Len(itemQ) = 0
          BY <2>1, <3>4 DEF File
        <5>3. f.recorded = n
          BY <5>1, <5>2
        <5> QED BY <5>1, <5>3 DEF Complete
      <4> QED BY <4>1, <4>2
    <3>12. ClosedInv'
      <4> SUFFICES ASSUME NEW e \in DOMAIN files', files'[e].ends > 0, Written
                   PROVE  Complete(files'[e])
        BY <1>0 DEF ClosedInv, Written, Complete
      <4>1. CASE e = episode_id
        BY <3>5, <3>11, <4>1 DEF Complete
      <4>2. CASE e # episode_id
        BY <3>3, <4>2 DEF RecorderInv, ClosedInv
      <4> QED BY <4>1, <4>2
    <3> QED BY <3>6, <3>7, <3>8, <3>10, <3>12 DEF RecorderInv
  <2> QED BY <1>4, <2>2, <2>3 DEF CloseFile
<1>5. CASE ResetNeed \/ FreeWriter
  <2>1. /\ worker'.item = 0 /\ UNCHANGED <<files, itemQ>>
        /\ \/ worker.at = "reset" /\ worker'.at = "free" /\ need_save' = FALSE /\ UNCHANGED is_available
           \/ worker.at = "free" /\ worker'.at = "get" /\ is_available' = TRUE /\ UNCHANGED need_save
    BY <1>5 DEF ResetNeed, FreeWriter, ToWorker, Idle, media
  <2>2. RecorderType'
    <3>1. is_available' \in BOOLEAN /\ need_save' \in BOOLEAN
      BY <2>1 DEF RecorderInv, RecorderType
    <3>2. worker'.item \in Int
      BY <2>1
    <3> QED BY <1>0, <2>1, <3>1, <3>2 DEF RecorderInv, RecorderType
  <2>3. OrderInv'
    BY <1>0, <2>1 DEF RecorderInv, OrderInv, Alive, Quiet, Saving
  <2>4. SavedInv'
    BY <1>0, <2>1 DEF RecorderInv, SavedInv, Alive, Open, Saving
  <2>5. ItemsInv'
    BY <1>0, <2>1 DEF RecorderInv, ItemsInv, Open, Alive, Taken, Written
  <2>6. ClosedInv'
    BY <1>0, <2>1 DEF RecorderInv, ClosedInv, Written, Complete
  <2> QED BY <2>2, <2>3, <2>4, <2>5, <2>6 DEF RecorderInv
<1> QED BY <1>1, <1>2, <1>3, <1>4, <1>5 DEF InWriter, Worker

\* A closed episode holds every item recorded for it, once and in order.
THEOREM EpisodesIntact == Spec => []EpisodeIntact
<1>1. Init => RecorderInv
  <2> SUFFICES ASSUME Init PROVE RecorderInv
    OBVIOUS
  <2>1. /\ files = <<>> /\ item_id = -1 /\ itemQ = <<>> /\ worker = [at |-> "none", item |-> 0]
        /\ is_available = TRUE /\ need_save = FALSE /\ RECORD_RUNNING = FALSE /\ main = "setup"
    BY DEF Init, LoopInit, WriterInit, Idle
  <2>2. DOMAIN files = {} /\ files \in [DOMAIN files -> File]
    BY <2>1
  <2>3. RecorderType
    <3>1. is_available \in BOOLEAN /\ need_save \in BOOLEAN /\ RECORD_RUNNING \in BOOLEAN
      BY <2>1
    <3>2. item_id \in Int /\ worker.item \in Int
      BY <2>1
    <3>3. itemQ \in Seq(Int)
      BY <2>1, NoItems
    <3> QED BY <2>2, <3>1, <3>2, <3>3 DEF RecorderType
  <2> QED BY <2>1, <2>2, <2>3 DEF RecorderInv, OrderInv, SavedInv, ItemsInv, ClosedInv, Alive, Open,
             Quiet, Saving, Looping
<1>2. RecorderInv /\ [LoopNext]_loopVars => RecorderInv'
  <2> SUFFICES ASSUME RecorderInv, [LoopNext]_loopVars PROVE RecorderInv'
    OBVIOUS
  <2>0. RECORD_RUNNING \in BOOLEAN
    BY DEF RecorderInv, RecorderType
  <2>1. CASE \E key \in {"r", "q", "s"} : OnPress(key)
    BY <2>1, MainStep DEF OnPress
  <2>2. CASE SetUpFails \/ Raise \/ GoHome \/ StopListener \/ CloseRecorder \/ JoinWorker
             \/ Interrupt \/ WaitForStart \/ Command
    <3>1. UNCHANGED writerVars /\ UNCHANGED RECORD_RUNNING
      BY <2>2 DEF SetUpFails, Raise, GoHome, StopListener, CloseRecorder, JoinWorker, Interrupt,
         WaitForStart, Command, flags
    <3>2. \/ main \in Looping \cup {"setup"} /\ main' = "home"
          \/ main \in Looping /\ main' \in Looping \cup {"home"}
          \/ main' \in {"listener", "exited", "aborted"}
          \/ main' = "close" /\ Alive
          \/ main = "close" /\ is_available /\ main' = "closing"
          \/ main = "close" /\ ~is_available /\ main' = "flag"
      BY <2>2 DEF SetUpFails, Raise, GoHome, StopListener, CloseRecorder, JoinWorker, Interrupt,
         WaitForStart, Command, Goto, Looping, Alive
    <3> QED BY <3>1, <3>2, MainStep
  <2>3. CASE SetUp
    <3>1. /\ main = "setup" /\ main' = "wait" /\ UNCHANGED <<RECORD_RUNNING, files, binocular, disk>>
          /\ worker' = [at |-> "get", item |-> 0] /\ itemQ' = <<>> /\ item_id' = -1
          /\ is_available' = TRUE /\ need_save' = FALSE
      BY <2>3 DEF SetUp, OpenWriter, Goto, Idle, media
    <3>2. ~RECORD_RUNNING
      BY <3>1 DEF RecorderInv, OrderInv
    <3>3. RecorderType'
      <4>1. item_id' \in Int /\ worker'.item \in Int
        BY <3>1
      <4>2. itemQ' \in Seq(Int)
        BY <3>1, NoItems
      <4> QED BY <3>1, <4>1, <4>2 DEF RecorderInv, RecorderType
    <3>4. OrderInv' /\ SavedInv' /\ ItemsInv'
      BY <3>1, <3>2 DEF OrderInv, SavedInv, ItemsInv, Alive, Open, Quiet, Saving, Looping
    <3>5. ClosedInv'
      BY <3>1 DEF RecorderInv, ClosedInv, Written, Complete
    <3> QED BY <3>3, <3>4, <3>5 DEF RecorderInv
  <2>4. CASE RecordMode
    <3>0. main = "toggle" /\ main' = "command"
      BY <2>4 DEF RecordMode, Goto
    <3>1. CASE UNCHANGED <<flags, writerVars>>
      BY <3>0, <3>1, MainStep DEF flags, Looping
    <3>2. CASE CreateFails /\ Recording(FALSE)
      BY <3>0, <3>2, MainStep DEF CreateFails, Recording, Looping
    <3>3. CASE CreateEpisode /\ Recording(TRUE)
      BY <3>0, <3>3, NewEpisode
    <3>4. CASE RECORD_RUNNING /\ SaveEpisode /\ Recording(FALSE)
      BY <3>0, <3>4, AskSave DEF Looping, Recording
    <3> QED BY <2>4, <3>1, <3>2, <3>3, <3>4 DEF RecordMode
  <2>5. CASE Record
    <3>0. main = "record" /\ main' \in {"home", "toggle"} /\ RECORD_RUNNING' = RECORD_RUNNING
      BY <2>5 DEF Record, Goto
    <3>1. CASE UNCHANGED writerVars
      BY <3>0, <3>1, MainStep DEF Looping
    <3>2. CASE RECORD_RUNNING /\ AddItem
      BY <3>0, <3>2, OneItemMore
    <3> QED BY <2>5, <3>1, <3>2 DEF Record
  <2>6. CASE CloseSaves
    BY <2>6, AskSave DEF CloseSaves, Goto, flags, Looping
  <2>7. CASE CloseWaits
    <3>1. /\ main = "closing" /\ main' = "joining" /\ is_available
          /\ UNCHANGED <<RECORD_RUNNING, binocular, disk, files, episode_id, item_id, itemQ,
                         is_available, need_save, worker>>
      BY <2>7 DEF CloseWaits, StopWorker, Goto, flags, media
    <3>2. RecorderType' /\ ItemsInv' /\ ClosedInv'
      BY <3>1 DEF RecorderInv, RecorderType, ItemsInv, ClosedInv, Complete, Taken, Open, Alive, Written
    <3>3. OrderInv'
      BY <3>1 DEF RecorderInv, OrderInv, Alive, Quiet, Saving, Looping
    <3>4. SavedInv'
      BY <3>1 DEF RecorderInv, SavedInv, Alive, Open, Saving
    <3> QED BY <3>2, <3>3, <3>4 DEF RecorderInv
  <2>8. CASE Kill \/ Restart
    <3>1. /\ \/ main' = "killed" /\ RECORD_RUNNING' = RECORD_RUNNING
             \/ main' = "setup" /\ RECORD_RUNNING' = FALSE
          /\ worker' = [at |-> "none", item |-> 0] /\ itemQ' = <<>>
          /\ UNCHANGED <<binocular, disk, files, episode_id, item_id, is_available, need_save>>
      BY <2>8 DEF Kill, Restart, LoseWriter, Idle, Goto, flags, media
    <3>2. RecorderType'
      <4>1. worker'.item \in Int
        BY <3>1
      <4>2. itemQ' \in Seq(Int)
        BY <3>1, NoItems
      <4> QED BY <3>1, <4>1, <4>2 DEF RecorderInv, RecorderType
    <3>3. OrderInv' /\ SavedInv' /\ ItemsInv'
      BY <3>1 DEF OrderInv, SavedInv, ItemsInv, Alive, Open, Quiet, Saving, Looping
    <3>4. ClosedInv'
      BY <3>1 DEF RecorderInv, ClosedInv, Written, Complete
    <3> QED BY <3>2, <3>3, <3>4 DEF RecorderInv
  <2>9. CASE InWriter(Worker)
    BY <2>9, WorkerStep
  <2>10. CASE InWriter(DiskFills)
    <3>1. /\ disk' = "full" /\ UNCHANGED <<main, RECORD_RUNNING, files, episode_id, item_id, itemQ,
                                           is_available, need_save, worker>>
      BY <2>10 DEF InWriter, DiskFills, flags
    <3>2. RecorderType' /\ OrderInv' /\ SavedInv'
      BY <3>1 DEF RecorderInv, RecorderType, OrderInv, SavedInv, Alive, Open, Quiet, Saving
    <3>3. ~Written'
      BY <3>1 DEF Written
    <3> QED BY <3>2, <3>3 DEF RecorderInv, ItemsInv, ClosedInv
  <2>11. CASE UNCHANGED loopVars
    BY <2>11, MainStep DEF loopVars, flags
  <2> QED BY <2>1, <2>2, <2>3, <2>4, <2>5, <2>6, <2>7, <2>8, <2>9, <2>10, <2>11
          DEF LoopNext, MainThread, CloseAll
<1>3. RecorderInv => EpisodeIntact
  <2> SUFFICES ASSUME RecorderInv, NEW e \in DOMAIN files, files[e].ends > 0, Written
               PROVE  files[e].items = [i \in 1 .. files[e].recorded |-> i - 1]
    BY DEF EpisodeIntact
  <2>1. Complete(files[e]) /\ files[e] \in File
    BY DEF RecorderInv, ClosedInv, RecorderType
  <2> QED BY <2>1 DEF Complete, File
<1> QED BY <1>1, <1>2, <1>3, StepOfPart, PTL DEF Spec
=============================================================================
