------------------------- MODULE ButtonPressProofs -------------------------
(***************************************************************************)
(* The safety of ButtonPress for every number of presses and of signals.   *)
(***************************************************************************)
EXTENDS ButtonPress, SequenceTheorems, TLAPS

\* Only main() itself spins or destroys the node; the frames above it are
\* handlers.
StackInv ==
  /\ Len(stack) <= 1 + signals
  /\ stack[1] # "down"
  /\ \A i \in 2 .. Len(stack) : stack[i] \in Request \cup {"down"}
  /\ Ended => Len(stack) = 1

\* _busy covers the whole of a sequence and the steps that launch it, so that
\* request_shutdown goes past its test only while there is none.
BusyInv ==
  /\ seq # "none" => busy
  /\ stack[1] \in {"unmark", "launch"} => busy /\ seq = "none"
  /\ \A i \in 1 .. Len(stack) : stack[i] \in {"check", "publish", "mark"} => ~busy

\* _return_sent says that the arm is not out, and nothing contradicts it later:
\* a sequence clears it before its first goal.
ReturnInv ==
  /\ returnSent => ~armOut
  /\ stack[1] = "launch" => ~returnSent
  /\ seq \in BeforeReturn => ~returnSent
  /\ seq = "mark" => ~armOut
  /\ \A i \in 1 .. Len(stack) : stack[i] = "mark" => ~armOut

\* Whoever got through request_shutdown without meeting a sequence has seen or
\* sent the return, and there is no sequence any more.
CaughtInv ==
  ~caught =>
    /\ ~ok => ~armOut
    /\ \A i \in 1 .. Len(stack) : stack[i] \in {"down", "destroy"} => ~busy /\ ~armOut
    /\ Ended => ~armOut

\* The goals of a sequence, counted from its start.
CountInv ==
  /\ stack[1] \in {"unmark", "launch"} \/ seq \in {"capture", "detect", "copy"} =>
       sent <= 3 * (presses - 1)
  /\ seq \in {"capture", "detect", "copy"} => k = 1
  /\ seq = "goal" => \/ k = 1 /\ sent <= 3 * (presses - 1)
                     \/ k \in {3, 4} /\ sent <= 3 * (presses - 1) + k - 2
  /\ seq \in {"plan", "move"} => \/ k = 1 /\ sent <= 3 * (presses - 1) + 1
                                 \/ k \in {3, 4} /\ sent <= 3 * (presses - 1) + k - 1
  /\ seq \in {"hand", "grip"} => \/ k = 2 /\ sent <= 3 * (presses - 1) + 1
                                 \/ k = 5
  /\ sent <= 3 * presses
  /\ stack[1] = "begin" => presses < MaxPresses

\* Goals and trajectories travel in the order of their numbers, ahead of the
\* plan that was read last, and a wait that is not yet satisfied is the one
\* goal the plan may lack beyond those given up.
TrajsAhead == \A i \in 1 .. Len(trajs) : trajs[i] # Empty => trajs[i] > plan
TrajsInOrder ==
  \A i, j \in 1 .. Len(trajs) : i < j /\ trajs[j] # Empty => trajs[i] < trajs[j]
GoalsAhead == \A j \in 1 .. Len(goals) : goals[j] > plan
GoalsLast == \A i \in 1 .. Len(trajs), j \in 1 .. Len(goals) : trajs[i] < goals[j]
GoalsInOrder == \A i, j \in 1 .. Len(goals) : i < j => goals[i] < goals[j]
OrderInv == TrajsAhead /\ TrajsInOrder /\ GoalsAhead /\ GoalsLast /\ GoalsInOrder

LagInv ==
  /\ plan >= sent - givenUp - (IF seq = "plan" /\ ~trajEvent THEN 1 ELSE 0)
  /\ givenUp <= sent - (IF seq = "plan" THEN 1 ELSE 0)

\* request_shutdown in three sentences: main() enters it only with the context
\* down, it has set _shutdown before it looks further, and on a context that is
\* up nobody is about to send a return that has been sent.
RequestInv ==
  /\ ok => stack[1] \in Spinning
  /\ \A i \in 1 .. Len(stack) : stack[i] \in Request \ {"flag"} => shutdown
  /\ ok /\ returnSent => Top # "publish"

\* The log after n commands of the program and r returns, and how many commands
\* come before step i of the program.
Told(n, r) == SubSeq(Commanded, 1, n) \o [i \in 1 .. r |-> "return"]
Before(i) == IF ~DryRun THEN i - 1
             ELSE IF i = 1 THEN 0 ELSE IF i <= 3 THEN 1 ELSE IF i = 4 THEN 2 ELSE 3

\* The place of the sequence tells how much it has commanded.
PlaceInv(n) ==
  /\ seq \in {"capture", "detect", "copy", "goal", "hand"} => n = Before(k)
  /\ seq \in {"plan", "move", "grip"} => n = Before(k) + 1
  /\ seq = "grip" => ~DryRun
  /\ seq \in {"check", "publish", "mark", "ramp"} => k \in {6, 7}
  /\ seq \in {"check", "publish"} /\ k = 6 => n = Len(Commanded)
  /\ seq \in {"check", "publish", "mark"} /\ k = 7 => shutdown

\* Handlers pile up with their returns as long as the context is up: the return
\* of one that has popped is the last.  Those of the sequence are told to the
\* others by _return_sent.
ReturnsInv(n, r) ==
  /\ r > 1 => r <= signals
  /\ r > 0 => n = Len(Commanded) \/ shutdown
  /\ seq \in BeforeReturn \cup {"publish", "dead"} => r = 0
  /\ seq = "mark" => r = 1
  /\ seq \in {"check", "ramp", "finally", "clear"} => r = 0 \/ (r = 1 /\ returnSent)
  /\ ok /\ ~busy /\ ~returnSent =>
       r = 0 \/ r <= Len(stack) - (IF Top = "mark" THEN 1 ELSE 2)

LogInv == \E n \in 0 .. Len(Commanded), r \in 0 .. 1 + MaxSignals :
             log = Told(n, r) /\ PlaceInv(n) /\ ReturnsInv(n, r)

IInv == /\ TypeOK
        /\ StackInv
        /\ BusyInv
        /\ ReturnInv
        /\ CaughtInv
        /\ CountInv
        /\ OrderInv
        /\ LagInv
        /\ RequestInv
        /\ LogInv
-----------------------------------------------------------------------------
(* The stack of frames.                                                    *)

LEMMA GotoFacts ==
  ASSUME stack \in Seq(Frames), stack # <<>>, NEW f \in Frames, Goto(f)
  PROVE  /\ stack' \in Seq(Frames)
         /\ Len(stack') = Len(stack)
         /\ stack'[Len(stack)] = f
         /\ \A i \in 1 .. Len(stack) - 1 : stack'[i] = stack[i]
BY DEF Goto

LEMMA PushFacts ==
  ASSUME stack \in Seq(Frames), stack' = Append(stack, "flag")
  PROVE  /\ stack' \in Seq(Frames)
         /\ Len(stack') = Len(stack) + 1
         /\ stack'[Len(stack) + 1] = "flag"
         /\ \A i \in 1 .. Len(stack) : stack'[i] = stack[i]
<1>1. "flag" \in Frames
  BY DEF Frames, Request
<1>2. QED
  BY <1>1, AppendProperties

LEMMA PopFacts ==
  ASSUME stack \in Seq(Frames), Len(stack) >= 2,
         stack' = SubSeq(stack, 1, Len(stack) - 1)
  PROVE  /\ stack' \in Seq(Frames)
         /\ Len(stack') = Len(stack) - 1
         /\ \A i \in 1 .. Len(stack) - 1 : stack'[i] = stack[i]
BY SubSeqProperties

\* What a handler or main() does next, when its frame ends its request.
LEMMA RequestedFrame == Requested \in {"destroy", "down"} \cap Frames
BY DEF Requested, Frames

\* An exception leaves a single frame.
LEMMA RaiseFacts ==
  ASSUME stack \in Seq(Frames), Raise
  PROVE  /\ stack' \in Seq(Frames)
         /\ Len(stack') = 1
         /\ stack'[1] \in {"flag", "crashed"}
         /\ stack[1] \in Spinning => stack'[1] = "flag"
<1>1. stack' = <<"flag">> \/ stack' = <<"crashed">>
  BY DEF Raise
<1>2. "flag" \in Frames /\ "crashed" \in Frames
  BY DEF Frames, Request
<1>3. stack[1] \in Spinning => stack' = <<"flag">>
  BY DEF Raise
<1>4. ASSUME NEW f \in Frames
      PROVE  <<f>> \in Seq(Frames) /\ Len(<<f>>) = 1 /\ <<f>>[1] = f
  OBVIOUS
<1>5. QED
  BY <1>1, <1>2, <1>3, <1>4

\* Which frame may be at the top.
LEMMA TopFacts ==
  ASSUME stack \in Seq(Frames), stack # <<>>, StackInv
  PROVE  /\ Top \in {"begin", "unmark", "launch", "destroy"} => Len(stack) = 1
         /\ Top = "down" => Len(stack) >= 2
<1>1. Len(stack) \in Nat /\ Len(stack) >= 1
  BY EmptySeq
<1>2. Len(stack) # 1 => stack[Len(stack)] \in Request \cup {"down"}
  <2>1. ASSUME NEW n \in Nat, n >= 1, n # 1
        PROVE  n \in 2 .. n
    BY <2>1
  <2>2. QED
    BY <1>1, <2>1 DEF StackInv
<1>3. QED
  BY <1>1, <1>2 DEF StackInv, Top, Request

\* A frame goes on: the handlers above main() stay handlers.
LEMMA GotoStack ==
  ASSUME stack \in Seq(Frames), stack # <<>>, StackInv, signals' = signals,
         NEW f \in Frames, Goto(f),
         Len(stack) = 1 => f # "down",
         Len(stack) # 1 => f \in Request \cup {"down"}
  PROVE  /\ stack' \in Seq(Frames)
         /\ Len(stack') >= 1 /\ Len(stack') <= 1 + signals'
         /\ StackInv'
<1>1. Len(stack) \in Nat /\ Len(stack) >= 1
  BY EmptySeq
<1>2. /\ stack' \in Seq(Frames)
      /\ Len(stack') = Len(stack)
      /\ stack'[Len(stack)] = f
      /\ \A i \in 1 .. Len(stack) - 1 : stack'[i] = stack[i]
  BY GotoFacts
<1>3. CASE Len(stack) = 1
  BY <1>1, <1>2, <1>3 DEF StackInv, Ended
<1>4. CASE Len(stack) # 1
  <2>1. stack'[1] = stack[1]
    BY <1>1, <1>2, <1>4
  <2>2. ASSUME NEW i \in 2 .. Len(stack)
        PROVE  stack'[i] \in Request \cup {"down"}
    BY <1>1, <1>2, <1>4 DEF StackInv
  <2>3. stack[1] \notin {"exited", "crashed"}
    BY <1>4 DEF StackInv, Ended
  <2>4. QED
    BY <1>1, <1>2, <2>1, <2>2, <2>3 DEF StackInv, Ended
<1>5. QED
  BY <1>3, <1>4

LEMMA StackStep ==
  ASSUME TypeOK, StackInv, Next
  PROVE  /\ stack' \in Seq(Frames)
         /\ Len(stack') \in 1 .. 1 + MaxSignals
         /\ StackInv'
<1> USE PressAssumption DEF PressAssumption
<1>1. stack \in Seq(Frames) /\ stack # <<>> /\ Len(stack) \in Nat /\ Len(stack) >= 1
      /\ signals \in 0 .. MaxSignals
  BY EmptySeq DEF TypeOK
<1>2. SUFFICES /\ stack' \in Seq(Frames)
               /\ Len(stack') >= 1
               /\ Len(stack') <= 1 + signals'
               /\ signals' \in 0 .. MaxSignals
               /\ stack'[1] # "down"
               /\ \A i \in 2 .. Len(stack') : stack'[i] \in Request \cup {"down"}
               /\ stack'[1] \in {"exited", "crashed"} => Len(stack') = 1
  BY LenProperties DEF StackInv, Ended
<1>3. CASE Signal
  BY <1>1, <1>3, PushFacts DEF Signal, StackInv, Ended, Request
<1>4. CASE KeyPressed
  BY <1>1, <1>4, GotoStack DEF KeyPressed, Idle, StackInv, Ended, counts, Frames, Spinning
<1>5. CASE Begin
  BY <1>1, <1>5, TopFacts, GotoStack DEF Begin, StackInv, Ended, Frames, Spinning
<1>6. CASE Unmark
  BY <1>1, <1>6, TopFacts, GotoStack DEF Unmark, StackInv, Ended, counts, Frames, Spinning
<1>7. CASE Launch
  BY <1>1, <1>7, TopFacts, GotoStack DEF Launch, StackInv, Ended, counts, Frames, Spinning
<1>8. CASE SpinEnds
  BY <1>1, <1>8, GotoStack DEF SpinEnds, StackInv, Ended, counts, Frames, Request
<1>9. CASE SetShutdown
  BY <1>1, <1>9, GotoStack DEF SetShutdown, StackInv, Ended, counts, Frames, Request
<1>10. CASE TestBusy
  BY <1>1, <1>10, GotoStack
     DEF TestBusy, AfterTest, Requested, StackInv, Ended, counts, Frames, Request
<1>11. CASE CheckSent
  BY <1>1, <1>11, GotoStack DEF CheckSent, Requested, StackInv, Ended, counts, Frames, Request
<1>12. CASE PublishReturn
  <2>1. CASE Raise
    <3>1. UNCHANGED signals
      BY <1>12 DEF PublishReturn, counts
    <3>2. Len(stack') = 1 /\ stack' \in Seq(Frames) /\ stack'[1] \in {"flag", "crashed"}
      BY <1>1, <2>1, RaiseFacts
    <3>3. QED
      BY <1>1, <3>1, <3>2
  <2>2. CASE Goto("mark")
    BY <1>1, <1>12, <2>2, GotoStack DEF PublishReturn, StackInv, Ended, counts, Frames, Request
  <2>3. QED
    BY <1>12, <2>1, <2>2 DEF PublishReturn
<1>13. CASE MarkSent
  BY <1>1, <1>13, GotoStack DEF MarkSent, Requested, StackInv, Ended, counts, Frames, Request
<1>14. CASE ShutContext
  BY <1>1, <1>14, TopFacts, PopFacts DEF ShutContext, StackInv, counts, Ended
<1>15. CASE Destroy
  BY <1>1, <1>15, TopFacts, GotoFacts DEF Destroy, StackInv, counts, Frames
<1>16. CASE SequenceThread \/ TargetAges \/ Planner \/ TargetCb \/ TrajCb
  <2>1. UNCHANGED <<stack, signals>>
    BY <1>16 DEF SequenceThread, Capture, Detect, CopyTarget, SendGoal, PlanSeen,
       PlanMissed, Moved, StartHand, HandEnds, SeqCheckSent, SeqPublishReturn,
       SeqMarkSent, RampWaited, FinallyClause, ClearBusy, TargetAges, Planner,
       TargetCb, TrajCb, counts
  <2>2. QED
    BY <1>1, <2>1 DEF StackInv, Ended
<1>17. QED
  BY <1>3, <1>4, <1>5, <1>6, <1>7, <1>8, <1>9, <1>10, <1>11, <1>12, <1>13, <1>14,
     <1>15, <1>16 DEF Next, MainThread, Inputs
-----------------------------------------------------------------------------
(* Types and the count of goals.                                           *)

LEMMA ProgramFacts ==
  /\ Len(Program) = 5
  /\ \A i \in 1 .. 5 : Program[i] \in {"pre", "extend", "press", "retreat", "close"}
  /\ \A i \in 1 .. 5 : IsHand(Program[i]) <=> i \in {2, 5}
BY DEF Program, IsHand

\* A step of the program is followed by the next one.
LEMMA NextStepFacts ==
  ASSUME k \in 1 .. 5, NextStep
  PROVE  /\ k' = k + 1
         /\ seq' = IF k = 5 THEN "check" ELSE IF k \in {1, 4} THEN "hand" ELSE "goal"
<1>1. k + 1 \in 2 .. 6 /\ (k + 1 \in {2, 5} <=> k \in {1, 4})
  OBVIOUS
<1>2. k # 5 => k + 1 \in 1 .. 5
  OBVIOUS
<1>3. QED
  BY <1>1, <1>2, ProgramFacts DEF NextStep

LEMMA CountStep ==
  ASSUME TypeOK, StackInv, BusyInv, CountInv, Next
  PROVE  /\ CountInv'
         /\ seq' \in Places /\ k' \in 1 .. 7
         /\ sent' \in 0 .. 3 * MaxPresses
         /\ presses' \in 0 .. MaxPresses
<1> USE PressAssumption DEF PressAssumption
<1>1. /\ stack \in Seq(Frames) /\ stack # <<>> /\ Len(stack) \in Nat /\ Len(stack) >= 1
      /\ seq \in Places /\ k \in 1 .. 7 /\ presses \in 0 .. MaxPresses
      /\ sent \in 0 .. 3 * MaxPresses
  BY EmptySeq, ProgramFacts DEF TypeOK
<1>2. ASSUME UNCHANGED <<seq, k, sent, presses>>,
             stack'[1] = stack[1] \/ stack'[1] \notin {"begin", "unmark", "launch"}
      PROVE  /\ CountInv'
             /\ seq' \in Places /\ k' \in 1 .. 7
             /\ sent' \in 0 .. 3 * MaxPresses
             /\ presses' \in 0 .. MaxPresses
  BY <1>1, <1>2 DEF CountInv
<1>3. CASE MainThread \/ Signal \/ KeyPressed
  <2>1. CASE KeyPressed
    BY <1>1, <2>1, GotoFacts DEF KeyPressed, Idle, CountInv, Frames, Spinning, told, counts
  <2>2. CASE Begin
    <3>1. Len(stack) = 1 /\ stack[1] = "begin"
      BY <1>1, <2>2, TopFacts DEF Begin, Top
    <3>2. CASE busy
      BY <1>1, <2>2, <3>1, <3>2, GotoFacts
         DEF Begin, CountInv, Frames, Spinning, told
    <3>3. CASE ~busy
      <4>1. seq = "none"
        BY <3>3 DEF BusyInv
      <4>2. QED
        BY <1>1, <2>2, <3>1, <3>3, <4>1, GotoFacts
           DEF Begin, CountInv, Frames, Spinning, told
    <3>4. QED
      BY <3>2, <3>3
  <2>3. CASE Unmark
    BY <1>1, <2>3, TopFacts, GotoFacts DEF Unmark, Top, CountInv, BusyInv, Frames, Spinning, told, counts
  <2>4. CASE Launch
    BY <1>1, <2>4, TopFacts, GotoFacts
       DEF Launch, Top, CountInv, BusyInv, Frames, Spinning, told, counts, Places, BeforeReturn
  <2>5. CASE SpinEnds
    BY <1>1, <1>2, <2>5, GotoFacts DEF SpinEnds, Frames, Request, told, counts
  <2>6. CASE SetShutdown
    BY <1>1, <1>2, <2>6, GotoFacts DEF SetShutdown, Frames, Request, Top, told, counts
  <2>7. CASE TestBusy
    BY <1>1, <1>2, <2>7, GotoFacts
       DEF TestBusy, AfterTest, Requested, Frames, Request, Top, counts
  <2>8. CASE CheckSent
    BY <1>1, <1>2, <2>8, GotoFacts DEF CheckSent, Requested, Frames, Request, Top, told, counts
  <2>9. CASE PublishReturn
    BY <1>1, <1>2, <2>9, GotoFacts, RaiseFacts DEF PublishReturn, Frames, Request, Top, counts
  <2>10. CASE MarkSent
    BY <1>1, <1>2, <2>10, GotoFacts DEF MarkSent, Requested, Frames, Request, Top, told, counts
  <2>11. CASE ShutContext
    BY <1>1, <1>2, <2>11, TopFacts, PopFacts DEF ShutContext, told, counts
  <2>12. CASE Destroy
    BY <1>1, <1>2, <2>12, TopFacts, GotoFacts DEF Destroy, Frames, told, counts
  <2>13. CASE Signal
    BY <1>1, <1>2, <2>13, PushFacts DEF Signal, told
  <2>14. QED
    BY <1>3, <2>1, <2>2, <2>3, <2>4, <2>5, <2>6, <2>7, <2>8, <2>9, <2>10, <2>11, <2>12,
       <2>13 DEF MainThread
<1>4. CASE TargetAges \/ Planner \/ TargetCb \/ TrajCb
  BY <1>2, <1>4 DEF TargetAges, Planner, TargetCb, TrajCb, told, counts
<1>5. CASE SequenceThread
  <2>1. UNCHANGED <<stack, presses>>
    BY <1>5 DEF SequenceThread, Capture, Detect, CopyTarget, SendGoal, PlanSeen,
       PlanMissed, Moved, StartHand, HandEnds, SeqCheckSent, SeqPublishReturn,
       SeqMarkSent, RampWaited, FinallyClause, ClearBusy, counts
  <2>2. seq # "none" => stack[1] \notin {"unmark", "launch"}
    BY DEF BusyInv
  <2>3. CASE Capture \/ Detect \/ CopyTarget
    BY <1>1, <2>1, <2>2, <2>3 DEF Capture, Detect, CopyTarget, At, Finally, CountInv,
       Places, BeforeReturn, told
  <2>4. CASE SendGoal \/ PlanSeen \/ PlanMissed
    BY <1>1, <2>1, <2>2, <2>4 DEF SendGoal, PlanSeen, PlanMissed, At, Finally, CountInv,
       Places, BeforeReturn, told
  <2>5. CASE Moved \/ StartHand \/ HandEnds
    <3>1. seq \in {"move", "hand", "grip"} /\ k \in 1 .. 5 /\ UNCHANGED sent
      BY <2>5 DEF Moved, StartHand, HandEnds, At, CountInv, told
    <3>2. CASE NextStep
      BY <1>1, <2>1, <2>2, <3>1, <3>2, NextStepFacts DEF CountInv, Places, BeforeReturn
    <3>3. CASE UNCHANGED k /\ (seq' = "finally" \/ (seq = "hand" /\ seq' = "grip"))
      BY <1>1, <2>1, <2>2, <3>1, <3>3 DEF CountInv, Places, BeforeReturn
    <3>4. \/ NextStep
          \/ UNCHANGED k /\ (seq' = "finally" \/ (seq = "hand" /\ seq' = "grip"))
      BY <2>5, Zenon DEF Moved, StartHand, HandEnds, Finally, At
    <3>5. QED
      BY <3>2, <3>3, <3>4
  <2>6. CASE SeqCheckSent \/ SeqPublishReturn \/ SeqMarkSent \/ RampWaited
             \/ FinallyClause \/ ClearBusy
    BY <1>1, <2>1, <2>2, <2>6, ProgramFacts
       DEF SeqCheckSent, SeqPublishReturn, SeqMarkSent, RampWaited,
       FinallyClause, ClearBusy, At, CountInv, Places, BeforeReturn, told
  <2>7. QED
    BY <1>5, <2>3, <2>4, <2>5, <2>6 DEF SequenceThread
<1>6. QED
  BY <1>3, <1>4, <1>5 DEF Next, Inputs
-----------------------------------------------------------------------------
(* The protocol between the two threads.                                   *)

HandshakeInv == BusyInv /\ ReturnInv /\ CaughtInv

\* The frames after a step are frames from before it, or the frame f.
OnlyNewFrame(f) ==
  \A i \in 1 .. Len(stack') :
     \/ stack'[i] = f
     \/ i \in 1 .. Len(stack) /\ stack'[i] = stack[i]

LEMMA NewFrame ==
  ASSUME stack \in Seq(Frames), stack # <<>>
  PROVE  /\ \A f \in Frames : Goto(f) => OnlyNewFrame(f)
         /\ stack' = Append(stack, "flag") => OnlyNewFrame("flag")
         /\ Len(stack) >= 2 /\ stack' = SubSeq(stack, 1, Len(stack) - 1) =>
               \A f : OnlyNewFrame(f)
         /\ Raise => OnlyNewFrame(stack'[1])
         /\ UNCHANGED stack => \A f : OnlyNewFrame(f)
<1>0. Len(stack) \in Nat /\ Len(stack) >= 1
  BY EmptySeq
<1>1. ASSUME NEW f \in Frames, Goto(f)
      PROVE  OnlyNewFrame(f)
  BY <1>0, <1>1, GotoFacts DEF OnlyNewFrame
<1>2. ASSUME stack' = Append(stack, "flag")
      PROVE  OnlyNewFrame("flag")
  BY <1>0, <1>2, PushFacts DEF OnlyNewFrame
<1>3. ASSUME Len(stack) >= 2, stack' = SubSeq(stack, 1, Len(stack) - 1), NEW f
      PROVE  OnlyNewFrame(f)
  BY <1>0, <1>3, PopFacts DEF OnlyNewFrame
<1>4. ASSUME Raise
      PROVE  OnlyNewFrame(stack'[1])
  <2>1. Len(stack') = 1
    BY <1>4, RaiseFacts
  <2>2. QED
    BY <2>1 DEF OnlyNewFrame
<1>5. ASSUME UNCHANGED stack, NEW f
      PROVE  OnlyNewFrame(f)
  BY <1>5 DEF OnlyNewFrame
<1>6. QED
  BY <1>1, <1>2, <1>3, <1>4, <1>5

LEMMA MainHandshake ==
  ASSUME TypeOK, StackInv, HandshakeInv, StackInv', stack' \in Seq(Frames),
         Len(stack') >= 1,
         MainThread \/ Signal \/ KeyPressed
  PROVE  HandshakeInv'
<1>0. /\ stack \in Seq(Frames) /\ stack # <<>> /\ Len(stack) \in Nat /\ Len(stack) >= 1
      /\ busy \in BOOLEAN /\ returnSent \in BOOLEAN /\ ok \in BOOLEAN
      /\ caught \in BOOLEAN /\ armOut \in BOOLEAN /\ seq \in Places
      /\ Len(stack') \in Nat
  BY EmptySeq DEF TypeOK
<1> USE DEF HandshakeInv
<1>1. CASE Signal
  <2>1. OnlyNewFrame("flag")
    BY <1>0, <1>1, NewFrame DEF Signal
  <2>2. UNCHANGED <<seq, busy, returnSent, ok, caught, armOut>>
    BY <1>1 DEF Signal, flags, told
  <2>3. stack'[1] = stack[1]
    BY <1>0, <1>1, PushFacts DEF Signal
  <2>4. QED
    BY <1>0, <2>1, <2>2, <2>3 DEF BusyInv, ReturnInv, CaughtInv, OnlyNewFrame, Ended
<1>2. CASE KeyPressed
  <2>1. OnlyNewFrame("begin")
    BY <1>0, <1>2, NewFrame DEF KeyPressed, Frames, Spinning
  <2>2. UNCHANGED <<seq, busy, returnSent, ok, caught, armOut>>
    BY <1>2 DEF KeyPressed, flags, told
  <2>3. QED
    BY <1>0, <2>1, <2>2 DEF BusyInv, ReturnInv, CaughtInv, OnlyNewFrame, Ended
<1>3. CASE Begin
  <2>1. Len(stack) = 1 /\ stack[1] = "begin" /\ Len(stack') = 1
    BY <1>0, <1>3, TopFacts, GotoFacts DEF Begin, Top, Frames, Spinning
  <2>2. stack'[1] = IF busy THEN "spin" ELSE "unmark"
    BY <1>0, <1>3, <2>1, GotoFacts DEF Begin, Frames, Spinning
  <2>3. UNCHANGED <<seq, returnSent, ok, caught, armOut>> /\ busy' = TRUE
    BY <1>3 DEF Begin, told
  <2>4. QED
    BY <1>0, <2>1, <2>2, <2>3 DEF BusyInv, ReturnInv, CaughtInv, Ended
<1>4. CASE Unmark
  <2>1. Len(stack) = 1 /\ stack[1] = "unmark" /\ Len(stack') = 1 /\ stack'[1] = "launch"
    BY <1>0, <1>4, TopFacts, GotoFacts DEF Unmark, Top, Frames, Spinning
  <2>2. UNCHANGED <<seq, busy, ok, caught, armOut>> /\ returnSent' = FALSE
    BY <1>4 DEF Unmark, told
  <2>3. QED
    BY <1>0, <2>1, <2>2 DEF BusyInv, ReturnInv, CaughtInv, Ended
<1>5. CASE Launch
  <2>1. Len(stack) = 1 /\ stack[1] = "launch" /\ Len(stack') = 1 /\ stack'[1] = "spin"
    BY <1>0, <1>5, TopFacts, GotoFacts DEF Launch, Top, Frames, Spinning
  <2>2. UNCHANGED <<busy, returnSent, ok, caught, armOut>> /\ seq' = "capture"
    BY <1>5 DEF Launch, flags
  <2>3. QED
    BY <1>0, <2>1, <2>2 DEF BusyInv, ReturnInv, CaughtInv, Ended, BeforeReturn
<1>6. CASE SpinEnds
  <2>1. OnlyNewFrame("flag")
    BY <1>0, <1>6, NewFrame DEF SpinEnds, Frames, Request
  <2>2. UNCHANGED <<seq, busy, returnSent, ok, caught, armOut>>
    BY <1>6 DEF SpinEnds, flags, told
  <2>3. QED
    BY <1>0, <2>1, <2>2 DEF BusyInv, ReturnInv, CaughtInv, OnlyNewFrame, Ended
<1>7. CASE SetShutdown
  <2>1. OnlyNewFrame("test")
    BY <1>0, <1>7, NewFrame DEF SetShutdown, Frames, Request
  <2>2. UNCHANGED <<seq, busy, returnSent, ok, caught, armOut>>
    BY <1>7 DEF SetShutdown, told
  <2>3. QED
    BY <1>0, <2>1, <2>2 DEF BusyInv, ReturnInv, CaughtInv, OnlyNewFrame, Ended
<1>8. CASE TestBusy
  <2>1. OnlyNewFrame(AfterTest) /\ AfterTest \in (IF busy THEN {"destroy", "down"} ELSE {"check"})
    BY <1>0, <1>8, NewFrame DEF TestBusy, AfterTest, Requested, Frames, Request
  <2>2. UNCHANGED <<seq, busy, returnSent, ok, armOut>> /\ caught' = (caught \/ busy)
    BY <1>8 DEF TestBusy, flags
  <2>3. QED
    BY <1>0, <2>1, <2>2 DEF BusyInv, ReturnInv, CaughtInv, OnlyNewFrame, Ended
<1>9. CASE CheckSent
  <2>1. ~busy
    BY <1>0, <1>9 DEF CheckSent, Top, BusyInv
  <2>2. PICK f \in {"destroy", "down", "publish"} :
              OnlyNewFrame(f) /\ (f # "publish" => returnSent)
    BY <1>0, <1>9, NewFrame DEF CheckSent, Requested, Frames, Request
  <2>3. UNCHANGED <<seq, busy, returnSent, ok, caught, armOut>>
    BY <1>9 DEF CheckSent, flags, told
  <2>4. QED
    BY <1>0, <2>1, <2>2, <2>3 DEF BusyInv, ReturnInv, CaughtInv, OnlyNewFrame, Ended
<1>10. CASE PublishReturn
  <2>1. ~busy
    BY <1>0, <1>10 DEF PublishReturn, Top, BusyInv
  <2>2. UNCHANGED <<seq, busy, returnSent, ok, caught>>
    BY <1>10 DEF PublishReturn, flags
  <2>3. CASE ok
    <3>1. OnlyNewFrame("mark") /\ armOut' = FALSE
      BY <1>0, <1>10, <2>3, NewFrame DEF PublishReturn, SendReturn, Frames, Request
    <3>2. QED
      BY <1>0, <2>1, <2>2, <3>1 DEF BusyInv, ReturnInv, CaughtInv, OnlyNewFrame, Ended
  <2>4. CASE ~ok
    <3>1. Len(stack') = 1 /\ stack'[1] \in {"flag", "crashed"} /\ armOut' = armOut
      BY <1>0, <1>10, <2>4, RaiseFacts DEF PublishReturn
    <3>2. QED
      BY <1>0, <2>1, <2>2, <2>4, <3>1 DEF BusyInv, ReturnInv, CaughtInv, Ended
  <2>5. QED
    BY <2>3, <2>4
<1>11. CASE MarkSent
  <2>1. ~busy /\ ~armOut
    BY <1>0, <1>11 DEF MarkSent, Top, BusyInv, ReturnInv
  <2>2. PICK f \in {"destroy", "down"} : OnlyNewFrame(f)
    BY <1>0, <1>11, NewFrame DEF MarkSent, Requested, Frames
  <2>3. UNCHANGED <<seq, busy, ok, caught, armOut>> /\ returnSent' = TRUE
    BY <1>11 DEF MarkSent, told
  <2>4. seq = "none" /\ stack[1] \notin {"unmark", "launch"}
    BY <2>1 DEF BusyInv
  <2>5. QED
    BY <1>0, <2>1, <2>2, <2>3, <2>4
       DEF BusyInv, ReturnInv, CaughtInv, OnlyNewFrame, Ended, BeforeReturn
<1>12. CASE ShutContext
  <2>1. stack[Len(stack)] = "down" /\ Len(stack) >= 2
    BY <1>0, <1>12, TopFacts DEF ShutContext, Top
  <2>2. \A f : OnlyNewFrame(f)
    BY <1>0, <1>12, <2>1, NewFrame DEF ShutContext
  <2>3. UNCHANGED <<seq, busy, returnSent, caught, armOut>> /\ ok' = FALSE
    BY <1>12 DEF ShutContext, told
  <2>4. stack'[1] = stack[1]
    BY <1>0, <1>12, <2>1, PopFacts DEF ShutContext
  <2>5. ~caught => ~armOut
    BY <1>0, <2>1 DEF CaughtInv
  <2>6. QED
    BY ZenonT(40), <1>0, <2>2, <2>3, <2>4, <2>5 DEF BusyInv, ReturnInv, CaughtInv, OnlyNewFrame, Ended
<1>13. CASE Destroy
  <2>1. OnlyNewFrame("exited") /\ stack[Len(stack)] = "destroy"
    BY <1>0, <1>13, NewFrame DEF Destroy, Frames, Top
  <2>2. UNCHANGED <<seq, busy, returnSent, ok, caught, armOut>>
    BY <1>13 DEF Destroy, flags, told
  <2>3. ~caught => ~armOut
    BY <1>0, <2>1 DEF CaughtInv
  <2>4. QED
    BY <1>0, <2>1, <2>2, <2>3 DEF BusyInv, ReturnInv, CaughtInv, OnlyNewFrame, Ended
<1>14. QED
  BY <1>1, <1>2, <1>3, <1>4, <1>5, <1>6, <1>7, <1>8, <1>9, <1>10, <1>11, <1>12, <1>13
     DEF MainThread

LEMMA SequenceHandshake ==
  ASSUME TypeOK, StackInv, HandshakeInv, CountInv,
         SequenceThread \/ TargetAges \/ Planner \/ TargetCb \/ TrajCb
  PROVE  HandshakeInv'
<1>0. /\ stack \in Seq(Frames) /\ stack # <<>> /\ Len(stack) \in Nat /\ Len(stack) >= 1
      /\ busy \in BOOLEAN /\ returnSent \in BOOLEAN /\ ok \in BOOLEAN
      /\ caught \in BOOLEAN /\ armOut \in BOOLEAN /\ seq \in Places
  BY EmptySeq DEF TypeOK
<1> USE DEF HandshakeInv
\* a sequence under way keeps the others away
<1>1. seq # "none" =>
        /\ stack[1] \notin {"unmark", "launch"}
        /\ \A i \in 1 .. Len(stack) : stack[i] \notin {"check", "publish", "mark"}
        /\ ~caught => \A i \in 1 .. Len(stack) : stack[i] \notin {"down", "destroy"}
  BY DEF BusyInv, CaughtInv
<1>2. ASSUME UNCHANGED <<stack, busy, returnSent, ok, caught, armOut>>,
             seq' = seq \/ (seq # "none" /\ seq' # "mark" /\
                            (seq' \in BeforeReturn => seq \in BeforeReturn))
      PROVE  HandshakeInv'
  BY <1>0, <1>2 DEF BusyInv, ReturnInv, CaughtInv, Ended
<1>3. CASE TargetAges \/ Planner \/ TargetCb \/ TrajCb
  BY <1>2, <1>3 DEF TargetAges, Planner, TargetCb, TrajCb, flags, told
<1>4. CASE Capture \/ Detect \/ CopyTarget
  BY <1>2, <1>4 DEF Capture, Detect, CopyTarget, At, Finally, BeforeReturn, flags, told
<1>5. CASE SendGoal
  <2>1. seq = "goal" /\ ~Ended /\ UNCHANGED <<stack, busy, returnSent, ok, caught>>
    BY <1>5 DEF SendGoal, At, flags
  <2>2. CASE ok
    <3>1. armOut' = TRUE /\ seq' = "plan"
      BY <1>5, <2>2 DEF SendGoal
    <3>2. QED
      BY <1>0, <1>1, <2>1, <2>2, <3>1 DEF BusyInv, ReturnInv, CaughtInv, Ended, BeforeReturn
  <2>3. CASE ~ok
    BY <1>2, <1>5, <2>1, <2>3 DEF SendGoal, Finally, BeforeReturn
  <2>4. QED
    BY <2>2, <2>3
<1>6. CASE PlanSeen \/ PlanMissed
  BY <1>2, <1>6 DEF PlanSeen, PlanMissed, At, Finally, BeforeReturn, flags, told
<1>7. CASE Moved \/ StartHand \/ HandEnds
  <2>1. seq \in {"move", "hand", "grip"} /\ UNCHANGED <<stack, busy, returnSent, ok, caught, armOut>>
    BY <1>7 DEF Moved, StartHand, HandEnds, At, flags, told
  <2>2. seq' \in {"check", "hand", "goal", "finally", "grip"}
    BY <1>7 DEF Moved, StartHand, HandEnds, NextStep, Finally
  <2>3. QED
    BY <1>2, <2>1, <2>2 DEF BeforeReturn
<1>8. CASE SeqCheckSent \/ RampWaited \/ FinallyClause
  BY <1>2, <1>8 DEF SeqCheckSent, RampWaited, FinallyClause, At, BeforeReturn, flags, told
<1>9. CASE SeqPublishReturn
  <2>1. seq = "publish" /\ UNCHANGED <<stack, busy, returnSent, ok, caught>>
    BY <1>9 DEF SeqPublishReturn, At, flags
  <2>2. CASE ok
    <3>1. armOut' = FALSE /\ seq' = "mark"
      BY <1>9, <2>2 DEF SeqPublishReturn, SendReturn
    <3>2. QED
      BY <1>0, <1>1, <2>1, <2>2, <3>1 DEF BusyInv, ReturnInv, CaughtInv, Ended, BeforeReturn
  <2>3. CASE ~ok
    <3>1. armOut' = armOut /\ seq' \in {"dead", "finally"}
      BY <1>9, <2>3 DEF SeqPublishReturn
    <3>2. QED
      BY <1>2, <2>1, <3>1 DEF BeforeReturn
  <2>4. QED
    BY <2>2, <2>3
<1>10. CASE SeqMarkSent
  <2>1. /\ seq = "mark" /\ UNCHANGED <<stack, busy, ok, caught, armOut>>
        /\ returnSent' = TRUE /\ seq' \in {"clear", "ramp"}
    BY <1>10 DEF SeqMarkSent, MarkReturn, At, told
  <2>2. QED
    BY <1>0, <1>1, <2>1 DEF BusyInv, ReturnInv, CaughtInv, Ended, BeforeReturn
<1>11. CASE ClearBusy
  <2>1. /\ seq = "clear" /\ UNCHANGED <<stack, returnSent, ok, caught, armOut>>
        /\ busy' = FALSE /\ seq' = "none"
    BY <1>11 DEF ClearBusy, ClearFlag, At, told
  <2>2. QED
    BY <1>0, <1>1, <2>1 DEF BusyInv, ReturnInv, CaughtInv, Ended, BeforeReturn
<1>12. QED
  BY <1>3, <1>4, <1>5, <1>6, <1>7, <1>8, <1>9, <1>10, <1>11 DEF SequenceThread
-----------------------------------------------------------------------------
(* Goals and their answers.                                                *)

\* Steps that touch neither the wire nor the wait.
LEMMA WireSteps ==
  ASSUME Next
  PROVE  \/ Planner \/ TrajCb \/ SendGoal \/ PlanSeen \/ PlanMissed
         \/ /\ UNCHANGED <<goals, trajs, plan, trajEvent, sent, givenUp>>
            /\ seq = "plan" => seq' = "plan" \/ Launch
            /\ seq' = "plan" => seq = "plan"
<1>1. CASE MainThread
  BY <1>1 DEF MainThread, Begin, Unmark, Launch, SpinEnds, SetShutdown, TestBusy,
     CheckSent, PublishReturn, MarkSent, ShutContext, Destroy, wire, reply, told
<1>2. CASE Capture \/ Detect \/ CopyTarget \/ SeqCheckSent \/ SeqPublishReturn
           \/ SeqMarkSent \/ RampWaited \/ FinallyClause \/ ClearBusy
  BY <1>2 DEF Capture, Detect, CopyTarget, SeqCheckSent, SeqPublishReturn, SeqMarkSent,
     RampWaited, FinallyClause, ClearBusy, At, Finally, wire, reply, told
<1>3. CASE Moved \/ StartHand \/ HandEnds
  BY <1>3 DEF Moved, StartHand, HandEnds, NextStep, At, Finally, wire, reply, told
<1>4. CASE Signal \/ TargetAges \/ TargetCb \/ KeyPressed
  BY <1>4 DEF Signal, TargetAges, TargetCb, KeyPressed, wire, reply, told
<1>5. QED
  BY <1>1, <1>2, <1>3, <1>4 DEF Next, SequenceThread, Inputs

\* The wire keeps its types and its order, and the plan lags behind the goals
\* by no more than the number of waits given up.
LEMMA OrderStep ==
  ASSUME TypeOK, StackInv, BusyInv, OrderInv, LagInv, Next
  PROVE  /\ OrderInv' /\ LagInv'
         /\ trajEvent' \in BOOLEAN /\ plan' \in 0 .. sent'
         /\ goals' \in Seq(1 .. sent') /\ trajs' \in Seq(0 .. sent')
         /\ givenUp' \in 0 .. sent'
<1>0. /\ goals \in Seq(1 .. sent) /\ trajs \in Seq(0 .. sent)
      /\ plan \in 0 .. sent /\ sent \in Nat /\ givenUp \in 0 .. sent
      /\ trajEvent \in BOOLEAN /\ Len(goals) \in Nat /\ Len(trajs) \in Nat
  BY DEF TypeOK
<1>1. CASE Planner
  <2>0. UNCHANGED <<plan, trajEvent, sent, givenUp, seq>> /\ goals # <<>>
    BY <1>1 DEF Planner, reply, told
  <2>1. /\ Head(goals) = goals[1] /\ Len(goals) >= 1
        /\ goals' \in Seq(1 .. sent) /\ Len(goals') = Len(goals) - 1
        /\ \A i \in 1 .. Len(goals') : goals'[i] = goals[i + 1]
    BY <1>0, <1>1, HeadTailProperties DEF Planner
  <2>2. GoalsAhead' /\ GoalsInOrder'
    <3>1. ASSUME NEW j \in 1 .. Len(goals')
          PROVE  goals'[j] > plan
      <4>1. j + 1 \in 1 .. Len(goals)
        BY <1>0, <2>1
      <4>2. QED
        BY <2>1, <4>1 DEF OrderInv, GoalsAhead
    <3>2. ASSUME NEW i \in 1 .. Len(goals'), NEW j \in 1 .. Len(goals'), i < j
          PROVE  goals'[i] < goals'[j]
      <4>1. i + 1 \in 1 .. Len(goals) /\ j + 1 \in 1 .. Len(goals) /\ i + 1 < j + 1
        BY <1>0, <2>1, <3>2
      <4>2. QED
        BY <2>1, <4>1 DEF OrderInv, GoalsInOrder
    <3>3. QED
      BY <2>0, <3>1, <3>2 DEF GoalsAhead, GoalsInOrder
  <2>3. ASSUME NEW e \in {goals[1], Empty}, trajs' = Append(trajs, e)
        PROVE  /\ OrderInv' /\ LagInv' /\ trajs' \in Seq(0 .. sent)
    <3>1. e \in 0 .. sent
      BY <1>0, <2>1 DEF Empty
    <3>2. /\ trajs' \in Seq(0 .. sent) /\ Len(trajs') = Len(trajs) + 1
          /\ trajs'[Len(trajs) + 1] = e
          /\ \A i \in 1 .. Len(trajs) : trajs'[i] = trajs[i]
      BY <1>0, <2>3, <3>1, AppendProperties
    <3>3. \A i \in 1 .. Len(goals) : goals[i] \in 1 .. sent
      BY <1>0
    <3>4. \A i \in 1 .. Len(trajs) : trajs[i] \in 0 .. sent
      BY <1>0
    <3>5. 1 \in 1 .. Len(goals)
      BY <1>0, <2>1
    <3>6. e # Empty => /\ e > plan
                        /\ \A i \in 1 .. Len(trajs) : trajs[i] < e
      BY <2>3, <3>5 DEF OrderInv, GoalsAhead, GoalsLast
    <3>7. \A i \in 1 .. Len(trajs') : i \in 1 .. Len(trajs) \/ i = Len(trajs) + 1
      BY <1>0, <3>2
    <3>8. TrajsAhead'
      BY <2>0, <3>2, <3>6, <3>7 DEF OrderInv, TrajsAhead
    <3>9. TrajsInOrder'
      <4>1. SUFFICES ASSUME NEW i \in 1 .. Len(trajs'), NEW j \in 1 .. Len(trajs'),
                            i < j, trajs'[j] # Empty
                     PROVE  trajs'[i] < trajs'[j]
        BY DEF TrajsInOrder
      <4>2. i \in 1 .. Len(trajs)
        BY <1>0, <3>2, <4>1
      <4>3. CASE j \in 1 .. Len(trajs)
        BY <3>2, <4>1, <4>2, <4>3 DEF OrderInv, TrajsInOrder
      <4>4. CASE j = Len(trajs) + 1
        BY <3>2, <3>6, <4>1, <4>2, <4>4
      <4>5. QED
        BY <3>7, <4>3, <4>4
    <3>10. GoalsLast'
      <4>1. SUFFICES ASSUME NEW i \in 1 .. Len(trajs) + 1, NEW j \in 1 .. Len(goals')
                     PROVE  trajs'[i] < goals[j + 1]
        BY <1>0, <2>1, <3>2 DEF GoalsLast
      <4>2. j + 1 \in 2 .. Len(goals)
        BY <1>0, <2>1
      <4>3. CASE i \in 1 .. Len(trajs)
        BY <3>2, <4>2, <4>3 DEF OrderInv, GoalsLast
      <4>4. CASE i = Len(trajs) + 1
        <5>1. trajs'[i] = e /\ goals[1] < goals[j + 1] /\ 0 < goals[j + 1]
          BY <3>2, <3>3, <3>5, <4>2, <4>4 DEF OrderInv, GoalsInOrder
        <5>2. QED
          BY <2>3, <5>1 DEF Empty
      <4>5. QED
        BY <1>0, <4>3, <4>4
    <3>11. QED
      BY <2>0, <2>2, <3>2, <3>8, <3>9, <3>10 DEF OrderInv, LagInv
  <2>4. ASSUME trajs' = trajs
        PROVE  OrderInv' /\ LagInv'
    <3>1. TrajsAhead' /\ TrajsInOrder'
      BY <2>0, <2>4 DEF OrderInv, TrajsAhead, TrajsInOrder
    <3>2. ASSUME NEW i \in 1 .. Len(trajs), NEW j \in 1 .. Len(goals')
          PROVE  trajs[i] < goals'[j]
      <4>1. j + 1 \in 1 .. Len(goals)
        BY <1>0, <2>1
      <4>2. QED
        BY <2>1, <4>1 DEF OrderInv, GoalsLast
    <3>3. QED
      BY <2>0, <2>4, <2>2, <3>1, <3>2 DEF OrderInv, GoalsLast, LagInv
  <2>5. trajs' = trajs \/ \E e \in {goals[1], Empty} : trajs' = Append(trajs, e)
    BY <1>1, <2>1 DEF Planner
  <2>6. QED
    BY <1>0, <2>0, <2>1, <2>3, <2>4, <2>5
<1>2. CASE TrajCb
  <2>0. UNCHANGED <<goals, sent, givenUp, seq>> /\ trajs # <<>>
    BY <1>2 DEF TrajCb, told
  <2>1. /\ Head(trajs) = trajs[1] /\ Len(trajs) >= 1
        /\ trajs' \in Seq(0 .. sent) /\ Len(trajs') = Len(trajs) - 1
        /\ \A i \in 1 .. Len(trajs') : trajs'[i] = trajs[i + 1]
    BY <1>0, <1>2, HeadTailProperties DEF TrajCb
  <2>2. trajs[1] \in 0 .. sent /\ \A j \in 1 .. Len(goals) : goals[j] \in 1 .. sent
    BY <1>0, <2>1
  <2>3. \A i \in 1 .. Len(trajs') : i + 1 \in 1 .. Len(trajs) /\ 1 < i + 1
    BY <1>0, <2>1
  <2>4. TrajsInOrder' /\ GoalsLast' /\ GoalsInOrder'
    <3>1. ASSUME NEW i \in 1 .. Len(trajs'), NEW j \in 1 .. Len(trajs'), i < j,
                 trajs'[j] # Empty
          PROVE  trajs'[i] < trajs'[j]
      <4>1. trajs'[i] = trajs[i + 1] /\ i + 1 \in 1 .. Len(trajs)
        BY <2>1, <2>3
      <4>2. trajs'[j] = trajs[j + 1] /\ j + 1 \in 1 .. Len(trajs)
        BY <2>1, <2>3
      <4>3. i + 1 < j + 1
        BY <1>0, <2>1, <3>1
      <4>4. QED
        BY <3>1, <4>1, <4>2, <4>3 DEF OrderInv, TrajsInOrder
    <3>2. ASSUME NEW i \in 1 .. Len(trajs'), NEW j \in 1 .. Len(goals)
          PROVE  trajs'[i] < goals[j]
      <4>1. trajs'[i] = trajs[i + 1] /\ i + 1 \in 1 .. Len(trajs)
        BY <2>1, <2>3
      <4>2. QED
        BY <4>1 DEF OrderInv, GoalsLast
    <3>3. QED
      BY <2>0, <3>1, <3>2 DEF OrderInv, TrajsInOrder, GoalsLast, GoalsInOrder
  <2>5. CASE trajs[1] = Empty
    <3>1. UNCHANGED <<plan, trajEvent>>
      BY <1>2, <2>1, <2>5 DEF TrajCb, reply
    <3>2. TrajsAhead'
      <4>1. ASSUME NEW i \in 1 .. Len(trajs'), trajs'[i] # Empty
            PROVE  trajs'[i] > plan
        <5>1. trajs'[i] = trajs[i + 1] /\ i + 1 \in 1 .. Len(trajs)
          BY <2>1, <2>3
        <5>2. QED
          BY <4>1, <5>1 DEF OrderInv, TrajsAhead
      <4>2. QED
        BY <3>1, <4>1 DEF TrajsAhead
    <3>3. GoalsAhead'
      BY <2>0, <3>1 DEF OrderInv, GoalsAhead
    <3>4. QED
      BY <1>0, <2>0, <2>1, <2>4, <3>1, <3>2, <3>3 DEF OrderInv, LagInv
  <2>6. CASE trajs[1] # Empty
    <3>1. trajEvent' = TRUE /\ plan' = trajs[1] /\ plan' > plan
      BY <1>0, <1>2, <2>1, <2>6 DEF TrajCb, OrderInv, TrajsAhead
    <3>2. TrajsAhead'
      <4>1. ASSUME NEW i \in 1 .. Len(trajs'), trajs'[i] # Empty
            PROVE  trajs'[i] > trajs[1]
        <5>1. /\ trajs'[i] = trajs[i + 1] /\ i + 1 \in 1 .. Len(trajs) /\ 1 < i + 1
              /\ 1 \in 1 .. Len(trajs)
          BY <1>0, <2>1, <2>3
        <5>2. trajs[1] < trajs[i + 1]
          BY <4>1, <5>1 DEF OrderInv, TrajsInOrder
        <5>3. trajs[i + 1] \in Int
          BY <1>0, <5>1
        <5>4. QED
          BY <2>2, <5>1, <5>2, <5>3
      <4>2. QED
        BY <3>1, <4>1 DEF TrajsAhead
    <3>3. GoalsAhead'
      <4>1. ASSUME NEW j \in 1 .. Len(goals)
            PROVE  goals[j] > trajs[1]
        BY <1>0, <2>1, <2>2 DEF OrderInv, GoalsLast
      <4>2. QED
        BY <2>0, <3>1, <4>1 DEF GoalsAhead
    <3>4. OrderInv'
      BY <2>4, <3>2, <3>3 DEF OrderInv
    <3>5. LagInv'
      BY <1>0, <2>0, <2>2, <3>1 DEF LagInv
    <3>6. QED
      BY <1>0, <2>0, <2>1, <2>2, <3>1, <3>4, <3>5
  <2>7. QED
    BY <2>5, <2>6
<1>3. CASE SendGoal
  <2>0. seq = "goal" /\ UNCHANGED <<trajs, plan, givenUp>> /\ trajEvent' = FALSE
    BY <1>3 DEF SendGoal, At, ClearTrajEvent
  <2>1. CASE ok
    <3>1. goals' = Append(goals, sent + 1) /\ sent' = sent + 1 /\ seq' = "plan"
      BY <1>3, <2>1 DEF SendGoal
    <3>2. goals \in Seq(1 .. sent') /\ trajs \in Seq(0 .. sent')
      <4>1. 1 .. sent \subseteq 1 .. sent' /\ 0 .. sent \subseteq 0 .. sent'
        BY <1>0, <3>1
      <4>2. QED
        BY <1>0, <4>1, SeqMonotonic
    <3>3. /\ goals' \in Seq(1 .. sent') /\ Len(goals') = Len(goals) + 1
          /\ goals'[Len(goals) + 1] = sent + 1
          /\ \A i \in 1 .. Len(goals) : goals'[i] = goals[i]
      BY <1>0, <3>1, <3>2, AppendProperties
    <3>4. /\ \A i \in 1 .. Len(goals) : goals[i] \in 1 .. sent
          /\ \A i \in 1 .. Len(trajs) : trajs[i] \in 0 .. sent
      BY <1>0
    <3>5. OrderInv'
      BY SMTT(30), <1>0, <2>0, <3>1, <3>3, <3>4
         DEF OrderInv, TrajsAhead, TrajsInOrder, GoalsAhead, GoalsLast, GoalsInOrder
    <3>6. LagInv'
      BY <1>0, <2>0, <3>1 DEF LagInv
    <3>7. plan \in 0 .. sent + 1 /\ givenUp \in 0 .. sent + 1
      BY <1>0
    <3>8. QED
      BY <2>0, <3>1, <3>2, <3>3, <3>5, <3>6, <3>7
  <2>2. CASE ~ok
    <3>1. UNCHANGED <<goals, sent>> /\ seq' = "finally"
      BY <1>3, <2>2 DEF SendGoal, Finally
    <3>2. QED
      BY <1>0, <2>0, <3>1 DEF OrderInv, LagInv,
        TrajsAhead, TrajsInOrder, GoalsAhead, GoalsLast, GoalsInOrder
  <2>3. QED
    BY <2>1, <2>2
<1>4. CASE PlanSeen
  BY <1>0, <1>4 DEF PlanSeen, At, OrderInv, LagInv, reply, wire, told,
        TrajsAhead, TrajsInOrder, GoalsAhead, GoalsLast, GoalsInOrder
<1>5. CASE PlanMissed
  BY <1>0, <1>5 DEF PlanMissed, At, Finally, OrderInv, LagInv, reply, wire, told,
        TrajsAhead, TrajsInOrder, GoalsAhead, GoalsLast, GoalsInOrder
<1>6. QED
  <2>1. Launch => seq # "plan"
    <3>1. Launch => stack[1] = "launch"
      BY TopFacts, EmptySeq DEF Launch, Top, TypeOK
    <3>2. QED
      BY <3>1 DEF BusyInv
  <2>2. CASE /\ UNCHANGED <<goals, trajs, plan, trajEvent, sent, givenUp>>
             /\ seq = "plan" => seq' = "plan" \/ Launch
             /\ seq' = "plan" => seq = "plan"
    BY <1>0, <2>1, <2>2 DEF OrderInv, LagInv,
        TrajsAhead, TrajsInOrder, GoalsAhead, GoalsLast, GoalsInOrder
  <2>3. QED
    BY <1>1, <1>2, <1>3, <1>4, <1>5, <2>2, WireSteps
-----------------------------------------------------------------------------
(* The invariant.                                                          *)

\* The variables not yet typed, step by step.
LEMMA RestTyped ==
  ASSUME TypeOK, CountInv, Next
  PROVE  /\ busy' \in BOOLEAN /\ shutdown' \in BOOLEAN /\ returnSent' \in BOOLEAN
         /\ ok' \in BOOLEAN /\ armOut' \in BOOLEAN /\ caught' \in BOOLEAN
         /\ target' \in Ages /\ targetEvent' \in BOOLEAN
         /\ log' \in Seq({"pre", "extend", "press", "retreat", "close", "return"})
         /\ signals' \in 0 .. MaxSignals
<1> USE PressAssumption DEF PressAssumption
<1> DEFINE Names == {"pre", "extend", "press", "retreat", "close", "return"}
<1>1. /\ busy \in BOOLEAN /\ shutdown \in BOOLEAN /\ returnSent \in BOOLEAN
      /\ ok \in BOOLEAN /\ armOut \in BOOLEAN /\ caught \in BOOLEAN
      /\ target \in Ages /\ targetEvent \in BOOLEAN
      /\ log \in Seq(Names) /\ signals \in 0 .. MaxSignals
  BY DEF TypeOK
<1>2. \A e \in Names : Append(log, e) \in Seq(Names)
  BY <1>1, AppendProperties
<1>3. seq \in {"goal", "hand"} => k \in 1 .. 5 /\ Program[k] \in Names
  BY ProgramFacts DEF CountInv
<1>4. CASE MainThread
  <2>1. UNCHANGED <<target, targetEvent, signals>>
    BY <1>4 DEF MainThread, Begin, Unmark, Launch, SpinEnds, SetShutdown, TestBusy,
       CheckSent, PublishReturn, MarkSent, ShutContext, Destroy, camera, counts
  <2>2. log' \in Seq(Names)
    <3>1. UNCHANGED log \/ log' = <<>> \/ log' = Append(log, "return")
      BY <1>4 DEF MainThread, Begin, Unmark, Launch, SpinEnds, SetShutdown, TestBusy,
         CheckSent, PublishReturn, SendReturn, MarkSent, ShutContext, Destroy, told
    <3>2. <<>> \in Seq(Names) /\ "return" \in Names
      BY EmptySeq
    <3>3. QED
      BY <1>1, <1>2, <3>1, <3>2
  <2>3. QED
    BY ZenonT(40), <1>1, <1>4, <2>1, <2>2
       DEF MainThread, Begin, Unmark, Launch, SpinEnds, SetShutdown, TestBusy,
       CheckSent, PublishReturn, SendReturn, MarkSent, ShutContext, Destroy, flags, told
<1>5. CASE SequenceThread
  <2>1. UNCHANGED <<target, signals>>
    BY <1>5 DEF SequenceThread, Capture, Detect, CopyTarget, SendGoal, PlanSeen,
       PlanMissed, Moved, StartHand, HandEnds, SeqCheckSent, SeqPublishReturn,
       SeqMarkSent, RampWaited, FinallyClause, ClearBusy, camera, counts
  <2>2. log' \in Seq(Names)
    <3>1. \/ UNCHANGED log \/ log' = Append(log, "return")
          \/ seq \in {"goal", "hand"} /\ log' = Append(log, Program[k])
      BY <1>5 DEF SequenceThread, Capture, Detect, CopyTarget, SendGoal, PlanSeen,
         PlanMissed, Moved, StartHand, HandEnds, SeqCheckSent, SeqPublishReturn,
         SendReturn, SeqMarkSent, RampWaited, FinallyClause, ClearBusy, At, told
    <3>2. QED
      BY <1>1, <1>2, <1>3, <3>1
  <2>3. QED
    BY ZenonT(40), <1>1, <1>5, <2>1, <2>2
       DEF SequenceThread, Capture, Detect, CopyTarget, SendGoal, PlanSeen,
       PlanMissed, Moved, StartHand, HandEnds, SeqCheckSent, SeqPublishReturn,
       SendReturn, SeqMarkSent, MarkReturn, RampWaited, FinallyClause, ClearBusy,
       ClearFlag, flags, camera, told
<1>6. CASE Inputs
  <2>1. CASE Signal
    BY <1>1, <2>1 DEF Signal, flags, camera, told
  <2>2. CASE TargetAges \/ TargetCb
    BY <1>1, <2>2 DEF TargetAges, TargetCb, flags, told, counts, Ages
  <2>3. CASE Planner \/ TrajCb \/ KeyPressed
    BY <1>1, <2>3 DEF Planner, TrajCb, KeyPressed, flags, camera, told, counts
  <2>4. QED
    BY <1>6, <2>1, <2>2, <2>3 DEF Inputs
<1>7. QED
  BY <1>4, <1>5, <1>6 DEF Next

-----------------------------------------------------------------------------
(* The order of commands and returns.                                      *)

Words == {"pre", "extend", "press", "retreat", "close", "return"}

LEMMA CommandedFacts ==
  /\ Len(Commanded) \in Nat
  /\ Commanded \in Seq(Words)
  /\ Before(1) = 0 /\ Before(6) = Len(Commanded)
  /\ \A i \in 1 .. 5 : Before(i) \in 0 .. Len(Commanded)
  /\ \A i \in 1 .. 5 : ~(DryRun /\ i \in {2, 5}) =>
        /\ Before(i) + 1 = Before(i + 1)
        /\ Before(i) + 1 \in 1 .. Len(Commanded)
        /\ Commanded[Before(i) + 1] = Program[i]
  /\ \A i \in {2, 5} : DryRun => Before(i) = Before(i + 1)
<1>1. CASE DryRun
  BY <1>1 DEF Commanded, Before, Program, Words
<1>2. CASE ~DryRun
  BY <1>2 DEF Commanded, Before, Program, Words
<1>3. QED
  BY <1>1, <1>2

LEMMA CommandedLength ==
  /\ Len(Commanded) \in Nat
  /\ \A i \in 1 .. Len(Commanded) : Commanded[i] \in Words
BY CommandedFacts, ElementOfSeq

LEMMA ToldFacts ==
  ASSUME NEW n \in 0 .. Len(Commanded), NEW r \in Nat
  PROVE  /\ Told(n, r) \in Seq(Words)
         /\ Len(Told(n, r)) = n + r
         /\ \A i \in 1 .. n + r :
               Told(n, r)[i] = IF i <= n THEN Commanded[i] ELSE "return"
<1> DEFINE a == SubSeq(Commanded, 1, n)
           b == [i \in 1 .. r |-> "return"]
<1>1. Commanded \in Seq(Words) /\ Len(Commanded) \in Nat
  BY CommandedFacts
<1>2. a \in Seq(Words) /\ Len(a) = n /\ \A i \in 1 .. n : a[i] = Commanded[i]
  BY <1>1, SubSeqProperties
<1>3. b \in Seq(Words) /\ Len(b) = r /\ \A i \in 1 .. r : b[i] = "return"
  <2>1. b \in [1 .. r -> Words]
    BY DEF Words
  <2>2. QED
    BY <2>1, SeqDef
<1> HIDE DEF a, b
<1>4. a \o b \in Seq(Words) /\ Len(a \o b) = n + r
  BY <1>2, <1>3, ConcatProperties
<1>5. ASSUME NEW i \in 1 .. n + r
      PROVE  (a \o b)[i] = IF i <= n THEN Commanded[i] ELSE "return"
  <2>1. (a \o b)[i] = IF i <= n THEN a[i] ELSE b[i - n]
    BY <1>2, <1>3, ConcatProperties
  <2>2. i > n => i - n \in 1 .. r
    OBVIOUS
  <2>3. QED
    BY <1>2, <1>3, <2>1, <2>2
<1>6. QED
  BY <1>4, <1>5 DEF Told, a, b

\* Two sequences of commands with the same length and elements are the same.
LEMMA ToldNone == Told(0, 0) = <<>>
<1>1. 0 \in 0 .. Len(Commanded)
  BY CommandedLength
<1>2. Told(0, 0) \in Seq(Words)
      /\ Len(Told(0, 0)) = 0
  BY <1>1, ToldFacts
<1>3. QED
  BY <1>2, EmptySeq

LEMMA ToldNext ==
  ASSUME NEW n \in 0 .. Len(Commanded), n + 1 <= Len(Commanded)
  PROVE  Append(Told(n, 0), Commanded[n + 1]) = Told(n + 1, 0)
<1> DEFINE a == Append(Told(n, 0), Commanded[n + 1])
           b == Told(n + 1, 0)
<1>1. n + 1 \in 0 .. Len(Commanded) /\ n + 1 \in 1 .. Len(Commanded) /\ n \in Nat
  BY CommandedLength
<1>0. ASSUME NEW m \in 0 .. Len(Commanded)
      PROVE  /\ Told(m, 0) \in Seq(Words) /\ Len(Told(m, 0)) = m
             /\ \A i \in 1 .. m : Told(m, 0)[i] = Commanded[i]
  <2>1. m + 0 = m /\ 0 \in Nat
    BY CommandedLength
  <2>2. /\ Told(m, 0) \in Seq(Words) /\ Len(Told(m, 0)) = m + 0
        /\ \A i \in 1 .. m + 0 :
              Told(m, 0)[i] = IF i <= m THEN Commanded[i] ELSE "return"
    BY <2>1, ToldFacts
  <2>3. QED
    BY <2>1, <2>2
<1>2. /\ Told(n, 0) \in Seq(Words) /\ Len(Told(n, 0)) = n
      /\ \A i \in 1 .. n : Told(n, 0)[i] = Commanded[i]
  BY <1>0
<1>3. /\ b \in Seq(Words) /\ Len(b) = n + 1
      /\ \A i \in 1 .. n + 1 : b[i] = Commanded[i]
  BY <1>0, <1>1
<1>4. Commanded[n + 1] \in Words
  BY <1>1, CommandedLength
<1>5. /\ a \in Seq(Words) /\ Len(a) = n + 1
      /\ \A i \in 1 .. n : a[i] = Told(n, 0)[i]
      /\ a[n + 1] = Commanded[n + 1]
  BY <1>1, <1>2, <1>4, AppendProperties
<1> HIDE DEF a, b
<1>6. \A i \in 1 .. Len(a) : a[i] = b[i]
  <2>1. ASSUME NEW i \in 1 .. n + 1 PROVE a[i] = b[i]
    BY <1>1, <1>2, <1>3, <1>5
  <2>2. QED
    BY <1>5, <2>1
<1>7. a = b
  BY <1>3, <1>5, <1>6, SeqEqual
<1>8. QED
  BY <1>7 DEF a, b

LEMMA ToldMore ==
  ASSUME NEW n \in 0 .. Len(Commanded), NEW r \in Nat
  PROVE  Append(Told(n, r), "return") = Told(n, r + 1)
<1> DEFINE a == Append(Told(n, r), "return")
           b == Told(n, r + 1)
<1>1. n \in Nat /\ r + 1 \in Nat
  BY CommandedLength
<1>2. /\ Told(n, r) \in Seq(Words) /\ Len(Told(n, r)) = n + r
      /\ \A i \in 1 .. n + r :
            Told(n, r)[i] = IF i <= n THEN Commanded[i] ELSE "return"
  BY ToldFacts
<1>3. /\ b \in Seq(Words) /\ Len(b) = n + r + 1
      /\ \A i \in 1 .. n + r + 1 : b[i] = IF i <= n THEN Commanded[i] ELSE "return"
  <2>1. n + (r + 1) = n + r + 1
    BY <1>1
  <2>2. QED
    BY <1>1, <2>1, ToldFacts
<1>4. "return" \in Words
  BY DEF Words
<1>5. /\ a \in Seq(Words) /\ Len(a) = n + r + 1
      /\ \A i \in 1 .. n + r : a[i] = Told(n, r)[i]
      /\ a[n + r + 1] = "return"
  BY <1>1, <1>2, <1>4, AppendProperties
<1> HIDE DEF a, b
<1>6. \A i \in 1 .. Len(a) : a[i] = b[i]
  <2>1. ASSUME NEW i \in 1 .. n + r + 1 PROVE a[i] = b[i]
    BY <1>1, <1>2, <1>3, <1>5
  <2>2. QED
    BY <1>5, <2>1
<1>7. a = b
  BY <1>3, <1>5, <1>6, SeqEqual
<1>8. QED
  BY <1>7 DEF a, b

LEMMA RequestStep ==
  ASSUME TypeOK, StackInv, BusyInv, RequestInv, StackInv', stack' \in Seq(Frames),
         Len(stack') >= 1, Next
  PROVE  RequestInv'
<1>0. /\ stack \in Seq(Frames) /\ stack # <<>> /\ Len(stack) \in Nat /\ Len(stack) >= 1
      /\ Len(stack') \in Nat
      /\ ok \in BOOLEAN /\ returnSent \in BOOLEAN /\ shutdown \in BOOLEAN /\ seq \in Places
  BY EmptySeq DEF TypeOK
<1>1. CASE Signal
  BY <1>0, <1>1, PushFacts DEF Signal, flags, RequestInv, Top, Request
<1>2. CASE ShutContext
  <2>1. Len(stack) >= 2
    BY <1>0, <1>2, TopFacts DEF ShutContext
  <2>2. /\ ok' = FALSE /\ shutdown' = shutdown
        /\ \A i \in 1 .. Len(stack') : i \in 1 .. Len(stack) /\ stack'[i] = stack[i]
    BY <1>0, <1>2, <2>1, PopFacts DEF ShutContext
  <2>3. QED
    BY <2>2 DEF RequestInv
<1>3. CASE ~ok /\ PublishReturn
  <2>1. Raise /\ UNCHANGED <<ok, shutdown>>
    BY <1>3 DEF PublishReturn, flags
  <2>2. Len(stack') = 1 /\ stack'[1] \in {"flag", "crashed"}
    BY <1>0, <2>1, RaiseFacts
  <2>3. QED
    BY <1>3, <2>1, <2>2 DEF RequestInv, Request
<1>4. ASSUME NEW f \in Frames, Goto(f), UNCHANGED ok, shutdown => shutdown',
             ok /\ Len(stack) = 1 => f \in Spinning,
             f \in Request \ {"flag"} => shutdown',
             ok /\ returnSent' => f # "publish"
      PROVE  RequestInv'
  <2>1. /\ Len(stack') = Len(stack) /\ stack'[Len(stack)] = f
        /\ \A i \in 1 .. Len(stack) - 1 : stack'[i] = stack[i]
    BY <1>0, <1>4, GotoFacts
  <2>2. Top' = f
    BY <2>1 DEF Top
  <2>3. ok' => stack'[1] \in Spinning
    BY <1>0, <1>4, <2>1 DEF RequestInv
  <2>4. ASSUME NEW i \in 1 .. Len(stack'), stack'[i] \in Request \ {"flag"}
        PROVE  shutdown'
    BY <1>0, <1>4, <2>1, <2>4 DEF RequestInv
  <2>5. QED
    BY <1>4, <2>2, <2>3, <2>4 DEF RequestInv
<1>5. CASE KeyPressed \/ Begin \/ Unmark \/ Launch
  <2>1. PICK f \in Spinning : Goto(f)
    BY <1>5 DEF KeyPressed, Begin, Unmark, Launch, Spinning
  <2>2. f \in Frames /\ f \notin Request /\ UNCHANGED <<ok, shutdown>>
    BY <1>5, <2>1 DEF Frames, Spinning, Request, KeyPressed, Begin, Unmark, Launch, flags
  <2>3. QED
    BY <1>4, <2>1, <2>2 DEF Request
<1>6. CASE SpinEnds
  BY <1>4, <1>6 DEF SpinEnds, flags, Frames, Request
<1>7. CASE SetShutdown
  <2>1. Goto("test") /\ "test" \in Frames /\ UNCHANGED ok /\ shutdown' = TRUE
    BY <1>7 DEF SetShutdown, Frames, Request
  <2>2. ~(ok /\ Len(stack) = 1)
    BY <1>7 DEF SetShutdown, RequestInv, Top, Spinning
  <2>3. QED
    BY <1>4, <2>1, <2>2
<1>8. CASE TestBusy \/ CheckSent \/ MarkSent
  <2>1. /\ UNCHANGED <<ok, shutdown>> /\ shutdown /\ ~(ok /\ Len(stack) = 1)
    BY <1>0, <1>8 DEF TestBusy, CheckSent, MarkSent, flags, RequestInv, Top, Request, Spinning
  <2>2. PICK f \in Frames : Goto(f) /\ (returnSent' => f # "publish")
    BY <1>8 DEF TestBusy, CheckSent, MarkSent, AfterTest, Requested, flags, Frames, Request
  <2>3. QED
    BY <1>4, <2>1, <2>2
<1>9. CASE ok /\ PublishReturn
  <2>1. Goto("mark") /\ "mark" \in Frames /\ UNCHANGED <<ok, shutdown>>
    BY <1>9 DEF PublishReturn, flags, Frames, Request
  <2>2. shutdown /\ ~(ok /\ Len(stack) = 1)
    BY <1>0, <1>9 DEF PublishReturn, RequestInv, Top, Request, Spinning
  <2>3. QED
    BY <1>4, <2>1, <2>2
<1>10. CASE Destroy
  <2>1. Goto("exited") /\ "exited" \in Frames /\ UNCHANGED <<ok, shutdown>>
    BY <1>10 DEF Destroy, flags, Frames
  <2>2. ~(ok /\ Len(stack) = 1)
    BY <1>10 DEF Destroy, RequestInv, Top, Spinning
  <2>3. QED
    BY <1>4, <2>1, <2>2 DEF Request
<1>11. CASE SequenceThread \/ TargetAges \/ Planner \/ TargetCb \/ TrajCb
  <2>1. CASE SeqMarkSent
    <3>1. UNCHANGED <<stack, ok, shutdown>> /\ busy
      BY <2>1 DEF SeqMarkSent, At, BusyInv
    <3>2. Top # "publish"
      BY <1>0, <3>1 DEF BusyInv, Top
    <3>3. QED
      BY <3>1, <3>2 DEF RequestInv, Top
  <2>2. CASE ~SeqMarkSent
    <3>1. UNCHANGED <<stack, ok, shutdown, returnSent>>
      BY <1>11, <2>2 DEF SequenceThread, Capture, Detect, CopyTarget, SendGoal, PlanSeen,
         PlanMissed, Moved, StartHand, HandEnds, SeqCheckSent, SeqPublishReturn,
         RampWaited, FinallyClause, ClearBusy, TargetAges, Planner, TargetCb, TrajCb, flags
    <3>2. QED
      BY <3>1 DEF RequestInv, Top
  <2>3. QED
    BY <2>1, <2>2
<1>12. QED
  BY <1>0, <1>1, <1>2, <1>3, <1>5, <1>6, <1>7, <1>8, <1>9, <1>10, <1>11
     DEF Next, MainThread, Inputs

\* Signals are only counted up, and a shutdown is not taken back.
LEMMA Stable ==
  ASSUME TypeOK, Next
  PROVE  /\ signals' \in Nat /\ signals \in Nat /\ signals' >= signals
         /\ shutdown => shutdown'
<1> USE PressAssumption DEF PressAssumption
<1>1. CASE Signal \/ SetShutdown
  BY <1>1 DEF Signal, SetShutdown, TypeOK, flags, counts
<1>2. CASE ~Signal /\ ~SetShutdown
  <2>1. UNCHANGED signals
    BY <1>2 DEF Next, MainThread, SequenceThread, Inputs, Begin, Unmark, Launch, SpinEnds,
       TestBusy, CheckSent, PublishReturn, MarkSent, ShutContext, Destroy,
       Capture, Detect, CopyTarget, SendGoal, PlanSeen, PlanMissed, Moved, StartHand,
       HandEnds, SeqCheckSent, SeqPublishReturn, SeqMarkSent, RampWaited, FinallyClause,
       ClearBusy, TargetAges, Planner, TargetCb, TrajCb, KeyPressed, counts
  <2>2. UNCHANGED shutdown
    BY <1>2 DEF Next, MainThread, SequenceThread, Inputs, Begin, Unmark, Launch, SpinEnds,
       TestBusy, CheckSent, PublishReturn, MarkSent, ShutContext, Destroy,
       Capture, Detect, CopyTarget, SendGoal, PlanSeen, PlanMissed, Moved, StartHand,
       HandEnds, SeqCheckSent, SeqPublishReturn, SeqMarkSent, RampWaited, FinallyClause,
       ClearBusy, TargetAges, Planner, TargetCb, TrajCb, KeyPressed, flags
  <2>3. QED
    BY <2>1, <2>2 DEF TypeOK
<1>3. QED
  BY <1>1, <1>2

\* What main() and its handlers do to the log.
LEMMA MainLog ==
  ASSUME TypeOK, StackInv, BusyInv, RequestInv, StackInv', stack' \in Seq(Frames),
         Len(stack') >= 1, LogInv, MainThread \/ Signal \/ KeyPressed
  PROVE  LogInv'
<1> USE PressAssumption DEF PressAssumption
<1>0. /\ stack \in Seq(Frames) /\ stack # <<>> /\ Len(stack) \in Nat /\ Len(stack) >= 1
      /\ Len(stack) <= 1 + signals /\ signals \in 0 .. MaxSignals
      /\ ok \in BOOLEAN /\ returnSent \in BOOLEAN /\ shutdown \in BOOLEAN /\ busy \in BOOLEAN
      /\ seq \in Places
  BY EmptySeq DEF TypeOK, StackInv
<1>1. /\ signals' \in Nat /\ signals' >= signals /\ (shutdown => shutdown')
  BY Stable DEF Next, Inputs
<1>2. PICK n \in 0 .. Len(Commanded), r \in 0 .. 1 + MaxSignals :
             log = Told(n, r) /\ PlaceInv(n) /\ ReturnsInv(n, r)
  BY DEF LogInv
<1>3. CASE Launch
  <2>1. log' = Told(0, 0) /\ seq' = "capture" /\ k' = 1
    BY <1>3, ToldNone DEF Launch
  <2>2. 0 \in 0 .. Len(Commanded) /\ 0 \in 0 .. 1 + MaxSignals /\ Before(1) = 0
    BY CommandedFacts
  <2>3. PlaceInv(0)'
    BY <2>1, <2>2 DEF PlaceInv
  <2>4. ReturnsInv(0, 0)'
    BY <2>1 DEF ReturnsInv
  <2>5. QED
    BY <2>1, <2>2, <2>3, <2>4 DEF LogInv
<1>4. CASE ok /\ PublishReturn
  <2>1. /\ Top = "publish" /\ Goto("mark") /\ "mark" \in Frames
        /\ log' = Append(log, "return")
        /\ UNCHANGED <<seq, k, busy, shutdown, returnSent, ok, signals>>
    BY <1>4 DEF PublishReturn, SendReturn, flags, counts, Frames, Request
  <2>2. ~busy /\ ~returnSent /\ shutdown /\ seq = "none"
    BY <1>0, <1>4, <2>1 DEF BusyInv, RequestInv, Top, Request
  <2>3. Len(stack) # 1
    BY <1>4, <2>1 DEF RequestInv, Top, Spinning
  <2>4. r = 0 \/ r <= Len(stack) - 2
    BY <1>2, <1>4, <2>1, <2>2 DEF ReturnsInv
  <2>5. r + 1 \in 0 .. 1 + MaxSignals /\ r + 1 <= Len(stack) - 1
        /\ (r + 1 > 1 => r + 1 <= signals)
    <3>1. r \in Nat /\ Len(stack) >= 2 /\ signals >= 1 /\ signals <= MaxSignals
      <4>1. r \in Nat /\ signals \in Nat /\ signals <= MaxSignals
        BY <1>0
      <4>2. Len(stack) >= 2
        <5>1. \A m \in Nat : m >= 1 /\ m # 1 => m >= 2
          OBVIOUS
        <5>2. QED
          BY <1>0, <2>3, <5>1, Zenon
      <4>3. QED
        BY <1>0, <4>1, <4>2
    <3>2. CASE r = 0
      BY <1>0, <3>1, <3>2
    <3>3. CASE r <= Len(stack) - 2
      BY <1>0, <3>1, <3>3
    <3>4. QED
      BY <2>4, <3>2, <3>3
  <2>6. log' = Told(n, r + 1)
    <3>1. r \in Nat
      OBVIOUS
    <3>2. QED
      BY <1>2, <2>1, <3>1, ToldMore
  <2>7. Top' = "mark" /\ Len(stack') = Len(stack)
    BY <1>0, <2>1, GotoFacts DEF Top
  <2>8. PlaceInv(n)'
    BY <2>1, <2>2 DEF PlaceInv
  <2>9. ReturnsInv(n, r + 1)'
    BY <2>1, <2>2, <2>5, <2>7 DEF ReturnsInv, BeforeReturn
  <2>10. QED
    BY <2>5, <2>6, <2>8, <2>9 DEF LogInv
<1>5. ASSUME UNCHANGED <<seq, k, log>>,
             (returnSent => returnSent') \/ seq = "none",
             ok' /\ ~busy' /\ ~returnSent' =>
               r = 0 \/ r <= Len(stack') - (IF Top' = "mark" THEN 1 ELSE 2)
      PROVE  LogInv'
  <2>1. PlaceInv(n)'
    BY <1>1, <1>2, <1>5 DEF PlaceInv
  <2>2. r > 1 => r <= signals'
    BY <1>0, <1>1, <1>2 DEF ReturnsInv
  <2>3. ReturnsInv(n, r)'
    BY <1>1, <1>2, <1>5, <2>2 DEF ReturnsInv, BeforeReturn
  <2>4. QED
    BY <1>2, <1>5, <2>1, <2>3 DEF LogInv
<1>6. CASE Signal
  <2>1. Len(stack') = Len(stack) + 1 /\ Top' = "flag"
    BY <1>0, <1>6, PushFacts DEF Signal, Top
  <2>2. UNCHANGED <<seq, k, log, ok, busy, returnSent>>
    BY <1>6 DEF Signal, flags, told
  <2>3. ok /\ ~busy /\ ~returnSent => r = 0 \/ r <= Len(stack) - 1
    BY <1>0, <1>2 DEF ReturnsInv
  <2>4. QED
    BY <1>0, <1>5, <2>1, <2>2, <2>3
<1>7. CASE ShutContext \/ (~ok /\ PublishReturn) \/ SpinEnds
  <2>1. UNCHANGED <<seq, k, log, returnSent>> /\ ~ok'
    BY <1>7 DEF ShutContext, PublishReturn, SpinEnds, flags, told
  <2>2. QED
    BY <1>5, <2>1
<1>8. CASE Begin \/ Unmark \/ MarkSent
  <2>1. UNCHANGED <<seq, k, log>> /\ (busy' \/ returnSent')
    <3>1. CASE Begin
      BY <3>1 DEF Begin, told
    <3>2. CASE Unmark
      BY <1>0, <3>2, TopFacts DEF Unmark, told, Top, BusyInv
    <3>3. CASE MarkSent
      BY <3>3 DEF MarkSent, told
    <3>4. QED
      BY <1>8, <3>1, <3>2, <3>3
  <2>2. (returnSent => returnSent') \/ seq = "none"
    BY <1>0, <1>8, TopFacts DEF Begin, Unmark, MarkSent, Top, BusyInv
  <2>3. QED
    BY <1>5, <2>1, <2>2
<1>9. CASE KeyPressed \/ SetShutdown \/ TestBusy \/ CheckSent \/ Destroy
  <2>1. PICK f \in Frames : Goto(f)
    BY <1>9 DEF KeyPressed, SetShutdown, TestBusy, AfterTest, CheckSent, Destroy,
       Requested, Frames, Request, Spinning
  <2>2. UNCHANGED <<seq, k, log, ok, busy, returnSent>> /\ Top # "mark"
    <3>1. UNCHANGED <<seq, k, log, ok, busy, returnSent>>
      BY <1>9 DEF KeyPressed, SetShutdown, TestBusy, CheckSent, Destroy, flags, told
    <3>2. KeyPressed => Top = "spin"
      BY DEF KeyPressed, Idle, Top
    <3>3. Top # "mark"
      BY <1>9, <3>2 DEF SetShutdown, TestBusy, CheckSent, Destroy
    <3>4. QED
      BY <3>1, <3>3
  <2>3. Len(stack') = Len(stack)
    BY <1>0, <2>1, GotoFacts
  <2>4. ok /\ ~busy /\ ~returnSent => r = 0 \/ r <= Len(stack) - 2
    BY <1>2, <2>2 DEF ReturnsInv
  <2>5. QED
    BY <1>0, <1>5, <2>2, <2>3, <2>4
<1>10. QED
  BY <1>0, <1>3, <1>4, <1>6, <1>7, <1>8, <1>9 DEF MainThread

\* What the sequence does to it.
LEMMA SequenceLog ==
  ASSUME TypeOK, BusyInv, ReturnInv, CountInv, LogInv, SequenceThread
  PROVE  LogInv'
<1> USE PressAssumption DEF PressAssumption
<1>0. /\ seq \in Places /\ k \in 1 .. 7 /\ busy \in BOOLEAN
      /\ shutdown \in BOOLEAN /\ returnSent \in BOOLEAN
  BY ProgramFacts DEF TypeOK
<1>1. PICK n \in 0 .. Len(Commanded), r \in 0 .. 1 + MaxSignals :
             log = Told(n, r) /\ PlaceInv(n) /\ ReturnsInv(n, r)
  BY DEF LogInv
<1>2. UNCHANGED <<stack, shutdown, ok, signals>> /\ seq # "none"
  BY DEF SequenceThread, Capture, Detect, CopyTarget, SendGoal, PlanSeen,
     PlanMissed, Moved, StartHand, HandEnds, SeqCheckSent, SeqPublishReturn,
     SeqMarkSent, RampWaited, FinallyClause, ClearBusy, At, flags, counts
<1>3. busy
  BY <1>2 DEF BusyInv
<1>4. Len(Commanded) \in Nat
  BY CommandedFacts
<1>5. CASE Capture \/ Detect \/ CopyTarget \/ PlanSeen \/ PlanMissed \/ FinallyClause
  <2>1. UNCHANGED <<log, busy, returnSent>>
    BY <1>5 DEF Capture, Detect, CopyTarget, PlanSeen, PlanMissed, FinallyClause, flags, told
  <2>2. PlaceInv(n)'
    <3>1. CASE Capture \/ Detect \/ CopyTarget \/ PlanSeen \/ PlanMissed
      BY <1>0, <1>1, <1>2, <3>1
         DEF Capture, Detect, CopyTarget, PlanSeen, PlanMissed, Finally, At, PlaceInv
    <3>2. CASE FinallyClause
      BY <1>0, <1>1, <1>2, <3>2, ProgramFacts DEF FinallyClause, At, PlaceInv
    <3>3. QED
      BY <1>5, <3>1, <3>2
  <2>3. ReturnsInv(n, r)'
    BY <1>1, <1>2, <1>3, <1>5, <2>1
       DEF Capture, Detect, CopyTarget, PlanSeen, PlanMissed, Finally, FinallyClause, At,
       ReturnsInv, BeforeReturn
  <2>4. QED
    BY <1>1, <2>1, <2>2, <2>3 DEF LogInv
<1>6. CASE SendGoal \/ StartHand
  <2>1. /\ UNCHANGED <<busy, returnSent>> /\ seq \in {"goal", "hand"}
        /\ r = 0 /\ n = Before(k) /\ k \in 1 .. 5
        /\ (seq = "goal" => k \in {1, 3, 4}) /\ (seq = "hand" => k \in {2, 5})
    BY <1>1, <1>6 DEF SendGoal, StartHand, At, flags, ReturnsInv, PlaceInv, BeforeReturn, CountInv
  <2>2. CASE log' = Append(log, Program[k]) /\ UNCHANGED k /\ ~(DryRun /\ k \in {2, 5})
             /\ seq' \in {"plan", "grip"}
    <3>1. /\ n + 1 \in 0 .. Len(Commanded) /\ n + 1 <= Len(Commanded)
          /\ Commanded[n + 1] = Program[k]
      <4>1. n + 1 \in 1 .. Len(Commanded) /\ Commanded[n + 1] = Program[k]
        BY <2>1, <2>2, CommandedFacts
      <4>2. QED
        BY <1>4, <4>1
    <3>2. log' = Told(n + 1, 0)
      BY <1>1, <2>1, <2>2, <3>1, ToldNext
    <3>3. seq' = "grip" => ~DryRun
      BY <1>6, <2>1, <2>2 DEF SendGoal, StartHand, Finally, At
    <3>4. PlaceInv(n + 1)'
      BY <2>1, <2>2, <3>3 DEF PlaceInv, Before
    <3>5. ReturnsInv(n + 1, 0)'
      BY <1>3, <2>1, <2>2 DEF ReturnsInv
    <3>6. 0 \in 0 .. 1 + MaxSignals
      OBVIOUS
    <3>7. QED
      BY <3>1, <3>2, <3>4, <3>5, <3>6 DEF LogInv
  <2>3. CASE UNCHANGED log /\ Finally
    <3>1. PlaceInv(n)' /\ ReturnsInv(n, r)'
      BY <1>1, <1>2, <1>3, <2>1, <2>3 DEF Finally, PlaceInv, ReturnsInv, BeforeReturn
    <3>2. QED
      BY <1>1, <2>3, <3>1 DEF LogInv
  <2>4. CASE UNCHANGED log /\ NextStep /\ DryRun /\ seq = "hand"
    <3>1. k' = k + 1 /\ seq' = IF k = 5 THEN "check" ELSE "goal"
      BY <2>1, <2>4, NextStepFacts
    <3>2. n = Before(k + 1)
      BY <2>1, <2>4, CommandedFacts
    <3>3. PlaceInv(n)'
      BY <2>1, <3>1, <3>2, CommandedFacts DEF PlaceInv, Before
    <3>4. ReturnsInv(n, r)'
      BY <1>3, <2>1, <3>1 DEF ReturnsInv
    <3>5. QED
      BY <1>1, <2>4, <3>3, <3>4 DEF LogInv
  <2>5. QED
    BY <1>6, <2>1, <2>2, <2>3, <2>4 DEF SendGoal, StartHand, At
<1>7. CASE Moved \/ HandEnds
  <2>1. /\ UNCHANGED <<log, busy, returnSent>> /\ seq \in {"move", "grip"}
        /\ r = 0 /\ n = Before(k) + 1 /\ k \in 1 .. 5
        /\ ~(DryRun /\ k \in {2, 5})
        /\ (seq = "move" => k \in {1, 3, 4}) /\ (seq = "grip" => k \in {2, 5})
    BY <1>1, <1>7 DEF Moved, HandEnds, At, flags, told, ReturnsInv, PlaceInv, BeforeReturn, CountInv
  <2>2. CASE NextStep
    <3>1. k' = k + 1 /\ seq' = IF k = 5 THEN "check" ELSE IF k \in {1, 4} THEN "hand" ELSE "goal"
      BY <2>1, <2>2, NextStepFacts
    <3>2. n = Before(k + 1)
      BY <2>1, CommandedFacts
    <3>3. PlaceInv(n)'
      BY <2>1, <3>1, <3>2, CommandedFacts DEF PlaceInv
    <3>4. ReturnsInv(n, r)'
      BY <1>3, <2>1, <3>1 DEF ReturnsInv
    <3>5. QED
      BY <1>1, <2>1, <3>3, <3>4 DEF LogInv
  <2>3. CASE Finally
    <3>1. PlaceInv(n)' /\ ReturnsInv(n, r)'
      BY <1>1, <1>2, <1>3, <2>1, <2>3 DEF Finally, PlaceInv, ReturnsInv, BeforeReturn
    <3>2. QED
      BY <1>1, <2>1, <3>1 DEF LogInv
  <2>4. QED
    BY <1>7, <2>2, <2>3 DEF Moved, HandEnds
<1>8. CASE SeqPublishReturn
  <2>1. /\ UNCHANGED <<k, busy, returnSent>> /\ seq = "publish" /\ r = 0 /\ k \in {6, 7}
        /\ (n = Len(Commanded) \/ shutdown)
    BY <1>1, <1>8 DEF SeqPublishReturn, At, flags, ReturnsInv, PlaceInv
  <2>2. CASE ok
    <3>1. log' = Append(log, "return") /\ seq' = "mark"
      BY <1>8, <2>2 DEF SeqPublishReturn, SendReturn
    <3>2. 1 \in 0 .. 1 + MaxSignals /\ 0 \in Nat /\ 0 + 1 = 1
      OBVIOUS
    <3>3. log' = Told(n, 1)
      BY <1>1, <2>1, <3>1, <3>2, ToldMore
    <3>4. PlaceInv(n)'
      BY <1>1, <1>2, <2>1, <3>1 DEF PlaceInv
    <3>5. ReturnsInv(n, 1)'
      BY <1>2, <1>3, <2>1, <3>1 DEF ReturnsInv, BeforeReturn
    <3>6. QED
      BY <3>2, <3>3, <3>4, <3>5 DEF LogInv
  <2>3. CASE ~ok
    <3>1. UNCHANGED log /\ seq' \in {"dead", "finally"}
      BY <1>8, <2>3 DEF SeqPublishReturn
    <3>2. PlaceInv(n)' /\ ReturnsInv(n, r)'
      BY <1>3, <2>1, <3>1 DEF PlaceInv, ReturnsInv, BeforeReturn
    <3>3. QED
      BY <1>1, <3>1, <3>2 DEF LogInv
  <2>4. QED
    BY <2>2, <2>3
<1>9. CASE SeqCheckSent \/ SeqMarkSent \/ RampWaited
  <2>1. UNCHANGED <<log, k, busy>> /\ (returnSent' = TRUE \/ returnSent' = returnSent)
    BY <1>9 DEF SeqCheckSent, SeqMarkSent, MarkReturn, RampWaited, flags, told
  <2>2. PlaceInv(n)'
    BY <1>0, <1>1, <1>2, <1>9, <2>1, ProgramFacts
       DEF SeqCheckSent, SeqMarkSent, RampWaited, At, Last, PlaceInv
  <2>3. ReturnsInv(n, r)'
    BY <1>0, <1>1, <1>2, <1>3, <1>9, <2>1
       DEF SeqCheckSent, SeqMarkSent, MarkReturn, RampWaited, At, ReturnsInv, BeforeReturn, flags
  <2>4. QED
    BY <1>1, <2>1, <2>2, <2>3 DEF LogInv
<1>10. CASE ClearBusy
  <2>1. UNCHANGED <<log, k, returnSent>> /\ seq = "clear" /\ seq' = "none"
    BY <1>10 DEF ClearBusy, At, told
  <2>2. r = 0 \/ (r = 1 /\ returnSent)
    BY <1>1, <2>1 DEF ReturnsInv
  <2>3. PlaceInv(n)' /\ ReturnsInv(n, r)'
    BY <1>1, <1>2, <2>1, <2>2 DEF PlaceInv, ReturnsInv, BeforeReturn
  <2>4. QED
    BY <1>1, <2>1, <2>3 DEF LogInv
<1>11. QED
  BY <1>5, <1>6, <1>7, <1>8, <1>9, <1>10 DEF SequenceThread

LEMMA LogStep ==
  ASSUME TypeOK, StackInv, BusyInv, ReturnInv, CountInv, RequestInv, LogInv,
         StackInv', stack' \in Seq(Frames), Len(stack') >= 1, Next
  PROVE  LogInv'
<1>1. CASE MainThread \/ Signal \/ KeyPressed
  BY <1>1, MainLog
<1>2. CASE SequenceThread
  BY <1>2, SequenceLog
<1>3. CASE TargetAges \/ Planner \/ TargetCb \/ TrajCb
  <2>1. UNCHANGED <<log, seq, k, signals, shutdown, returnSent, ok, busy, stack>>
    BY <1>3 DEF TargetAges, Planner, TargetCb, TrajCb, told, flags, counts
  <2>2. QED
    BY <2>1 DEF LogInv, PlaceInv, ReturnsInv, Top
<1>4. QED
  BY <1>1, <1>2, <1>3 DEF Next, Inputs

LEMMA InitIInv == Init => IInv
<1> SUFFICES ASSUME Init PROVE IInv
  OBVIOUS
<1> USE PressAssumption DEF PressAssumption
<1>1. stack \in Seq(Frames) /\ Len(stack) = 1 /\ stack[1] = "spin"
  <2>1. "spin" \in Frames
    BY DEF Frames, Spinning
  <2>2. QED
    BY <2>1 DEF Init
<1>2. TypeOK
  <2>1. \A S : <<>> \in Seq(S)
    BY EmptySeq
  <2>2. 1 \in 1 .. 1 + MaxSignals /\ 0 \in 0 .. 3 * MaxPresses
        /\ 0 \in 0 .. MaxPresses /\ 0 \in 0 .. MaxSignals
    OBVIOUS
  <2>3. k \in 1 .. Len(Program) + 2
    BY ProgramFacts DEF Init
  <2>4. /\ seq \in Places /\ target \in Ages
        /\ busy \in BOOLEAN /\ shutdown \in BOOLEAN /\ returnSent \in BOOLEAN
        /\ ok \in BOOLEAN /\ targetEvent \in BOOLEAN /\ trajEvent \in BOOLEAN
        /\ armOut \in BOOLEAN /\ caught \in BOOLEAN
    BY Zenon DEF Init, Places, Ages
  <2>5. /\ sent \in 0 .. 3 * MaxPresses /\ givenUp \in 0 .. sent /\ plan \in 0 .. sent
        /\ presses \in 0 .. MaxPresses /\ signals \in 0 .. MaxSignals
    BY <2>2 DEF Init
  <2>6. /\ goals \in Seq(1 .. sent) /\ trajs \in Seq(0 .. sent)
        /\ log \in Seq({"pre", "extend", "press", "retreat", "close", "return"})
    BY <2>1 DEF Init
  <2>7. QED
    BY <1>1, <2>2, <2>3, <2>4, <2>5, <2>6 DEF TypeOK
<1>3. StackInv /\ BusyInv /\ ReturnInv /\ CaughtInv /\ CountInv
  BY <1>1 DEF Init, StackInv, BusyInv, ReturnInv, CaughtInv, CountInv, Ended, BeforeReturn
<1>4. OrderInv /\ LagInv
  BY DEF Init, OrderInv, TrajsAhead, TrajsInOrder, GoalsAhead, GoalsLast, GoalsInOrder, LagInv
<1>5. RequestInv
  BY <1>1 DEF Init, RequestInv, Top, Spinning, Request
<1>6. LogInv
  <2>1. log = Told(0, 0) /\ 0 \in 0 .. Len(Commanded) /\ 0 \in 0 .. 1 + MaxSignals
    BY ToldNone, CommandedLength DEF Init
  <2>2. PlaceInv(0) /\ ReturnsInv(0, 0)
    BY DEF Init, PlaceInv, ReturnsInv, BeforeReturn
  <2>3. QED
    BY <2>1, <2>2 DEF LogInv
<1>7. QED
  BY <1>2, <1>3, <1>4, <1>5, <1>6 DEF IInv

LEMMA InductiveStep == IInv /\ [Next]_vars => IInv'
<1> SUFFICES ASSUME IInv, [Next]_vars PROVE IInv'
  OBVIOUS
<1>1. CASE Next
  <2>1. /\ stack' \in Seq(Frames) /\ Len(stack') \in 1 .. 1 + MaxSignals
        /\ StackInv'
    BY <1>1, StackStep DEF IInv
  <2>2. /\ CountInv' /\ seq' \in Places /\ k' \in 1 .. 7
        /\ sent' \in 0 .. 3 * MaxPresses /\ presses' \in 0 .. MaxPresses
    BY <1>1, CountStep DEF IInv
  <2>3. HandshakeInv'
    <3>1. Len(stack') >= 1
      BY <2>1
    <3>2. MainThread \/ Signal \/ KeyPressed => HandshakeInv'
      BY <2>1, <3>1, MainHandshake DEF IInv, HandshakeInv
    <3>3. SequenceThread \/ TargetAges \/ Planner \/ TargetCb \/ TrajCb => HandshakeInv'
      BY SequenceHandshake DEF IInv, HandshakeInv
    <3>4. QED
      BY <1>1, <3>2, <3>3 DEF Next, Inputs
  <2>4. /\ OrderInv' /\ LagInv'
        /\ trajEvent' \in BOOLEAN /\ plan' \in 0 .. sent'
        /\ goals' \in Seq(1 .. sent') /\ trajs' \in Seq(0 .. sent')
        /\ givenUp' \in 0 .. sent'
    BY <1>1, OrderStep DEF IInv
  <2>5. /\ busy' \in BOOLEAN /\ shutdown' \in BOOLEAN /\ returnSent' \in BOOLEAN
        /\ ok' \in BOOLEAN /\ armOut' \in BOOLEAN /\ caught' \in BOOLEAN
        /\ target' \in Ages /\ targetEvent' \in BOOLEAN
        /\ log' \in Seq({"pre", "extend", "press", "retreat", "close", "return"})
        /\ signals' \in 0 .. MaxSignals
    BY <1>1, RestTyped DEF IInv
  <2>6. TypeOK'
    BY <2>1, <2>2, <2>4, <2>5, ProgramFacts DEF TypeOK
  <2>7. Len(stack') >= 1
    BY <2>1
  <2>8. RequestInv' /\ LogInv'
    BY <1>1, <2>1, <2>7, RequestStep, LogStep DEF IInv
  <2>9. QED
    BY <2>1, <2>2, <2>3, <2>4, <2>6, <2>8 DEF IInv, HandshakeInv
<1>2. CASE UNCHANGED vars
  BY <1>2 DEF IInv, RequestInv, LogInv, PlaceInv, ReturnsInv, Top, TypeOK, StackInv, BusyInv, ReturnInv, CaughtInv, CountInv, OrderInv,
     TrajsAhead, TrajsInOrder, GoalsAhead, GoalsLast, GoalsInOrder, LagInv, Ended,
     vars, flags, camera, reply, wire, told, counts
<1>3. QED
  BY <1>1, <1>2

\* IInv is an invariant of the node.
THEOREM Inductive == SafetySpec => []IInv
BY InitIInv, InductiveStep, PTL DEF SafetySpec

\* Every variable of the node keeps its type; in particular a sequence sends no
\* more than three goals and no frame is left on the main thread's stack.
THEOREM TypeCorrect == SafetySpec => []TypeOK
<1>1. IInv => TypeOK
  BY DEF IInv
<1>2. QED
  BY <1>1, Inductive, PTL

\* _start_sequence launches a thread only when there is none, whatever the
\* exceptions and signals before.
THEOREM OneSequenceOnly == SafetySpec => []OneSequence
<1>1. IInv => OneSequence
  <2>1. IInv /\ Top \in {"unmark", "launch"} => stack[1] = Top
    BY TopFacts, EmptySeq DEF IInv, TypeOK, Top
  <2>2. QED
    BY <2>1 DEF IInv, BusyInv, OneSequence
<1>2. QED
  BY <1>1, Inductive, PTL

\* _send_goal_and_wait times a motion that lags behind its goal by no more than
\* the number of waits that were given up.
THEOREM PlansLagByMisses == SafetySpec => []OwnPlan
<1>1. IInv => OwnPlan
  BY DEF IInv, TypeOK, LagInv, OwnPlan
<1>2. QED
  BY <1>1, Inductive, PTL

\* request_shutdown brings the arm back unless it meets a sequence.
THEOREM IdleShutdownReturns == SafetySpec => []AbandonedOnlyInSequence
<1>1. IInv => AbandonedOnlyInSequence
  BY DEF IInv, CaughtInv, AbandonedOnlyInSequence
<1>2. QED
  BY <1>1, Inductive, PTL

\* What a sequence commands is a beginning of the program, and the return to
\* standing follows it: once, or at most once for each signal, when one finds
\* another's handler between publishing the return and marking it.
THEOREM CommandsInOrder == SafetySpec => []OrderlySequence
<1>1. IInv => OrderlySequence
  BY DEF IInv, LogInv, ReturnsInv, Told, OrderlySequence
<1>2. QED
  BY <1>1, Inductive, PTL
=============================================================================
