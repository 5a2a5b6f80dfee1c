------------------------------ MODULE ArmsProofs ------------------------------
(***************************************************************************)
(* The safety of the programs that command arms and hand directly, for     *)
(* every number of poses, steps and runs: runs of the set-point script join *)
(* (RunsMeet), a grip is held (GripHolds), authority is given back         *)
(* (GivesBack), and a locked arm keeps its pose (KeepsPose).               *)
(*                                                                         *)
(* The parts share no variable, and each has its own invariant, with a lemma *)
(* for its steps; a step of another part leaves it alone.                  *)
(***************************************************************************)
EXTENDS Arms, TLAPS

Finishing == {"open", "dump", "done"}

Scripts == [at : {"none", "check", "step", "write", "hold"} \cup Finishing,
            pose : Int, goal : Int, back : BOOLEAN, first : BOOLEAN, ramps : BOOLEAN]
Writers == [at : {"idle", "took"}, got : Int]

HandType ==
  /\ script \in Scripts /\ writer \in Writers
  /\ file \in Int /\ buffer \in Int /\ hand \in Int
  /\ swept \in BOOLEAN /\ unsaved \in BOOLEAN /\ kept \in Int

Fields ==
  /\ script.at \in {"none", "check", "step", "write", "hold"} \cup Finishing
  /\ script.pose \in Int /\ script.goal \in Int /\ script.first \in BOOLEAN
  /\ script.ramps \in BOOLEAN
  /\ writer.at \in {"idle", "took"} /\ writer.got \in Int
  /\ file \in Int /\ buffer \in Int /\ hand \in Int
  /\ swept \in BOOLEAN /\ unsaved \in BOOLEAN /\ kept \in Int

\* What the hand was left with, the next run starts from, if it was saved.
LeftAsSaved == ~unsaved /\ hand # NoPose => hand = LoadPose

\* The file holds nothing but what the hand held when a run saved.
OnlyKept == file \in {NoPose, kept}

\* Nothing was commanded yet.
Unstarted ==
  script.at \in {"none", "check"} \/ (script.at = "step" /\ script.first) =>
    /\ buffer = NoPose /\ writer.at = "idle" /\ ~swept /\ LeftAsSaved
    /\ script.at # "none" => script.pose = LoadPose /\ script.first

Started == script.at \in {"write", "hold"} \cup Finishing \/ (script.at = "step" /\ ~script.first)

\* The recurrent thread holds a command of the ramp under way, or the goal at its end.
Ramps ==
  /\ Started => buffer = script.pose
  /\ writer.at = "took" /\ writer.got = script.goal => script.pose = script.goal

AtGoal ==
  /\ script.pose = script.goal /\ buffer = script.goal /\ hand = script.goal
  /\ writer.at = "took" => writer.got = script.goal

\* Only a whole pass of the recurrent thread at the goal ends the hold.
Settled ==
  /\ swept \/ script.at \in Finishing => AtGoal
  /\ swept => Started
  /\ script.at = "done" /\ ~unsaved => file = script.goal

FirstCommand ==
  /\ script.first => script.at \in {"check", "step", "write"}
  /\ script.at = "write" /\ script.first => (writer.at = "took" => writer.got = buffer)
  /\ script.at = "write" /\ script.first /\ script.ramps =>
       /\ ~unsaved /\ hand # NoPose => (buffer - hand) \in {-1, 0, 1}
       /\ (buffer - Base) \in {-1, 0, 1} \/ (buffer - kept) \in {-1, 0, 1}

HandInv == HandType /\ Unstarted /\ OnlyKept /\ Ramps /\ Settled /\ FirstCommand

LEMMA InitHand == ASSUME HandInit PROVE HandInv
<1> USE DEF NoPose, Base
<1>1. /\ script.at = "none" /\ script.first = FALSE /\ writer.at = "idle"
      /\ buffer = NoPose /\ hand = NoPose /\ file = NoPose /\ ~swept
  BY DEF HandInit, IdleScript, IdleWriter
<1>2. HandType
  <2>1. script \in Scripts
    BY DEF HandInit, Scripts, IdleScript, Finishing
  <2>2. writer \in Writers
    BY DEF HandInit, Writers, IdleWriter
  <2>3. file \in Int /\ buffer \in Int /\ hand \in Int
    BY DEF HandInit
  <2>4. swept \in BOOLEAN
    BY DEF HandInit
  <2>5. unsaved \in BOOLEAN
    BY DEF HandInit
  <2>6. kept \in Int
    BY DEF HandInit
  <2> QED BY <2>1, <2>2, <2>3, <2>4, <2>5, <2>6 DEF HandType
<1> QED BY <1>1, <1>2 DEF HandInv, Unstarted, OnlyKept, Ramps, Settled, FirstCommand, LeftAsSaved,
           Started, Finishing

LEMMA HandStep ==
  ASSUME HandInv, HandNext \/ UNCHANGED handVars
  PROVE  HandInv'
<1> USE DEF NoPose, Base
<1> USE DEF HandInv
<1>0. Fields
  BY DEF HandType, Scripts, Writers, Fields
<1>1. CASE Launch
  <2>1. /\ script.at = "none" /\ script'.at = "check" /\ script'.pose = LoadPose /\ script'.first
        /\ UNCHANGED <<file, buffer, writer, swept, hand, kept, unsaved>>
    BY <1>1, HandAssumption DEF Launch, HandAssumption, LoadPose, HandType, Scripts
  <2>2. HandType'
    <3>1. script' \in Scripts
      BY <1>1, HandAssumption DEF Launch, HandAssumption, LoadPose, HandType, Scripts, Finishing
    <3>2. writer' \in Writers
      BY <1>1 DEF Launch, HandAssumption, LoadPose, HandType, Writers
    <3>3. file' \in Int /\ buffer' \in Int /\ hand' \in Int
      BY <1>0, <1>1, <2>1, HandAssumption DEF Launch, HandAssumption, LoadPose, HandType, Fields
    <3>4. swept' \in BOOLEAN /\ unsaved' \in BOOLEAN /\ kept' \in Int
      BY <1>0, <1>1, <2>1 DEF Launch, HandAssumption, LoadPose, Fields
    <3> QED BY <3>1, <3>2, <3>3, <3>4 DEF HandType
  <2> QED BY <1>0, <2>1, <2>2 DEF Unstarted, OnlyKept, Ramps, Settled, AtGoal,
             FirstCommand, LeftAsSaved, LoadPose, Started, Finishing
<1>2. CASE SelfCheckFails
  <2>1. /\ script.at = "check" /\ script'.at = "none" /\ ~script'.first /\ script'.goal = 0
        /\ buffer' = NoPose /\ writer'.at = "idle" /\ ~swept'
        /\ UNCHANGED <<file, hand, kept, unsaved>>
    BY <1>2 DEF SelfCheckFails, Exit, IdleScript, IdleWriter, HandType, Scripts
  <2>2. HandType'
    <3>1. script' \in Scripts
      BY <1>2 DEF SelfCheckFails, Exit, IdleScript, IdleWriter, HandType, Scripts, Finishing
    <3>2. writer' \in Writers
      BY <1>2 DEF SelfCheckFails, Exit, IdleScript, IdleWriter, HandType, Writers
    <3>3. file' \in Int /\ buffer' \in Int /\ hand' \in Int
      BY <1>0, <1>2, <2>1 DEF SelfCheckFails, Exit, IdleScript, IdleWriter, HandType, Fields
    <3>4. swept' \in BOOLEAN /\ unsaved' \in BOOLEAN /\ kept' \in Int
      BY <1>0, <1>2, <2>1 DEF SelfCheckFails, Exit, IdleScript, IdleWriter, Fields
    <3> QED BY <3>1, <3>2, <3>3, <3>4 DEF HandType
  <2> QED BY <1>0, <2>1, <2>2 DEF Unstarted, OnlyKept, Ramps, Settled, AtGoal,
             FirstCommand, LeftAsSaved, LoadPose, Started, Finishing
<1>3. CASE SelfCheckPasses
  <2>1. /\ script.at = "check" /\ script'.at = "step" /\ script'.pose = script.pose
        /\ script'.goal = script.goal /\ script'.first = script.first
        /\ script'.ramps = script.ramps
        /\ UNCHANGED <<file, buffer, writer, swept, hand, kept, unsaved>>
    BY <1>3 DEF SelfCheckPasses, HandType, Scripts
  <2>2. HandType'
    <3>1. script' \in Scripts
      BY <1>3 DEF SelfCheckPasses, HandType, Scripts, Finishing
    <3>2. writer' \in Writers
      BY <1>3 DEF SelfCheckPasses, HandType, Writers
    <3>3. file' \in Int /\ buffer' \in Int /\ hand' \in Int
      BY <1>0, <1>3, <2>1 DEF SelfCheckPasses, HandType, Fields
    <3>4. swept' \in BOOLEAN /\ unsaved' \in BOOLEAN /\ kept' \in Int
      BY <1>0, <1>3, <2>1 DEF SelfCheckPasses, Fields
    <3> QED BY <3>1, <3>2, <3>3, <3>4 DEF HandType
  <2> QED BY <1>0, <2>1, <2>2 DEF Unstarted, OnlyKept, Ramps, Settled, AtGoal,
             FirstCommand, LeftAsSaved, LoadPose, Started, Finishing
<1>4. CASE StepHands
  <2>1. /\ script.at = "step" /\ script'.at = "write" /\ script'.goal = script.goal
        /\ script'.first = script.first /\ buffer' = script'.pose
        /\ script'.ramps = script.ramps
        /\ script.ramps => (script'.pose - script.pose) \in {-1, 0, 1}
        /\ (script.pose = script.goal => script'.pose = script.goal)
        /\ swept' = (swept /\ script.pose = script.goal)
        /\ UNCHANGED <<file, writer, hand, kept, unsaved>>
    BY <1>4 DEF StepHands, Toward1, HandType, Scripts
  <2>2. HandType'
    <3>1. script' \in Scripts
      <4> DEFINE p == IF script.ramps THEN Toward1(script.pose, script.goal) ELSE script.goal
      <4>1. script' = [script EXCEPT !.at = "write", !.pose = p]
        BY <1>4 DEF StepHands
      <4>2. p \in Int
        BY <1>0 DEF Toward1, Fields
      <4> HIDE DEF p
      <4> QED BY <4>1, <4>2 DEF HandType, Scripts
    <3>2. writer' \in Writers
      BY <1>4 DEF StepHands, Toward1, HandType, Writers
    <3>3. file' \in Int /\ buffer' \in Int /\ hand' \in Int
      BY <1>0, <1>4, <2>1 DEF StepHands, Toward1, HandType, Fields
    <3>4. swept' \in BOOLEAN /\ unsaved' \in BOOLEAN /\ kept' \in Int
      BY <1>0, <1>4, <2>1 DEF StepHands, Toward1, Fields
    <3> QED BY <3>1, <3>2, <3>3, <3>4 DEF HandType
  <2> QED BY <1>0, <2>1, <2>2 DEF Unstarted, OnlyKept, Ramps, Settled, AtGoal,
             FirstCommand, LeftAsSaved, LoadPose, Started, Finishing
<1>5. CASE WriteHands
  <2>1. /\ script.at = "write" /\ hand' = buffer /\ script'.pose = script.pose
        /\ script'.goal = script.goal /\ ~script'.first
        /\ script'.at = IF script.pose = script.goal THEN "hold" ELSE "step"
        /\ UNCHANGED <<file, buffer, writer, swept, kept, unsaved>>
    BY <1>5 DEF WriteHands, HandType, Scripts
  <2>2. HandType'
    <3>1. script' \in Scripts
      BY <1>5 DEF WriteHands, HandType, Scripts, Finishing
    <3>2. writer' \in Writers
      BY <1>5 DEF WriteHands, HandType, Writers
    <3>3. file' \in Int /\ buffer' \in Int /\ hand' \in Int
      BY <1>0, <1>5, <2>1 DEF WriteHands, HandType, Fields
    <3>4. swept' \in BOOLEAN /\ unsaved' \in BOOLEAN /\ kept' \in Int
      BY <1>0, <1>5, <2>1 DEF WriteHands, Fields
    <3> QED BY <3>1, <3>2, <3>3, <3>4 DEF HandType
  <2> QED BY <1>0, <2>1, <2>2 DEF Unstarted, OnlyKept, Ramps, Settled, AtGoal,
             FirstCommand, LeftAsSaved, LoadPose, Started, Finishing
<1>6. CASE HoldOn
  <2>1. /\ script.at = "hold" /\ ~swept /\ script'.at = "step" /\ script'.pose = script.pose
        /\ script'.goal = script.goal /\ script'.first = script.first
        /\ UNCHANGED <<file, buffer, writer, swept, hand, kept, unsaved>>
    BY <1>6 DEF HoldOn, HandType, Scripts
  <2>2. HandType'
    <3>1. script' \in Scripts
      BY <1>6 DEF HoldOn, HandType, Scripts, Finishing
    <3>2. writer' \in Writers
      BY <1>6 DEF HoldOn, HandType, Writers
    <3>3. file' \in Int /\ buffer' \in Int /\ hand' \in Int
      BY <1>0, <1>6, <2>1 DEF HoldOn, HandType, Fields
    <3>4. swept' \in BOOLEAN /\ unsaved' \in BOOLEAN /\ kept' \in Int
      BY <1>0, <1>6, <2>1 DEF HoldOn, Fields
    <3> QED BY <3>1, <3>2, <3>3, <3>4 DEF HandType
  <2> QED BY <1>0, <2>1, <2>2 DEF Unstarted, OnlyKept, Ramps, Settled, AtGoal,
             FirstCommand, LeftAsSaved, LoadPose, Started, Finishing
<1>7. CASE Held
  <2>1. /\ script.at = "hold" /\ swept /\ ~swept' /\ script'.pose = script.pose
        /\ script'.first = script.first
        /\ \/ script'.at = "step"
           \/ script'.at = "open" /\ script'.goal = script.goal
        /\ UNCHANGED <<file, buffer, writer, hand, kept, unsaved>>
    BY <1>7 DEF Held, HandType, Scripts
  <2>2. HandType'
    <3>1. script' \in Scripts
      <4>1. \/ script' = [script EXCEPT !.at = "step", !.goal = 0, !.back = FALSE]
            \/ script' = [script EXCEPT !.at = "open"]
        BY <1>7 DEF Held
      <4>2. CASE script' = [script EXCEPT !.at = "step", !.goal = 0, !.back = FALSE]
        <5>1. script' = [at |-> "step", pose |-> script.pose, goal |-> 0, back |-> FALSE,
                         first |-> script.first, ramps |-> script.ramps]
          BY <4>2 DEF HandType, Scripts
        <5> QED BY <1>0, <5>1 DEF Scripts, Fields
      <4>3. CASE script' = [script EXCEPT !.at = "open"]
        BY <4>3 DEF HandType, Scripts, Finishing
      <4> QED BY <4>1, <4>2, <4>3
    <3>2. writer' \in Writers
      BY <1>7 DEF Held, HandType, Writers
    <3>3. file' \in Int /\ buffer' \in Int /\ hand' \in Int
      BY <1>0, <1>7, <2>1 DEF Held, HandType, Fields
    <3>4. swept' \in BOOLEAN /\ unsaved' \in BOOLEAN /\ kept' \in Int
      BY <1>0, <1>7, <2>1 DEF Held, Fields
    <3> QED BY <3>1, <3>2, <3>3, <3>4 DEF HandType
  <2> QED BY <1>0, <2>1, <2>2 DEF Unstarted, OnlyKept, Ramps, Settled, AtGoal,
             FirstCommand, LeftAsSaved, LoadPose, Started, Finishing
<1>8. CASE OpenFile
  <2>1. /\ script.at = "open" /\ script'.at = "dump" /\ script'.pose = script.pose
        /\ script'.goal = script.goal /\ script'.first = script.first /\ file' = NoPose
        /\ UNCHANGED <<buffer, writer, swept, hand, kept, unsaved>>
    BY <1>8 DEF OpenFile, HandType, Scripts
  <2>2. HandType'
    <3>1. script' \in Scripts
      BY <1>8 DEF OpenFile, HandType, Scripts, Finishing
    <3>2. writer' \in Writers
      BY <1>8 DEF OpenFile, HandType, Writers
    <3>3. file' \in Int /\ buffer' \in Int /\ hand' \in Int
      BY <1>0, <1>8, <2>1 DEF OpenFile, HandType, Fields
    <3>4. swept' \in BOOLEAN /\ unsaved' \in BOOLEAN /\ kept' \in Int
      BY <1>0, <1>8, <2>1 DEF OpenFile, Fields
    <3> QED BY <3>1, <3>2, <3>3, <3>4 DEF HandType
  <2> QED BY <1>0, <2>1, <2>2 DEF Unstarted, OnlyKept, Ramps, Settled, AtGoal,
             FirstCommand, LeftAsSaved, LoadPose, Started, Finishing
<1>9. CASE DumpPose
  <2>1. /\ script.at = "dump" /\ script'.at = "done" /\ script'.pose = script.pose
        /\ script'.goal = script.goal /\ script'.first = script.first /\ file' = script.goal
        /\ kept' = hand /\ ~unsaved' /\ UNCHANGED <<buffer, writer, swept, hand>>
    BY <1>9 DEF DumpPose, SavedPose, HandType, Scripts
  <2>2. HandType'
    <3>1. script' \in Scripts
      BY <1>9 DEF DumpPose, SavedPose, HandType, Scripts, Finishing
    <3>2. writer' \in Writers
      BY <1>9 DEF DumpPose, SavedPose, HandType, Writers
    <3>3. file' \in Int /\ buffer' \in Int /\ hand' \in Int
      BY <1>0, <1>9, <2>1 DEF DumpPose, SavedPose, HandType, Fields
    <3>4. swept' \in BOOLEAN /\ unsaved' \in BOOLEAN /\ kept' \in Int
      BY <1>0, <1>9, <2>1 DEF DumpPose, SavedPose, Fields
    <3> QED BY <3>1, <3>2, <3>3, <3>4 DEF HandType
  <2> QED BY <1>0, <2>1, <2>2 DEF Unstarted, OnlyKept, Ramps, Settled, AtGoal,
             FirstCommand, LeftAsSaved, LoadPose, Started, Finishing
<1>s. CASE SaveFails
  <2>1. /\ script.at \in {"open", "dump"} /\ script'.at = "done" /\ script'.pose = script.pose
        /\ script'.goal = script.goal /\ script'.first = script.first /\ unsaved'
        /\ UNCHANGED <<file, buffer, writer, swept, hand, kept>>
    BY <1>s DEF SaveFails, HandType, Scripts
  <2>2. HandType'
    <3>1. script' \in Scripts
      BY <1>s DEF SaveFails, HandType, Scripts, Finishing
    <3>2. writer' \in Writers
      BY <1>s DEF SaveFails, HandType, Writers
    <3>3. file' \in Int /\ buffer' \in Int /\ hand' \in Int
      BY <1>0, <2>1 DEF Fields
    <3>4. swept' \in BOOLEAN /\ unsaved' \in BOOLEAN /\ kept' \in Int
      BY <1>0, <1>s, <2>1 DEF SaveFails, Fields
    <3> QED BY <3>1, <3>2, <3>3, <3>4 DEF HandType
  <2> QED BY <1>0, <2>1, <2>2 DEF Unstarted, OnlyKept, Ramps, Settled, AtGoal,
             FirstCommand, LeftAsSaved, LoadPose, Started, Finishing
<1>10. CASE Done
  <2>1. /\ script.at = "done" /\ script'.at = "none" /\ ~script'.first
        /\ buffer' = NoPose /\ writer'.at = "idle" /\ ~swept'
        /\ UNCHANGED <<file, hand, kept, unsaved>>
    BY <1>10 DEF Done, Exit, IdleScript, IdleWriter, HandType, Scripts
  <2>2. HandType'
    <3>1. script' \in Scripts
      BY <1>10 DEF Done, Exit, IdleScript, IdleWriter, HandType, Scripts, Finishing
    <3>2. writer' \in Writers
      BY <1>10 DEF Done, Exit, IdleScript, IdleWriter, HandType, Writers
    <3>3. file' \in Int /\ buffer' \in Int /\ hand' \in Int
      BY <1>0, <1>10, <2>1 DEF Done, Exit, IdleScript, IdleWriter, HandType, Fields
    <3>4. swept' \in BOOLEAN /\ unsaved' \in BOOLEAN /\ kept' \in Int
      BY <1>0, <1>10, <2>1 DEF Done, Exit, IdleScript, IdleWriter, Fields
    <3> QED BY <3>1, <3>2, <3>3, <3>4 DEF HandType
  <2> QED BY <1>0, <2>1, <2>2 DEF Unstarted, OnlyKept, Ramps, Settled, AtGoal,
             FirstCommand, LeftAsSaved, LoadPose, Started, Finishing
<1>11. CASE Kill
  <2>1. /\ script.at \notin {"none", "done"} /\ unsaved' = (unsaved \/ script.at # "check")
        /\ script'.at = "none" /\ ~script'.first
        /\ buffer' = NoPose /\ writer'.at = "idle" /\ ~swept'
        /\ UNCHANGED <<file, hand, kept>>
    BY <1>11 DEF Kill, Commanding, Exit, IdleScript, IdleWriter, HandType, Scripts
  <2>2. HandType'
    <3>1. script' \in Scripts
      BY <1>11 DEF Kill, Commanding, Exit, IdleScript, IdleWriter, HandType, Scripts, Finishing
    <3>2. writer' \in Writers
      BY <1>11 DEF Kill, Commanding, Exit, IdleScript, IdleWriter, HandType, Writers
    <3>3. file' \in Int /\ buffer' \in Int /\ hand' \in Int
      BY <1>0, <1>11, <2>1 DEF Kill, Commanding, Exit, IdleScript, IdleWriter, HandType, Fields
    <3>4. swept' \in BOOLEAN /\ unsaved' \in BOOLEAN /\ kept' \in Int
      BY <1>0, <1>11, <2>1 DEF Kill, Commanding, Exit, IdleScript, IdleWriter, Fields
    <3> QED BY <3>1, <3>2, <3>3, <3>4 DEF HandType
  <2> QED BY <1>0, <2>1, <2>2 DEF Unstarted, OnlyKept, Ramps, Settled, AtGoal,
             FirstCommand, LeftAsSaved, LoadPose, Started, Finishing
<1>12. CASE TakeCommand
  <2>1. /\ script.at # "none" /\ writer.at = "idle" /\ buffer # NoPose
        /\ writer'.at = "took" /\ writer'.got = buffer
        /\ UNCHANGED <<file, script, buffer, swept, hand, kept, unsaved>>
    BY <1>12 DEF TakeCommand, TakeBuffer, HandType, Scripts
  <2>2. HandType'
    <3>1. script' \in Scripts
      BY <1>12 DEF TakeCommand, TakeBuffer, HandType, Scripts, Finishing
    <3>2. writer' \in Writers
      BY <1>12 DEF TakeCommand, TakeBuffer, HandType, Writers
    <3>3. file' \in Int /\ buffer' \in Int /\ hand' \in Int
      BY <1>0, <1>12, <2>1 DEF TakeCommand, TakeBuffer, HandType, Fields
    <3>4. swept' \in BOOLEAN /\ unsaved' \in BOOLEAN /\ kept' \in Int
      BY <1>0, <1>12, <2>1 DEF TakeCommand, TakeBuffer, Fields
    <3> QED BY <3>1, <3>2, <3>3, <3>4 DEF HandType
  <2>3. Unstarted' /\ OnlyKept'
    BY <1>0, <2>1 DEF Unstarted, OnlyKept, Settled, AtGoal, FirstCommand, LeftAsSaved, LoadPose, Started,
       Finishing
  <2>4. Ramps'
    <3>1. Started
      BY <1>0, <2>1 DEF Fields, Unstarted, Started
    <3>2. buffer = script.pose
      BY <3>1 DEF Ramps
    <3> QED BY <2>1, <3>1, <3>2 DEF Ramps, Started
  <2>5. Settled'
    BY <1>0, <2>1 DEF Unstarted, Ramps, Settled, AtGoal, Started, Finishing
  <2>6. FirstCommand'
    BY <1>0, <2>1 DEF Unstarted, Ramps, FirstCommand, LeftAsSaved, Started, Finishing
  <2> QED BY <2>2, <2>3, <2>4, <2>5, <2>6
<1>13. CASE WriteCommand
  <2>1. /\ writer.at = "took" /\ writer'.at = "idle" /\ hand' = writer.got
        /\ (swept' => writer.got = script.goal)
        /\ UNCHANGED <<file, script, buffer, kept, unsaved>>
    BY <1>13 DEF WriteCommand, WriteTaken, IdleWriter, HandType, Scripts
  <2>2. HandType'
    <3>1. script' \in Scripts
      BY <1>13 DEF WriteCommand, WriteTaken, IdleWriter, HandType, Scripts, Finishing
    <3>2. writer' \in Writers
      BY <1>13 DEF WriteCommand, WriteTaken, IdleWriter, HandType, Writers
    <3>3. file' \in Int /\ buffer' \in Int /\ hand' \in Int
      BY <1>0, <1>13, <2>1 DEF WriteCommand, WriteTaken, IdleWriter, HandType, Fields
    <3>4. swept' \in BOOLEAN /\ unsaved' \in BOOLEAN /\ kept' \in Int
      BY <1>0, <1>13, <2>1 DEF WriteCommand, WriteTaken, IdleWriter, Fields
    <3> QED BY <3>1, <3>2, <3>3, <3>4 DEF HandType
  <2>3. Unstarted' /\ OnlyKept'
    BY <1>0, <2>1 DEF Unstarted, OnlyKept, Settled, AtGoal, FirstCommand, LeftAsSaved, LoadPose, Started,
       Finishing
  <2>4. Ramps'
    BY <1>0, <2>1 DEF Unstarted, Ramps, Settled, AtGoal, Started, Finishing
  <2>5. Settled'
    <3>1. Started /\ buffer = script.pose /\ (writer.got = script.goal => script.pose = script.goal)
      BY <1>0, <2>1 DEF Fields, Unstarted, Ramps, Started
    <3>2. swept' => AtGoal'
      BY <2>1, <3>1 DEF AtGoal
    <3>3. script.at \in Finishing => AtGoal'
      BY <2>1 DEF Settled, AtGoal
    <3> QED BY <2>1, <3>1, <3>2, <3>3 DEF Settled, Started
  <2>6. FirstCommand'
    <3>1. script.at = "write" /\ script.first => hand' = buffer
      BY <2>1 DEF FirstCommand
    <3>2. buffer \in Int /\ buffer - buffer = 0
      BY <1>0 DEF Fields
    <3> QED BY <2>1, <3>1, <3>2 DEF FirstCommand
  <2> QED BY <2>2, <2>3, <2>4, <2>5, <2>6
<1>14. CASE UNCHANGED handVars
  <2>1. HandType' /\ Unstarted' /\ OnlyKept'
    BY <1>14 DEF handVars, HandType, Unstarted, OnlyKept, LeftAsSaved, LoadPose
  <2>2. Ramps' /\ Settled' /\ FirstCommand'
    BY <1>14 DEF handVars, Ramps, Settled, AtGoal, FirstCommand, Started
  <2> QED BY <2>1, <2>2
<1> QED BY <1>1, <1>2, <1>3, <1>4, <1>5, <1>6, <1>7, <1>8, <1>9, <1>s, <1>10, <1>11, <1>12,
   <1>13, <1>14
    DEF HandNext

\* The first command of a run that ramps is at most a ramp step from the last of
\* the run before, whichever thread wrote that one (control_dex3_right_setpoint.py
\* with the binding); or, if that run was killed while it commanded the hand or
\* could not save its pose, from the base pose or from where a run last saved.
THEOREM RunsMeet == Spec => []RunsJoin
<1> DEFINE Joined == IF part = "grasp" THEN ~script.first ELSE HandInv
<1>1. Init => Joined
  <2>1. Init => HandInit
    BY DEF Init
  <2>2. HandInit => ~script.first
    BY DEF HandInit, IdleScript
  <2> QED BY <2>1, <2>2, InitHand
<1>2. Joined /\ [Next]_vars => Joined'
  <2> SUFFICES ASSUME Joined, [Next]_vars PROVE Joined'
    OBVIOUS
  <2>1. CASE part = "grasp"
    <3>1. part' = part /\ script' = script
      BY <2>1 DEF Next, vars, handVars, GraspNext, TimedScript, InterruptScript, CloseOnContact,
         GraspCheck, Approach, Approached, AwaitTactile, CloseStep, GraspWrites, ReadContact,
         HoldGrip, TimedHoldEnds, InterruptHold, Release, Released, GraspInterrupted, Frame,
         GraspRepeats, StepTo
    <3> QED BY <2>1, <3>1
  <2>2. CASE part # "grasp"
    <3>1. part' = part /\ (HandNext \/ UNCHANGED handVars)
      BY <2>2 DEF Next, vars, handVars
    <3> QED BY <2>2, <3>1, HandStep
  <2> QED BY <2>1, <2>2
<1>3. Joined => RunsJoin
  BY DEF HandInv, FirstCommand, RunsJoin, Joins
<1> QED BY <1>1, <1>2, <1>3, PTL DEF Spec
-----------------------------------------------------------------------------
(* The grasp demonstrations.                                               *)

Before == {"check", "approach", "tactile", "close"}
Ended == {"done", "failed", "interrupted"}
Grasps == [phase : Before \cup Ended \cup {"hold", "release"},
           io : {"set", "write", "read", "ended"}, pose : Int, hold : Int, count : Int,
           tactile : BOOLEAN, contact : Int]

GraspType ==
  /\ grasp \in Grasps /\ writer \in Writers
  /\ buffer \in Int /\ hand \in Int /\ swept \in BOOLEAN

GraspFields ==
  /\ grasp.phase \in Before \cup Ended \cup {"hold", "release"}
  /\ grasp.io \in {"set", "write", "read", "ended"}
  /\ grasp.pose \in Int /\ grasp.hold \in Int /\ grasp.count \in Int /\ grasp.contact \in Int
  /\ grasp.tactile \in BOOLEAN
  /\ writer.at \in {"idle", "took"} /\ writer.got \in Int
  /\ buffer \in Int /\ hand \in Int /\ swept \in BOOLEAN

\* Neither the hand nor a command on its way to it is beyond x.
Within(x) == hand <= x /\ buffer <= x /\ (writer.at = "took" => writer.got <= x)

GripInv ==
  /\ GraspType
  /\ grasp.io = "ended" <=> grasp.phase \in Ended
  /\ grasp.io = "read" => grasp.phase = "close"
  /\ grasp.phase \in Before =>
       grasp.pose >= 0 /\ Within(grasp.pose) /\ grasp.contact = NoPose
  /\ grasp.phase \in Before \ {"close"} => grasp.pose = OpenPose
  /\ grasp.phase \in {"tactile", "close", "hold", "release"} => buffer = grasp.pose
  /\ grasp.contact # NoPose =>
       /\ Within(grasp.contact) /\ grasp.contact >= 0
       /\ grasp.phase \notin Ended => grasp.hold = grasp.contact /\ grasp.pose <= grasp.contact
  /\ swept /\ buffer = OpenPose => hand = OpenPose /\ (writer.at = "took" => writer.got = OpenPose)
  /\ grasp.phase = "done" /\ demo # "kept" => hand = OpenPose

LEMMA StartsUnlatched == ASSUME GraspInit PROVE grasp.contact = NoPose /\ grasp.phase = "check"
<1>1. grasp = [phase |-> "check", io |-> "set", pose |-> OpenPose, hold |-> ClosePose,
               count |-> 0, tactile |-> FALSE, contact |-> NoPose]
  BY DEF GraspInit
<1> QED BY <1>1

LEMMA InitGrip == ASSUME HandInit, GraspInit PROVE GripInv
<1>1. grasp = [phase |-> "check", io |-> "set", pose |-> OpenPose, hold |-> ClosePose,
               count |-> 0, tactile |-> FALSE, contact |-> NoPose]
  BY DEF GraspInit
<1>2. OpenPose \in Int /\ ClosePose \in Int /\ NoPose \in Int
  BY HandAssumption DEF OpenPose, ClosePose, NoPose
<1>3. "check" \in Before \cup Ended \cup {"hold", "release"}
  BY DEF Before
<1>4. grasp \in Grasps
  BY <1>1, <1>2, <1>3 DEF Grasps
<1>5. writer \in Writers /\ writer.at = "idle"
  BY <1>2 DEF HandInit, IdleWriter, Writers
<1>6. hand = NoPose /\ buffer = NoPose /\ swept = FALSE
  BY DEF HandInit
<1>7. GraspType
  BY <1>2, <1>4, <1>5, <1>6 DEF GraspType
<1>8. /\ grasp.phase = "check" /\ grasp.io = "set" /\ grasp.pose = 0 /\ grasp.contact = -1
      /\ hand = -1 /\ buffer = -1
  BY <1>1, <1>6 DEF OpenPose, NoPose
<1> QED BY <1>5, <1>6, <1>7, <1>8 DEF GripInv, Within, Before, Ended, OpenPose, NoPose

LEMMA GripStep ==
  ASSUME GripInv, GraspNext \/ UNCHANGED <<handVars, graspVars>>
  PROVE  GripInv'
<1> USE HandAssumption DEF NoPose, OpenPose, ClosePose
<1> USE DEF GripInv
<1>0. GraspFields
  BY DEF GraspType, Grasps, Writers, GraspFields
<1>a. ASSUME NEW p \in Int, StepTo(p)
      PROVE  /\ GraspType'
             /\ grasp'.phase = grasp.phase /\ grasp'.io = "write" /\ grasp'.pose = p
             /\ grasp'.hold = grasp.hold /\ grasp'.contact = grasp.contact
             /\ buffer' = p /\ swept' = (swept /\ p = buffer)
             /\ UNCHANGED <<writer, hand, demo>>
  <2>1. grasp' \in Grasps
    BY <1>a DEF StepTo, GraspType, Grasps
  <2>2. writer' \in Writers /\ buffer' \in Int /\ hand' \in Int /\ swept' \in BOOLEAN
    BY <1>a, <1>0 DEF StepTo, GraspType, GraspFields
  <2>3. GraspType'
    BY <2>1, <2>2 DEF GraspType
  <2> QED BY <1>a, <2>3 DEF StepTo, GraspType, Grasps
<1>b. ASSUME NEW phase \in Ended, GraspEnds(phase), UNCHANGED <<hand, demo>>
      PROVE  /\ GraspType'
             /\ grasp'.phase = phase /\ grasp'.io = "ended" /\ grasp'.contact = grasp.contact
             /\ buffer' = -1 /\ writer'.at = "idle" /\ ~swept'
  <2>1. grasp' \in Grasps
    BY <1>b DEF GraspEnds, GraspType, Grasps
  <2>2. writer' \in Writers
    BY <1>b DEF GraspEnds, IdleWriter, Writers
  <2>3. buffer' \in Int /\ hand' \in Int
    BY <1>b, <1>0 DEF GraspEnds, GraspFields
  <2>4. swept' \in BOOLEAN
    BY <1>b DEF GraspEnds
  <2>5. GraspType'
    BY <2>1, <2>2, <2>3, <2>4 DEF GraspType
  <2> QED BY <1>b, <2>5 DEF GraspEnds, GraspType, Grasps, IdleWriter
<1>c. ASSUME NEW phase \in Before \cup {"hold", "release"}, Enter(phase),
             UNCHANGED <<buffer, writer, swept, hand, demo>>
      PROVE  /\ GraspType'
             /\ grasp'.phase = phase /\ grasp'.io = "set" /\ grasp'.pose = grasp.pose
             /\ grasp'.hold = grasp.hold /\ grasp'.contact = grasp.contact
  <2>1. grasp' \in Grasps
    BY <1>c DEF Enter, GraspType, Grasps
  <2> QED BY <1>c, <2>1 DEF Enter, GraspType, Grasps
<1> USE DEF Within, Before, Ended
<1>1. CASE GraspCheck
  <2>1. CASE Enter("approach") /\ UNCHANGED <<buffer, writer, swept>>
    BY <1>0, <1>1, <1>c, <2>1 DEF GraspCheck, At, GraspFields
  <2>2. CASE GraspEnds("failed")
    BY <1>0, <1>1, <1>b, <2>2 DEF GraspCheck, At, GraspFields
  <2> QED BY <1>1, <2>1, <2>2 DEF GraspCheck
<1>2. CASE Approach
  BY <1>0, <1>2, <1>a DEF Approach, At, GraspFields
<1>3. CASE Approached
  BY <1>0, <1>3, <1>c DEF Approached, At, GraspFields
<1>4. CASE AwaitTactile
  <2>1. grasp' \in Grasps
    BY <1>4 DEF AwaitTactile, GraspType, Grasps
  <2>2. GraspType'
    BY <1>4, <2>1 DEF AwaitTactile, GraspType
  <2>3. /\ grasp'.phase = "close" /\ grasp'.io = grasp.io /\ grasp'.pose = grasp.pose
        /\ grasp'.hold = grasp.hold /\ grasp'.contact = grasp.contact
    BY <1>4 DEF AwaitTactile, GraspType, Grasps
  <2> QED BY <1>0, <1>4, <2>2, <2>3 DEF AwaitTactile, At, GraspFields
<1>5. CASE CloseStep
  <2>1. grasp.pose + 1 \in Int
    BY <1>0 DEF GraspFields
  <2> QED BY <1>0, <1>5, <1>a, <2>1 DEF CloseStep, At, GraspFields
<1>6. CASE GraspWrites
  <2>1. grasp' \in Grasps
    BY <1>6 DEF GraspWrites, GraspType, Grasps
  <2>2. GraspType'
    BY <1>0, <1>6, <2>1 DEF GraspWrites, GraspType, GraspFields
  <2>3. /\ grasp'.phase = grasp.phase /\ grasp'.pose = grasp.pose
        /\ grasp'.io = IF grasp.phase = "close" THEN "read" ELSE "set"
        /\ grasp'.hold = grasp.hold /\ grasp'.contact = grasp.contact
    BY <1>6 DEF GraspWrites, GraspType, Grasps
  <2>4. /\ grasp.io = "write" /\ hand' = buffer
        /\ UNCHANGED <<buffer, writer, swept, demo>>
    BY <1>6 DEF GraspWrites
  <2>5. /\ grasp'.io # "ended" /\ grasp'.phase \notin Ended
        /\ grasp'.io = "read" => grasp'.phase = "close"
    BY <2>3, <2>4
  <2>6. grasp'.phase \in Before =>
          grasp'.pose >= 0 /\ Within(grasp.pose)' /\ grasp'.contact = NoPose
    BY <2>3, <2>4
  <2>7. grasp'.contact # NoPose =>
          /\ Within(grasp.contact)' /\ grasp'.contact >= 0
          /\ grasp'.hold = grasp'.contact /\ grasp'.pose <= grasp'.contact
    BY <2>3, <2>4, <2>5
  <2>8. swept' /\ buffer' = OpenPose =>
          hand' = OpenPose /\ (writer'.at = "took" => writer'.got = OpenPose)
    BY <2>4
  <2> QED BY <2>2, <2>3, <2>4, <2>5, <2>6, <2>7, <2>8
<1>7. CASE ReadContact
  <2>0. UNCHANGED <<buffer, writer, swept, hand, demo>>
    BY <1>7 DEF ReadContact
  <2>1. CASE InContact
    <3>1. grasp' \in Grasps
      BY <1>7, <2>1 DEF ReadContact, LatchPose, GraspType, Grasps
    <3>2. /\ grasp'.phase = "hold" /\ grasp'.io = "set" /\ grasp'.pose = grasp.pose
          /\ grasp'.hold = grasp.pose /\ grasp'.contact = grasp.pose
      BY <1>7, <2>1 DEF ReadContact, LatchPose, GraspType, Grasps
    <3> QED BY <1>0, <1>7, <2>0, <3>1, <3>2 DEF ReadContact, GraspType, GraspFields
  <2>2. CASE ~InContact
    <3>1. Counted \in Int
      BY <1>0 DEF Counted, GraspFields
    <3>2. grasp' \in Grasps
      BY <1>7, <2>2, <3>1 DEF ReadContact, GraspType, Grasps
    <3>3. /\ grasp'.phase \in {grasp.phase, "hold"} /\ grasp'.io = "set"
          /\ grasp'.pose = grasp.pose /\ grasp'.contact = grasp.contact
      BY <1>7, <2>2 DEF ReadContact, GraspType, Grasps
    <3> QED BY <1>0, <1>7, <2>0, <3>2, <3>3 DEF ReadContact, GraspType, GraspFields
  <2> QED BY <2>1, <2>2
<1>8. CASE HoldGrip
  <2>1. /\ grasp.phase = "hold" /\ StepTo(grasp.hold) /\ grasp.hold \in Int
        /\ grasp.contact # NoPose => grasp.hold = grasp.contact
    BY <1>0, <1>8 DEF HoldGrip, At, GraspFields
  <2>2. /\ GraspType'
        /\ grasp'.phase = "hold" /\ grasp'.io = "write" /\ grasp'.pose = grasp.hold
        /\ grasp'.hold = grasp.hold /\ grasp'.contact = grasp.contact
        /\ buffer' = grasp.hold /\ swept' = (swept /\ grasp.hold = buffer)
        /\ UNCHANGED <<writer, hand, demo>>
    BY <1>a, <2>1
  <2>3. grasp.contact # NoPose => Within(grasp.contact)' /\ grasp.contact >= 0
    BY <1>0, <2>1, <2>2 DEF GraspFields
  <2>4. swept' /\ buffer' = OpenPose =>
           hand' = OpenPose /\ (writer'.at = "took" => writer'.got = OpenPose)
    BY <2>2
  <2> QED BY <2>1, <2>2, <2>3, <2>4
<1>9. CASE TimedHoldEnds
  <2>1. CASE Enter("release") /\ UNCHANGED <<buffer, writer, swept>>
    BY <1>0, <1>9, <1>c, <2>1 DEF TimedHoldEnds, At, GraspFields
  <2>2. CASE demo = "kept" /\ GraspEnds("done")
    BY <1>0, <1>9, <1>b, <2>2 DEF TimedHoldEnds, At, GraspFields
  <2> QED BY <1>9, <2>1, <2>2 DEF TimedHoldEnds
<1>10. CASE InterruptHold
  BY <1>0, <1>10, <1>c DEF InterruptHold, At, GraspFields
<1>11. CASE Release
  <2>1. PICK p \in {Toward1(grasp.pose, OpenPose), OpenPose} : StepTo(p)
    BY <1>11 DEF Release
  <2>2. /\ p \in Int
        /\ grasp.contact # NoPose => p <= grasp.contact
    BY <1>0, <1>11 DEF Release, At, Toward1, GraspFields
  <2> QED BY <1>0, <1>11, <1>a, <2>1, <2>2 DEF Release, At, GraspFields
<1>12. CASE Released
  <2>1. grasp.phase = "release" /\ buffer = grasp.pose /\ grasp.pose = OpenPose /\ swept
    BY <1>12 DEF Released, At
  <2>2. hand' = OpenPose /\ UNCHANGED demo /\ hand' = hand /\ GraspEnds("done")
    BY <1>12, <2>1 DEF Released
  <2>3. /\ GraspType'
        /\ grasp'.phase = "done" /\ grasp'.io = "ended" /\ grasp'.contact = grasp.contact
        /\ buffer' = -1 /\ writer'.at = "idle" /\ ~swept'
    BY <1>b, <2>2
  <2>4. grasp'.contact # NoPose =>
          grasp'.contact >= 0 /\ hand' <= grasp'.contact /\ buffer' <= grasp'.contact
    <3>1. grasp.contact \in Int
      BY <1>0 DEF GraspFields
    <3>2. grasp.contact # NoPose => grasp.contact >= 0 /\ hand <= grasp.contact
      OBVIOUS
    <3> QED BY <2>2, <2>3, <3>1, <3>2
  <2>5. /\ grasp'.io = "ended" <=> grasp'.phase \in Ended
        /\ grasp'.io # "read" /\ grasp'.phase \in Ended /\ ~swept' /\ hand' = OpenPose
    BY <2>2, <2>3
  <2>6. grasp'.phase \notin Before /\ grasp'.phase \notin {"tactile", "close", "hold", "release"}
    BY <2>3
  <2> QED BY <2>3, <2>4, <2>5, <2>6
<1>13. CASE GraspInterrupted
  BY <1>0, <1>13, <1>b DEF GraspInterrupted, GraspFields
<1>14. CASE Frame
  BY <1>14 DEF Frame, handVars, GraspType
<1>15. CASE GraspRepeats
  <2>1. CASE TakeBuffer /\ UNCHANGED <<hand, swept>>
    <3>1. writer' \in Writers /\ writer'.at = "took" /\ writer'.got = buffer
      BY <1>0, <2>1 DEF TakeBuffer, Writers, GraspFields
    <3> QED BY <1>0, <1>15, <2>1, <3>1 DEF GraspRepeats, graspVars, GraspType, GraspFields
  <2>2. CASE WriteTaken /\ swept' = (writer.got = OpenPose)
    <3>1. writer' \in Writers /\ writer'.at = "idle"
      BY <2>2 DEF WriteTaken, IdleWriter, Writers
    <3> QED BY <1>0, <1>15, <2>2, <3>1 DEF GraspRepeats, WriteTaken, graspVars, GraspType,
       GraspFields
  <2> QED BY <1>15, <2>1, <2>2 DEF GraspRepeats
<1>16. CASE UNCHANGED <<handVars, graspVars>>
  BY <1>16 DEF handVars, graspVars, GraspType
<1> QED BY <1>1, <1>2, <1>3, <1>4, <1>5, <1>6, <1>7, <1>8, <1>9, <1>10, <1>11, <1>12, <1>13,
           <1>14, <1>15, <1>16
        DEF GraspNext, TimedScript, InterruptScript, CloseOnContact

\* Once contact is latched, the hand is never commanded beyond it, and it is left
\* open by a grasp demonstration that releases (control_dex3_right_grasp.py and
\* control_dex3_right_grasp_norelease.py with the binding's two writers).
THEOREM GripHolds == Spec => []GripIsHeld
<1> DEFINE Held1 == IF part = "grasp" THEN GripInv
                    ELSE grasp.contact = NoPose /\ grasp.phase = "check"
<1>1. Init => Held1
  <2>1. Init => HandInit /\ GraspInit
    BY DEF Init
  <2> QED BY <2>1, InitGrip, StartsUnlatched
<1>2. Held1 /\ [Next]_vars => Held1'
  <2> SUFFICES ASSUME Held1, [Next]_vars PROVE Held1'
    OBVIOUS
  <2>1. CASE part = "grasp"
    <3>1. part' = part /\ (GraspNext \/ UNCHANGED <<handVars, graspVars>>)
      BY <2>1 DEF Next, vars
    <3> QED BY <2>1, <3>1, GripStep
  <2>2. CASE part # "grasp"
    <3>1. part' = part /\ UNCHANGED graspVars
      BY <2>2 DEF Next, vars
    <3> QED BY <2>2, <3>1 DEF graspVars
  <2> QED BY <2>1, <2>2
<1>3. Held1 => GripIsHeld
  BY DEF GripInv, Within, GripIsHeld, NoPose, OpenPose
<1> QED BY <1>1, <1>2, <1>3, PTL DEF Spec
-----------------------------------------------------------------------------
(* The arms: types, and which threads there are.                           *)

Poses == [Arms -> 0 .. MaxPose]
Messages == [q : Poses, weight : Int, soft : BOOLEAN]
Threads == {"main", "publish", "control"}
Places == {"construct", "start", "ready", "console", "await", "read", "latch", "gains",
           "shutdown", "relatch", "stop", "join", "hold", "exit",
           "loop", "home", "fade", "close", "end"}

Mains == [at : Places, i : Nat, q : Poses, mode : Modes]
Controls == [at : {"read", "mode", "commit", "done"}, q : Poses, mode : Modes, lock : Poses]

ArmType ==
  /\ kind \in Kinds /\ motion_mode \in BOOLEAN /\ program \in {"right_arm_mode", "teleop"}
  /\ q \in Poses /\ q_target \in Poses /\ lock_q \in Poses
  /\ msg \in Messages /\ sent \in Messages
  /\ publisher \in [at : {"none", "ramp", "ramped", "loop"}, i : Nat]
  /\ threads \in SUBSET Threads /\ sleep \in [Threads -> Nat] /\ late \in 0 .. MaxLate
  /\ main \in Mains /\ control \in Controls
  /\ mode \in Modes /\ stop \in BOOLEAN

ThreadsInv ==
  /\ program = "right_arm_mode" => kind = "G1_29" /\ motion_mode
  /\ publisher.at = "none" <=> main.at = "construct"
  /\ main.at = "construct" => threads = {"main"} /\ sleep["publish"] = 0
  /\ main.at = "end" => threads = {}
  /\ main.at \notin {"construct", "end"} => {"main", "publish"} \subseteq threads
  /\ sleep["publish"] <= 1 /\ sleep["control"] <= 1
  /\ publisher.at \in {"ramp", "ramped"} => publisher.i < Steps /\ sleep["publish"] <= publisher.i
-----------------------------------------------------------------------------
(* The weight that is left behind.                                         *)

Elapsed == IF main.at = "hold" THEN main.i ELSE HoldSteps + main.i

\* The ramp-up keeps up with the hold and the ramp-down, but for the ticks that its
\* thread fell behind, so that the end of the ramp-down finds it over if they are
\* fewer than those of the hold.
RampInv ==
  /\ main.at = "hold" => main.i <= HoldSteps
  /\ main.at = "exit" => main.i <= Steps
  /\ main.at \in {"hold", "exit"} /\ publisher.at \in {"ramp", "ramped"} =>
       Elapsed - sleep["main"] <= publisher.i - sleep["publish"] + behind
  /\ main.at = "exit" /\ main.i = Steps /\ behind < HoldSteps =>
       publisher.at = "loop" /\ msg.weight = 0 /\ sent.weight = 0

\* After the last step of the fade the publish thread has time enough to write.
FadeInv ==
  /\ ending = "handed_back" => main.at \in {"fade", "close", "end"}
  /\ main.at = "fade" => main.i <= HomeSteps + 1
  /\ main.at \in {"fade", "close"} /\ ending = "handed_back" => publisher.at = "loop"
  /\ main.at = "fade" /\ main.i > HomeSteps /\ ending = "handed_back" =>
       /\ msg.weight = 0
       /\ sent.weight = 0 \/ FadeTicks - sleep["main"] <= 1 - sleep["publish"] + behind
  /\ main.at = "close" /\ ending = "handed_back" /\ motion_mode = TRUE =>
       /\ msg.weight = 0
       /\ sent.weight = 0 \/ FadeTicks + 1 - sleep["main"] <= 1 - sleep["publish"] + behind

WeightInv == ArmType /\ ThreadsInv /\ behind \in Nat /\ RampInv /\ FadeInv /\ HandedBack

\* What the steps put together is of its type.
LEMMA HomeParts ==
  /\ Home \in Poses /\ IdleControl \in Controls
  /\ \A p \in Places : MainAt(p) \in Mains
<1>1. Home \in Poses
  BY ArmAssumption DEF ArmAssumption, Home, Poses, Arms
<1> QED BY <1>1 DEF IdleControl, Controls, MainAt, Mains, Modes

LEMMA ClipPose ==
  ASSUME q \in Poses, NEW p \in Poses
  PROVE  /\ Clip(p) \in Poses
         /\ \A a \in Arms : Clip(p)[a] = Toward(q[a], p[a])
<1>1. \A a \in Arms : Toward(q[a], p[a]) \in 0 .. MaxPose
  <2> SUFFICES ASSUME NEW a \in Arms PROVE Toward(q[a], p[a]) \in 0 .. MaxPose
    OBVIOUS
  <2>1. q[a] \in 0 .. MaxPose /\ p[a] \in 0 .. MaxPose /\ MaxPose \in Nat
    BY ArmAssumption DEF Poses, ArmAssumption
  <2> QED BY <2>1 DEF Toward
<1> QED BY <1>1 DEF Clip, Poses

LEMMA MixedPose ==
  ASSUME NEW x \in Poses, NEW y \in Poses
  PROVE  [left |-> x["left"], right |-> y["right"]] \in Poses
BY DEF Poses, Arms

LEMMA TypeStep ==
  ASSUME ArmType, ThreadsInv, ModeNext \/ UNCHANGED <<armVars, modeVars>>
  PROVE  ArmType'
<1> USE DEF ArmType, MainStep, Tool, Teleop, Awake, Sleep
<1>a. "main" \in Threads /\ "publish" \in Threads /\ "control" \in Threads
  BY DEF Threads
<1>b. \A t \in Threads, n \in Nat : [sleep EXCEPT ![t] = n] \in [Threads -> Nat]
  OBVIOUS
<1>c. Home \in Poses /\ \A p \in Places : MainAt(p) \in Mains
  BY HomeParts
<1>1. CASE Setup
  <2>1. msg' \in Messages /\ q_target' \in Poses
    BY <1>1, <1>c, ArmAssumption DEF Setup, Construct, G1_29Start, G1_23Start, H1_2Start,
       H1Start,
       Kinds, Messages, ArmAssumption
  <2>2. publisher' \in [at : {"none", "ramp", "ramped", "loop"}, i : Nat]
    BY <1>1 DEF Setup, Construct, G1_29Start, G1_23Start, H1_2Start, H1Start, Kinds
  <2>3. threads' \in SUBSET Threads
    BY <1>1, <1>a DEF Setup, Construct
  <2>4. main' \in Mains
    BY <1>1, <1>c DEF Setup, Go, Places
  <2> QED BY <1>1, <2>1, <2>2, <2>3, <2>4 DEF Setup
<1>2. CASE Start \/ SetGains \/ StopControl
  <2>1. msg' \in Messages
    BY <1>2 DEF Start, SetGains, StopControl, Gains, Messages
  <2>2. threads' \in SUBSET Threads
    BY <1>2, <1>a DEF Start, SetGains, StopControl
  <2>3. main' \in Mains
    BY <1>2, <1>c DEF Start, SetGains, StopControl, Go, Places
  <2>4. sleep' \in [Threads -> Nat]
    BY <1>2, <1>a, <1>b DEF Start, SetGains, StopControl
  <2> QED BY <1>2, <2>1, <2>2, <2>3, <2>4 DEF Start, SetGains, StopControl
<1>3. CASE AwaitReady \/ Await \/ Command \/ Look
  <2>1. main' \in Mains
    BY <1>3, <1>c DEF AwaitReady, Await, Command, Look, modeVars, Go, Mains, Places
  <2>2. sleep' \in [Threads -> Nat]
    BY <1>3, <1>a, <1>b DEF AwaitReady, Await, Command, Look, armVars
  <2> QED BY <1>3, <2>1, <2>2 DEF AwaitReady, Await, Command, Look, modeVars, armVars
<1>4. CASE ReadPose
  <2>1. PICK p \in {<<"read", "latch">>, <<"shutdown", "relatch">>} :
          main' = [main EXCEPT !.at = p[2], !.q = q]
    BY <1>4 DEF ReadPose
  <2>2. p[2] \in {"latch", "relatch"}
    OBVIOUS
  <2>3. main' \in Mains
    BY <2>1, <2>2 DEF Mains, Places
  <2> QED BY <1>4, <2>3 DEF ReadPose
<1>5. CASE Latch
  <2>1. lock_q' \in Poses
    <3>1. main.q \in Poses
      BY DEF Mains
    <3> QED BY <1>5, <3>1, MixedPose DEF Latch, Latched
  <2>2. main' \in Mains /\ mode' \in Modes
    BY <1>5, <1>c DEF Latch, Mains, Places
  <2> QED BY <1>5, <2>1, <2>2 DEF Latch, armVars
<1>6. CASE Relatch
  <2>1. lock_q' \in Poses /\ mode' \in Modes
    BY <1>6 DEF Relatch, Mains, Modes
  <2>2. main' \in Mains
    BY <1>6, <1>c DEF Relatch, Go, Places
  <2> QED BY <1>6, <2>1, <2>2 DEF Relatch, armVars
<1>7. CASE Hold
  <2>1. main' \in Mains
    BY <1>7, <1>c DEF Hold, Go, Mains, Places
  <2>2. sleep' \in [Threads -> Nat] /\ q_target' \in Poses
    BY <1>7, <1>a, <1>b DEF Hold, CtrlDualArm
  <2> QED BY <1>7, <2>1, <2>2 DEF Hold
<1>8. CASE SmoothExit
  <2>1. main' \in Mains
    BY <1>8 DEF SmoothExit, Mains
  <2>2. msg' \in Messages /\ sent' = msg'
    BY <1>8, ArmAssumption DEF SmoothExit, SmoothExitStep, Messages, Mains, ArmAssumption
  <2> QED BY <1>8, <1>a, <1>b, <2>1, <2>2 DEF SmoothExit
<1>9. CASE Join \/ Closed \/ Interrupt \/ SecondInterrupt \/ Begin \/ Arrived \/ GiveUp \/ Faded \/ Close
  <2>1. main' \in Mains
    BY <1>9, <1>c DEF Join, Closed, Interrupt, SecondInterrupt, Begin, Arrived, GiveUp, Faded,
       Close,
       Go, End, Places
  <2>2. sleep' = sleep \/ (\E n \in Nat : sleep' = [sleep EXCEPT !["main"] = n])
    BY <1>9 DEF Join, Closed, Interrupt, SecondInterrupt, Begin, Arrived, GiveUp, Faded, Close,
       armVars
  <2>3. threads' = threads \/ threads' = {}
    BY <1>9 DEF Join, Closed, Interrupt, SecondInterrupt, Begin, Arrived, GiveUp, Faded, Close,
       End, armVars
  <2>4. sleep' \in [Threads -> Nat] /\ threads' \in SUBSET Threads
    BY <1>a, <1>b, <2>2, <2>3
  <2> QED BY <1>9, <2>1, <2>4 DEF Join, Closed, Interrupt, SecondInterrupt, Begin, Arrived,
     GiveUp,
         Faded, Close, End, armVars
<1>10. CASE Solve
  <2>1. q_target' \in Poses
    BY <1>10 DEF Solve, CtrlDualArm, Poses
  <2> QED BY <1>10, <1>a, <1>b, <2>1 DEF Solve, modeVars
<1>11. CASE GoHome
  <2>1. main' \in Mains
    BY <1>11, <1>c DEF GoHome, Go, Places
  <2> QED BY <1>11, <1>c, <2>1 DEF GoHome, CtrlDualArm
<1>12. CASE Fade
  <2>1. main.i \in Nat /\ main' \in Mains
    BY <1>12 DEF Fade, Mains
  <2>2. FadeWeight(main.i) \in Int
    <3>1. Steps \div HomeSteps \in Int
      BY ArmAssumption DEF ArmAssumption
    <3> QED BY <2>1, <3>1, ArmAssumption DEF FadeWeight, ArmAssumption
  <2>3. msg' = [msg EXCEPT !.weight = FadeWeight(main.i)] /\ sent' = sent
    BY <1>12 DEF Fade, SetWeight
  <2>4. msg' \in Messages
    BY <2>2, <2>3 DEF Messages
  <2>5. FadeTicks \in Nat
    BY ModeAssumption DEF ModeAssumption
  <2> QED BY <1>12, <1>a, <1>b, <2>1, <2>3, <2>4, <2>5 DEF Fade
<1>13. CASE ControlRead \/ ControlMode
  <2>1. control' \in Controls
    <3>1. IdleControl \in Controls
      BY HomeParts
    <3>2. CASE ControlRead
      BY <3>1, <3>2 DEF ControlRead, Controls
    <3>3. CASE ControlMode
      BY <3>3 DEF ControlMode, Controls
    <3> QED BY <1>13, <3>2, <3>3
  <2>2. threads' \in SUBSET Threads
    BY <1>13 DEF ControlRead, ControlMode, armVars
  <2> QED BY <1>13, <2>1, <2>2 DEF ControlRead, ControlMode, armVars
<1>14. CASE ControlCommit
  <2>1. control.q \in Poses /\ control.lock \in Poses
    BY DEF Controls
  <2>2. Target(control) \in Poses
    BY <2>1, MixedPose DEF Target
  <2> QED BY <1>14, <1>a, <1>b, <2>2, HomeParts DEF ControlCommit, CtrlDualArm
<1>15. CASE PublishThread /\ UNCHANGED modeVars
  <2>1. msg' \in Messages
    BY <1>15, ClipPose DEF PublishThread, RampWeight, RampPublish, Publish, SendTarget, Messages
  <2>2. sent' \in Messages
    BY <1>15, <2>1 DEF PublishThread, RampWeight, RampPublish, Publish, SendTarget
  <2>3. publisher' \in [at : {"none", "ramp", "ramped", "loop"}, i : Nat]
    BY <1>15 DEF PublishThread, RampWeight, RampPublish, Publish
  <2> QED BY <1>15, <1>a, <1>b, <2>1, <2>2, <2>3
         DEF PublishThread, RampWeight, RampPublish, Publish, SendTarget, modeVars
<1>16. CASE Tick /\ UNCHANGED modeVars
  <2>1. \A a \in Arms : Next1(a) \subseteq 0 .. MaxPose
    <3> SUFFICES ASSUME NEW a \in Arms PROVE Next1(a) \subseteq 0 .. MaxPose
      OBVIOUS
    <3>1. q[a] \in 0 .. MaxPose /\ sent.q[a] \in 0 .. MaxPose /\ MaxPose \in Nat
      BY ArmAssumption DEF Poses, Messages, ArmAssumption
    <3>2. Toward(q[a], sent.q[a]) \in 0 .. MaxPose
      BY <3>1 DEF Toward
    <3> QED BY <3>1, <3>2 DEF Next1, Follows, Led
  <2>2. q' \in Poses
    BY <1>16, <2>1 DEF Tick, Poses, Arms
  <2>3. sleep' \in [Threads -> Nat] /\ late' \in 0 .. MaxLate
    BY <1>16, ArmAssumption DEF Tick, ArmAssumption
  <2> QED BY <1>16, <2>2, <2>3 DEF Tick, modeVars
<1>17. CASE UNCHANGED <<armVars, modeVars>>
  BY <1>17 DEF armVars, modeVars
<1> QED BY <1>1, <1>2, <1>3, <1>4, <1>5, <1>6, <1>7, <1>8, <1>9, <1>10, <1>11, <1>12, <1>13,
           <1>14, <1>15, <1>16, <1>17
        DEF ModeNext, MainThread, ControlThread

ArmFields ==
  /\ main.at \in Places /\ main.i \in Nat /\ main.q \in Poses
  /\ publisher.at \in {"none", "ramp", "ramped", "loop"} /\ publisher.i \in Nat
  /\ sleep["main"] \in Nat /\ sleep["publish"] \in Nat /\ sleep["control"] \in Nat
  /\ late \in Nat /\ late <= MaxLate /\ MaxLate \in Nat
  /\ msg.weight \in Int /\ msg.soft \in BOOLEAN /\ sent.weight \in Int /\ sent.soft \in BOOLEAN
  /\ Steps \in Nat /\ Steps > 0 /\ HoldSteps \in Nat /\ HoldSteps > 0
  /\ HomeSteps \in Nat /\ HomeSteps > 0 /\ FadeTicks \in Nat /\ FadeTicks > 0

LEMMA ArmFieldsHold == ArmType => ArmFields
BY ArmAssumption, ModeAssumption DEF ArmType, ArmFields, ArmAssumption, ModeAssumption,
   Mains, Messages, Threads

\* What a sleep and a tick do to the threads' clocks.
LEMMA Sleeps ==
  ASSUME ArmType, NEW t \in Threads, NEW n \in Nat, Sleep(t, n)
  PROVE  sleep'[t] = n /\ \A u \in Threads \ {t} : sleep'[u] = sleep[u]
BY DEF ArmType, Sleep

LEMMA Ticks ==
  ASSUME ArmType, Tick
  PROVE  /\ \A t \in Threads : sleep'[t] = IF sleep[t] > 0 THEN sleep[t] - 1 ELSE 0
         /\ \/ (\A t \in threads : sleep[t] > 0) /\ late' = late
            \/ late' = late + 1 /\ late' <= MaxLate
         /\ threads # {} /\ UNCHANGED <<kind, motion_mode, q_target, msg, sent, publisher, threads>>
<1>1. DOMAIN sleep = Threads /\ late \in Int /\ MaxLate \in Int
  BY ArmAssumption DEF ArmType, ArmAssumption
<1> QED BY <1>1 DEF Tick

LEMMA InitArm == ASSUME ArmInit, ModeInit PROVE ArmType /\ ThreadsInv
<1> USE ArmAssumption DEF ArmAssumption
<1>1. Home \in Poses /\ IdleControl \in Controls /\ main \in Mains
  BY HomeParts DEF ModeInit, Places
<1>2. q \in Poses
  <2>1. PICK p \in 0 .. MaxPose : q = [a \in Arms |-> p]
    BY DEF ArmInit
  <2> QED BY <2>1 DEF Poses
<1>3. msg \in Messages /\ sent \in Messages
  BY <1>1 DEF ArmInit, Messages
<1>4. sleep \in [Threads -> Nat] /\ threads \in SUBSET Threads
  BY DEF ArmInit, Threads
<1>5. /\ kind \in Kinds /\ motion_mode \in BOOLEAN /\ program \in {"right_arm_mode", "teleop"}
      /\ mode \in Modes /\ stop \in BOOLEAN
      /\ program = "right_arm_mode" => kind = "G1_29" /\ motion_mode
  BY DEF ArmInit, ModeInit, Modes
<1>6. publisher = [at |-> "none", i |-> 0] /\ late = 0 /\ q_target = Home /\ lock_q = Home
      /\ control = IdleControl
  BY DEF ArmInit, ModeInit
<1>7. ArmType
  <2>1. late \in 0 .. MaxLate /\ publisher \in [at : {"none", "ramp", "ramped", "loop"}, i : Nat]
    BY <1>6
  <2> QED BY <1>1, <1>2, <1>3, <1>4, <1>5, <1>6, <2>1 DEF ArmType
<1>8. main.at = "construct" /\ threads = {"main"} /\ sleep["publish"] = 0 /\ sleep["control"] = 0
  BY DEF ArmInit, ModeInit, MainAt
<1> QED BY <1>5, <1>6, <1>7, <1>8 DEF ThreadsInv

LEMMA ThreadsStep ==
  ASSUME ArmType, ThreadsInv, ModeNext \/ UNCHANGED <<armVars, modeVars>>
  PROVE  ThreadsInv'
<1> USE DEF ThreadsInv
<1>f. ArmFields
  BY ArmFieldsHold
<1> USE <1>f DEF ArmFields, MainStep, Tool, Teleop, Awake, Go, MainAt, Places
<1>s. \A t \in Threads, n \in Nat :
        Sleep(t, n) => sleep'[t] = n /\ \A u \in Threads \ {t} : sleep'[u] = sleep[u]
  BY Sleeps
<1>t. Threads = {"main", "publish", "control"}
  BY DEF Threads
<1> USE <1>s, <1>t
<1>1. CASE Setup
  <2>1. publisher'.at \in {"ramp", "loop"} /\ publisher'.i = 0
    BY <1>1 DEF Setup, Construct, G1_29Start, G1_23Start, H1_2Start, H1Start, Kinds, ArmType
  <2>2. threads' = {"main", "publish"} /\ sleep' = sleep
    BY <1>1 DEF Setup, Construct
  <2> QED BY <1>1, <2>1, <2>2 DEF Setup
<1>2. CASE AwaitReady
  <2>1. sleep' = sleep \/ Sleep("main", 1)
    BY <1>2 DEF AwaitReady
  <2>2. sleep'["publish"] = sleep["publish"] /\ sleep'["control"] = sleep["control"]
    BY <2>1
  <2>3. main'.at \in {"ready", "read"}
    BY <1>2 DEF AwaitReady, ArmType, Mains
  <2> QED BY <1>2, <2>2, <2>3 DEF AwaitReady
<1>3. CASE Start
  BY <1>3 DEF Start
<1>4. CASE Await
  BY <1>4 DEF Await, armVars, modeVars
<1>5. CASE Command
  BY <1>5 DEF Command, armVars, modeVars
<1>6. CASE ReadPose
  BY <1>6 DEF ReadPose
<1>7. CASE Latch
  BY <1>7 DEF Latch, armVars, modeVars
<1>8. CASE SetGains
  BY <1>8 DEF SetGains
<1>9. CASE Relatch
  BY <1>9 DEF Relatch, armVars, modeVars
<1>10. CASE StopControl
  BY <1>10 DEF StopControl
<1>11. CASE Join
  BY <1>11 DEF Join, armVars, modeVars
<1>12. CASE Hold
  <2>1. sleep' = sleep \/ Sleep("main", 1)
    BY <1>12 DEF Hold
  <2>2. sleep'["publish"] = sleep["publish"] /\ sleep'["control"] = sleep["control"]
    BY <2>1
  <2>3. main'.at \in {"hold", "exit"}
    BY <1>12 DEF Hold, ArmType, Mains
  <2> QED BY <1>12, <2>2, <2>3 DEF Hold
<1>13. CASE SmoothExit
  BY <1>13 DEF SmoothExit
<1>14. CASE Closed
  BY <1>14 DEF Closed, End
<1>15. CASE Interrupt
  BY <1>15 DEF Interrupt
<1>16. CASE SecondInterrupt
  BY <1>16 DEF SecondInterrupt, End
<1>17. CASE Begin
  BY <1>17 DEF Begin, armVars
<1>18. CASE Solve
  BY <1>18 DEF Solve, modeVars
<1>19. CASE GoHome
  BY <1>19 DEF GoHome
<1>20. CASE Arrived
  BY <1>20 DEF Arrived
<1>21. CASE Look
  BY <1>21 DEF Look
<1>22. CASE GiveUp
  BY <1>22 DEF GiveUp, End
<1>23. CASE Fade
  BY <1>23 DEF Fade
<1>24. CASE Faded
  BY <1>24 DEF Faded
<1>25. CASE Close
  BY <1>25 DEF Close
<1>26. CASE ControlThread
  BY <1>26 DEF ControlThread, ControlRead, ControlMode, ControlCommit, armVars
<1>27. CASE RampWeight /\ UNCHANGED modeVars
  BY <1>27 DEF RampWeight, modeVars
<1>28. CASE RampPublish /\ UNCHANGED modeVars
  BY <1>28 DEF RampPublish, SendTarget, modeVars
<1>29. CASE Publish /\ UNCHANGED modeVars
  BY <1>29 DEF Publish, SendTarget, modeVars
<1>30. CASE Tick /\ UNCHANGED modeVars
  BY <1>30, Ticks DEF modeVars
<1>31. CASE UNCHANGED <<armVars, modeVars>>
  BY <1>31 DEF armVars, modeVars
<1> QED BY <1>1, <1>2, <1>3, <1>4, <1>5, <1>6, <1>7, <1>8, <1>9, <1>10, <1>11, <1>12,
           <1>13, <1>14, <1>15, <1>16, <1>17, <1>18, <1>19, <1>20, <1>21, <1>22, <1>23,
           <1>24, <1>25, <1>26, <1>27, <1>28, <1>29, <1>30, <1>31
        DEF ModeNext, MainThread, ControlThread, PublishThread

\* The main thread comes to hold() and smooth_exit(), and waits for START, in no other
\* way, and constructs once.
LEMMA OtherPlaces ==
  ASSUME ArmType, MainThread
  PROVE  /\ Join \/ Hold \/ SmoothExit \/ main'.at \notin {"hold", "exit"}
         /\ Setup \/ Await \/ main'.at # "await"
         /\ main'.at # "construct"
<1> USE DEF Go, MainAt, End, Tool, Teleop, MainStep
<1>m. main \in Mains
  BY DEF ArmType
<1>1. CASE Setup
  BY <1>m, <1>1 DEF Setup
<1>2. CASE Start
  BY <1>m, <1>2 DEF Start
<1>3. CASE AwaitReady
  BY <1>m, <1>3 DEF AwaitReady, Mains
<1>4. CASE Await
  BY <1>m, <1>4 DEF Await, modeVars
<1>5. CASE Command
  BY <1>m, <1>5 DEF Command, Mains
<1>6. CASE ReadPose
  BY <1>m, <1>6 DEF ReadPose, Mains
<1>7. CASE Latch
  BY <1>m, <1>7 DEF Latch, Mains
<1>8. CASE SetGains
  BY <1>m, <1>8 DEF SetGains
<1>9. CASE Relatch
  BY <1>m, <1>9 DEF Relatch
<1>10. CASE StopControl
  BY <1>m, <1>10 DEF StopControl
<1>11. CASE Closed \/ Join
  BY <1>m, <1>11 DEF Closed, Join
<1>12. CASE Interrupt
  BY <1>m, <1>12 DEF Interrupt
<1>13. CASE SecondInterrupt
  BY <1>m, <1>13 DEF SecondInterrupt
<1>14. CASE Begin
  BY <1>m, <1>14 DEF Begin
<1>15. CASE Solve
  BY <1>m, <1>15 DEF Solve, modeVars
<1>16. CASE GoHome
  BY <1>m, <1>16 DEF GoHome
<1>17. CASE Arrived
  BY <1>m, <1>17 DEF Arrived
<1>18. CASE Look
  BY <1>m, <1>18 DEF Look, Mains
<1>19. CASE GiveUp
  BY <1>m, <1>19 DEF GiveUp
<1>20. CASE Fade
  BY <1>m, <1>20 DEF Fade, Mains
<1>21. CASE Faded
  BY <1>m, <1>21 DEF Faded
<1>22. CASE Close
  BY <1>m, <1>22 DEF Close
<1>23. CASE Hold \/ SmoothExit
  BY <1>m, <1>23 DEF Hold, SmoothExit, Mains
<1> QED BY <1>1, <1>2, <1>3, <1>4, <1>5, <1>6, <1>7, <1>8, <1>9, <1>10, <1>11, <1>12,
           <1>13, <1>14, <1>15, <1>16, <1>17, <1>18, <1>19, <1>20, <1>21, <1>22, <1>23
        DEF MainThread

LEMMA RampStep ==
  ASSUME ArmType, ThreadsInv, behind \in Nat, RampInv,
         ModeNext \/ UNCHANGED <<armVars, modeVars, behind>>
  PROVE  RampInv'
<1> USE DEF RampInv, Elapsed
<1>f. ArmFields
  BY ArmFieldsHold
<1> USE <1>f DEF ArmFields, MainStep, Tool, Teleop, Awake, Go, MainAt
<1>m. main \in Mains
  BY DEF ArmType
<1>s. \A t \in Threads, n \in Nat :
        Sleep(t, n) => sleep'[t] = n /\ \A u \in Threads \ {t} : sleep'[u] = sleep[u]
  BY Sleeps
<1>t. Threads = {"main", "publish", "control"}
  BY DEF Threads
<1>1. CASE main'.at \notin {"hold", "exit"}
  BY <1>1
<1>2. CASE Join /\ CountAnew
  <2>1. /\ main'.at = "hold" /\ main'.i = 0 /\ UNCHANGED <<sleep, publisher>>
        /\ sleep["main"] = 0 /\ behind' = 0
    BY <1>2 DEF Join, CountAnew, BeginsCount, armVars
  <2> QED BY <2>1 DEF ThreadsInv
<1>3. CASE Hold /\ CountAnew
  <2>1. UNCHANGED <<publisher, behind, msg, sent>> /\ main.at = "hold" /\ sleep["main"] = 0
    BY <1>3 DEF Hold, CountAnew, BeginsCount
  <2>2. CASE Holds(main.i)
    <3>1. main'.at = "hold" /\ main'.i = main.i + 1 /\ Sleep("main", 1)
      BY <1>3, <1>m, <2>2 DEF Hold, Mains
    <3>2. sleep'["main"] = 1 /\ sleep'["publish"] = sleep["publish"]
      BY <1>s, <1>t, <3>1
    <3> QED BY <2>1, <2>2, <3>1, <3>2 DEF Holds
  <2>3. CASE ~Holds(main.i)
    <3>1. main'.at = "exit" /\ main'.i = 0 /\ sleep' = sleep
      BY <1>3, <2>3 DEF Hold
    <3> QED BY <2>1, <2>3, <3>1 DEF Holds
  <2> QED BY <2>2, <2>3
<1>4. CASE SmoothExit /\ CountAnew
  <2>1. /\ main.at = "exit" /\ main.i < Steps /\ sleep["main"] = 0
        /\ main'.at = "exit" /\ main'.i = main.i + 1 /\ UNCHANGED <<publisher, behind>>
    BY <1>4, <1>m DEF SmoothExit, Mains, CountAnew, BeginsCount
  <2>2. sleep'["main"] = 1 /\ sleep'["publish"] = sleep["publish"]
    BY <1>4, <1>s, <1>t DEF SmoothExit
  <2>3. msg'.weight = Steps - (main.i + 1) /\ sent'.weight = msg'.weight
    BY <1>4 DEF SmoothExit, SmoothExitStep, ArmType, Messages
  <2>4. main.i + 1 = Steps /\ behind < HoldSteps => publisher.at = "loop"
    BY <2>1 DEF ThreadsInv
  <2> QED BY <2>1, <2>2, <2>3, <2>4
<1>5. CASE ControlThread /\ UNCHANGED behind
  <2>1. UNCHANGED <<main, publisher, behind, msg, sent>>
    BY <1>5 DEF ControlThread, ControlRead, ControlMode, ControlCommit, armVars
  <2>2. sleep' = sleep \/ Sleep("control", 1)
    BY <1>5 DEF ControlThread, ControlRead, ControlMode, ControlCommit, armVars
  <2>3. sleep'["main"] = sleep["main"] /\ sleep'["publish"] = sleep["publish"]
    BY <1>s, <1>t, <2>2
  <2> QED BY <2>1, <2>3
<1>6. CASE RampWeight /\ UNCHANGED <<modeVars, behind>>
  BY <1>6 DEF RampWeight, modeVars
<1>7. CASE RampPublish /\ UNCHANGED <<modeVars, behind>>
  <2>1. /\ Sleep("publish", 1) /\ UNCHANGED <<main, behind>>
        /\ publisher.at = "ramped" /\ sleep["publish"] = 0
    BY <1>7 DEF RampPublish, SendTarget, modeVars
  <2>2. sleep'["publish"] = 1 /\ sleep'["main"] = sleep["main"]
    BY <1>s, <1>t, <2>1
  <2>3. \/ publisher'.at = "ramp" /\ publisher'.i = publisher.i + 1
        \/ publisher'.at = "loop"
    BY <1>7 DEF RampPublish
  <2> QED BY <2>1, <2>2, <2>3
<1>8. CASE Publish /\ UNCHANGED <<modeVars, behind>>
  <2>1. /\ UNCHANGED <<main, publisher, behind>> /\ publisher.at = "loop"
        /\ sent'.weight = msg.weight /\ msg'.weight = msg.weight
    BY <1>8 DEF Publish, SendTarget, modeVars, ArmType, Messages
  <2> QED BY <2>1
<1>9. CASE Tick /\ CountTick /\ UNCHANGED modeVars
  <2>1. main.at \in {"hold", "exit"} => "main" \in threads /\ "publish" \in threads
    BY DEF ThreadsInv
  <2>2. /\ sleep'["main"] = IF sleep["main"] > 0 THEN sleep["main"] - 1 ELSE 0
        /\ sleep'["publish"] = IF sleep["publish"] > 0 THEN sleep["publish"] - 1 ELSE 0
        /\ behind' = IF main.at \in {"hold", "exit", "fade", "close"}
                       /\ sleep["publish"] = 0 /\ sleep["main"] > 0
                     THEN behind + 1 ELSE behind
        /\ UNCHANGED <<main, publisher, msg, sent>>
    BY <1>9, <1>t, Ticks DEF modeVars, CountTick, FallsBehind
  <2> QED BY <2>1, <2>2
<1>10. CASE UNCHANGED <<armVars, modeVars, behind>>
  BY <1>10 DEF armVars, modeVars
<1> QED BY <1>1, <1>2, <1>3, <1>4, <1>5, <1>6, <1>7, <1>8, <1>9, <1>10, OtherPlaces
        DEF ModeNext, PublishThread

\* Before the fade, nothing is said of how the program ends.
LEMMA BeforeFade ==
  ASSUME ArmType, MainThread
  PROVE  \/ Arrived \/ Fade \/ Faded \/ Close \/ Closed \/ GiveUp \/ SecondInterrupt
         \/ ending' = ending /\ {main.at, main'.at} \cap {"fade", "close", "end"} = {}
<1> USE DEF Go, MainAt, Tool, Teleop, MainStep
<1>m. main \in Mains
  BY DEF ArmType
<1>1. CASE Setup
  BY <1>m, <1>1 DEF Setup
<1>2. CASE Start
  BY <1>m, <1>2 DEF Start
<1>3. CASE AwaitReady
  BY <1>m, <1>3 DEF AwaitReady, Mains
<1>4. CASE Await
  BY <1>m, <1>4 DEF Await, modeVars
<1>5. CASE Command
  BY <1>m, <1>5 DEF Command, Mains
<1>6. CASE ReadPose
  BY <1>m, <1>6 DEF ReadPose, Mains
<1>7. CASE Latch
  BY <1>m, <1>7 DEF Latch, Mains
<1>8. CASE SetGains
  BY <1>m, <1>8 DEF SetGains
<1>9. CASE Relatch
  BY <1>m, <1>9 DEF Relatch
<1>10. CASE StopControl
  BY <1>m, <1>10 DEF StopControl
<1>11. CASE Join
  BY <1>m, <1>11 DEF Join
<1>12. CASE Hold
  BY <1>m, <1>12 DEF Hold, Mains
<1>13. CASE SmoothExit
  BY <1>m, <1>13 DEF SmoothExit, Mains
<1>14. CASE Interrupt
  BY <1>m, <1>14 DEF Interrupt
<1>15. CASE Begin
  BY <1>m, <1>15 DEF Begin
<1>16. CASE Solve
  BY <1>m, <1>16 DEF Solve, modeVars
<1>17. CASE GoHome
  BY <1>m, <1>17 DEF GoHome
<1>18. CASE Look
  BY <1>m, <1>18 DEF Look, Mains
<1> QED BY <1>1, <1>2, <1>3, <1>4, <1>5, <1>6, <1>7, <1>8, <1>9, <1>10, <1>11, <1>12,
           <1>13, <1>14, <1>15, <1>16, <1>17, <1>18
        DEF MainThread

\* When the threads have ended, nothing happens any more.
LEMMA EndIsEnd ==
  ASSUME ArmType, ThreadsInv, main.at = "end", ModeNext \/ UNCHANGED <<armVars, modeVars>>
  PROVE  ~ModeNext /\ UNCHANGED <<armVars, modeVars>>
<1>1. threads = {}
  BY DEF ThreadsInv
<1>2. ~MainThread
  BY <1>1 DEF MainThread, Setup, Start, AwaitReady, Await, Command, ReadPose, Latch, SetGains,
     Relatch,
     StopControl, Join, Hold, SmoothExit, Closed, Interrupt, SecondInterrupt, Begin, Solve, GoHome,
     Arrived, Look, GiveUp, Fade, Faded, Close, Tool, Teleop, MainStep, Awake
<1>3. ~ControlThread /\ ~PublishThread /\ ~Tick
  BY <1>1 DEF ControlThread, ControlRead, ControlMode, ControlCommit, PublishThread, RampWeight,
     RampPublish, Publish, Tick, Awake
<1> QED BY <1>2, <1>3 DEF ModeNext

LEMMA LastWeight == FadeWeight(HomeSteps) = 0
<1>1. /\ Steps \in Nat /\ HomeSteps \in Nat /\ HomeSteps > 0 /\ Steps % HomeSteps = 0
  BY ArmAssumption DEF ArmAssumption
<1>2. Steps = (HomeSteps * (Steps \div HomeSteps)) + (Steps % HomeSteps)
  BY <1>1
<1> QED BY <1>1, <1>2 DEF FadeWeight

LEMMA FadeStep ==
  ASSUME ArmType, ThreadsInv, behind \in Nat, FadeInv,
         ModeNext \/ UNCHANGED <<armVars, modeVars, behind>>
  PROVE  FadeInv'
<1> USE DEF FadeInv
<1>f. ArmFields
  BY ArmFieldsHold
<1> USE <1>f DEF ArmFields, MainStep, Tool, Teleop, Awake, Go, MainAt
<1>m. main \in Mains
  BY DEF ArmType
<1>s. \A t \in Threads, n \in Nat :
        Sleep(t, n) => sleep'[t] = n /\ \A u \in Threads \ {t} : sleep'[u] = sleep[u]
  BY Sleeps
<1>t. Threads = {"main", "publish", "control"}
  BY DEF Threads
<1>1. CASE Arrived
  <2>1. /\ main'.at \in {"fade", "close"} /\ main'.i = 0
        /\ main'.at = "close" => motion_mode' = FALSE
        /\ ending' = IF publisher.at = "loop" THEN "handed_back" ELSE "late_ramp"
        /\ publisher' = publisher
    BY <1>1 DEF Arrived, RampedUp, ArmType
  <2> QED BY <2>1
<1>2. CASE Fade /\ CountAnew
  <2>1. /\ main.at = "fade" /\ main.i <= HomeSteps /\ sleep["main"] = 0
        /\ main'.at = "fade" /\ main'.i = main.i + 1
        /\ UNCHANGED <<ending, publisher>> /\ behind' = 0 /\ msg'.weight = FadeWeight(main.i)
    BY <1>2, <1>m DEF Fade, SetWeight, Mains, ArmType, Messages, CountAnew, BeginsCount
  <2>2. sleep'["main"] = FadeTicks /\ sleep'["publish"] = sleep["publish"]
    BY <1>2, <1>s, <1>t DEF Fade
  <2>3. main'.i > HomeSteps => msg'.weight = 0
    BY <2>1, LastWeight
  <2> QED BY <2>1, <2>2, <2>3 DEF ThreadsInv
<1>3. CASE Faded /\ CountAnew
  <2>1. /\ main.at = "fade" /\ main.i > HomeSteps /\ sleep["main"] = 0
        /\ main'.at = "close" /\ main'.i = 0
        /\ UNCHANGED <<ending, publisher, behind, msg, sent, motion_mode>>
    BY <1>3, <1>m DEF Faded, CountAnew, BeginsCount, Mains
  <2>2. sleep'["main"] = 1 /\ sleep'["publish"] = sleep["publish"]
    BY <1>3, <1>s, <1>t DEF Faded
  <2> QED BY <2>1, <2>2
<1>4. CASE Close \/ Closed
  BY <1>4 DEF Close, Closed, End
<1>5. CASE GiveUp \/ SecondInterrupt
  BY <1>5 DEF GiveUp, SecondInterrupt, End
<1>6. CASE ending' = ending /\ {main.at, main'.at} \cap {"fade", "close", "end"} = {}
  BY <1>6
<1>7. CASE ControlThread /\ UNCHANGED behind
  <2>1. UNCHANGED <<main, publisher, behind, msg, sent, ending, motion_mode>>
    BY <1>7 DEF ControlThread, ControlRead, ControlMode, ControlCommit, armVars
  <2>2. sleep' = sleep \/ Sleep("control", 1)
    BY <1>7 DEF ControlThread, ControlRead, ControlMode, ControlCommit, armVars
  <2>3. sleep'["main"] = sleep["main"] /\ sleep'["publish"] = sleep["publish"]
    BY <1>s, <1>t, <2>2
  <2> QED BY <2>1, <2>3
<1>8. CASE RampWeight /\ UNCHANGED <<modeVars, behind>>
  BY <1>8 DEF RampWeight, modeVars
<1>9. CASE RampPublish /\ UNCHANGED <<modeVars, behind>>
  BY <1>9 DEF RampPublish, SendTarget, modeVars
<1>10. CASE Publish /\ UNCHANGED <<modeVars, behind>>
  <2>1. /\ UNCHANGED <<main, publisher, behind, ending, motion_mode>>
        /\ sent'.weight = msg.weight /\ msg'.weight = msg.weight
    BY <1>10 DEF Publish, SendTarget, modeVars, ArmType, Messages
  <2> QED BY <2>1
<1>11. CASE Tick /\ CountTick /\ UNCHANGED modeVars
  <2>1. main.at \in {"fade", "close"} => "main" \in threads /\ "publish" \in threads
    BY DEF ThreadsInv
  <2>2. /\ sleep'["main"] = IF sleep["main"] > 0 THEN sleep["main"] - 1 ELSE 0
        /\ sleep'["publish"] = IF sleep["publish"] > 0 THEN sleep["publish"] - 1 ELSE 0
        /\ behind' = IF main.at \in {"hold", "exit", "fade", "close"}
                       /\ sleep["publish"] = 0 /\ sleep["main"] > 0
                     THEN behind + 1 ELSE behind
        /\ UNCHANGED <<main, publisher, msg, sent, ending, motion_mode>>
    BY <1>11, <1>t, Ticks DEF modeVars, CountTick, FallsBehind
  <2> QED BY <2>1, <2>2
<1>12. CASE UNCHANGED <<armVars, modeVars, behind>>
  BY <1>12 DEF armVars, modeVars
<1> QED BY <1>1, <1>2, <1>3, <1>4, <1>5, <1>6, <1>7, <1>8, <1>9, <1>10, <1>11, <1>12, BeforeFade
        DEF ModeNext, PublishThread

LEMMA HandedBackStep ==
  ASSUME WeightInv, ModeNext \/ UNCHANGED <<armVars, modeVars, behind>>
  PROVE  HandedBack'
<1> USE DEF WeightInv, HandedBack
<1>f. ArmFields
  BY ArmFieldsHold
<1>1. CASE main.at = "end"
  BY <1>1, EndIsEnd DEF armVars, modeVars, Margin
<1>2. CASE Close /\ CountAnew
  <2>1. /\ main.at = "close" /\ sleep["main"] = 0 /\ program' = "teleop"
        /\ UNCHANGED <<ending, sent, motion_mode, behind>>
    BY <1>2 DEF Close, Teleop, MainStep, Awake, CountAnew, BeginsCount
  <2> QED BY <1>f, <2>1 DEF FadeInv, Margin, ArmFields
<1>3. CASE Closed /\ CountAnew
  BY <1>3 DEF Closed, RampInv, Tool, MainStep, CountAnew, BeginsCount, Margin
<1>4. CASE GiveUp \/ SecondInterrupt
  BY <1>4 DEF GiveUp, SecondInterrupt, End
<1>5. CASE /\ main.at # "end" /\ main'.at = "end" /\ ~GiveUp /\ ~SecondInterrupt
           /\ ~(Close /\ CountAnew) /\ ~(Closed /\ CountAnew)
  <2>1. MainThread /\ CountAnew
    BY <1>5 DEF ModeNext, ControlThread, ControlRead, ControlMode, ControlCommit, armVars,
       modeVars
  <2>2. Arrived \/ Fade \/ Faded
    BY <1>5, <2>1, BeforeFade
  <2>3. main \in Mains
    BY DEF ArmType
  <2>4. ~Arrived /\ ~Faded
    BY <1>5 DEF Arrived, Faded, Go, MainAt
  <2>5. ~Fade
    BY <1>5, <2>3 DEF Fade, Mains, Teleop, MainStep
  <2> QED BY <2>2, <2>4, <2>5
<1> QED BY <1>1, <1>2, <1>3, <1>4, <1>5

\* A program that ends after its ramp-down has given the arms back: the last message
\* written carries the weight 0 (shutdown() of right_arm_mode.py and
\* ctrl_dual_arm_go_home() of robot_arm.py), however late the threads are, as long as
\* the publish thread does not fall behind the main thread by as much as the hold
\* (0.5 s) within the shutdown, or by the 20 ms after the last weight going home.
THEOREM GivesBack == Spec => []HandedBack
<1>1. Init => WeightInv
  <2> SUFFICES ASSUME Init PROVE WeightInv
    OBVIOUS
  <2> USE DEF Init
  <2>1. ArmType /\ ThreadsInv
    BY InitArm
  <2>2. main.at = "construct" /\ ending = "" /\ behind = 0
    BY DEF ModeInit, MainAt
  <2> QED BY <2>1, <2>2 DEF WeightInv, RampInv, FadeInv, HandedBack
<1>2. WeightInv /\ [Next]_vars => WeightInv'
  <2> SUFFICES ASSUME WeightInv, [Next]_vars PROVE WeightInv'
    OBVIOUS
  <2>1. ModeNext \/ UNCHANGED <<armVars, modeVars, behind>>
    BY DEF Next, vars
  <2>2. behind' \in Nat
    BY <2>1 DEF WeightInv, ModeNext, CountAnew, CountTick
  <2> QED BY <2>1, <2>2, TypeStep, ThreadsStep, RampStep, FadeStep, HandedBackStep DEF WeightInv
<1>3. WeightInv => HandedBack
  BY DEF WeightInv
<1> QED BY <1>1, <1>2, <1>3, PTL DEF Spec
-----------------------------------------------------------------------------
(* The right arm's way: every pose that some thread has read is where the  *)
(* arm was a little while ago.                                             *)

Near(x, y, n) == x - y <= n /\ y - x <= n

Here == q["right"]
Goal == q_target["right"]
Lock == lock_q["right"]
Shown == msg.q["right"]                \* where the last command sends the arm
Stale == late + 2 - sleep["control"]   \* how far the target may be behind

\* What the control thread is about to make the target.
MainRead == main.q["right"]
PoseRead == control.q["right"]
ReadLock == control.lock["right"]

NearRead(x, n) ==
  /\ control.at \in {"mode", "commit"} => Near(x, PoseRead, n)
  /\ control.at = "commit" /\ control.mode = "lock" => Near(x, ReadLock, late + 1)

Latching == main.at \in {"latch", "relatch"}
OnWay == late + 2 - sleep["publish"]

\* Who runs when: a pose is latched and the gains are set without a pause.
ToolInv ==
  /\ control.at \in {"mode", "commit"} => sleep["control"] = 0
  /\ main.at \in {"start", "read", "latch", "gains", "shutdown", "relatch", "stop"} =>
       sleep["main"] = 0
  /\ main.at = "hold" /\ main.i = 0 => sleep["main"] = 0
  /\ main.at = "join" => sleep["main"] = sleep["control"] \/ sleep["main"] = 0
  /\ main.at = "gains" => main.mode = mode
  /\ stop => main.at \in {"join", "hold", "exit", "end"}
  /\ main.at # "end" /\ "control" \notin threads =>
       /\ main.at \in {"construct", "start", "shutdown", "relatch", "stop", "join", "hold", "exit"}
       /\ mode = "lock" /\ ~msg.soft /\ sleep["control"] = 0 /\ control.at \in {"read", "done"}
       /\ main.at = "join" => sleep["main"] = 0
  /\ main.at \in {"hold", "exit"} => "control" \notin threads
  /\ main.at \in {"stop", "join", "hold", "exit"} => mode = "lock"
  /\ main.at \in {"join", "hold", "exit"} => ~msg.soft
  /\ (main.at = "hold" /\ main.i > 0) \/ main.at = "exit" => Goal = Lock
  /\ mode = "lock" /\ msg.soft =>
       main.at \in {"gains", "shutdown", "relatch", "stop", "end"}
  /\ sent.weight > 0 => sent.q = msg.q

\* What has been read, and what was made of it.
ReadInv ==
  /\ NearRead(Here, late)
  /\ Near(Here, Goal, Stale)
  /\ Latching =>
       /\ Near(MainRead, Here, late) /\ NearRead(MainRead, late + 1)
       /\ Near(MainRead, Goal, Stale)
       /\ mode = "lock" => Near(MainRead, Lock, late + 1)
       /\ sent.soft => Near(MainRead, Shown, OnWay)

\* What is locked is near where the arm is.
LockInv ==
  mode = "lock" /\ main.at # "end" =>
    /\ main.at # "exit" => Near(Here, Lock, late + 1) /\ NearRead(Lock, late + 1)
    /\ Near(Lock, Goal, Stale)
    /\ Near(Here, Lock, late) \/ Near(Lock, Goal, late + 1)
    /\ sent.soft => Near(Here, Lock, OnWay - 1) /\ Near(Lock, Shown, OnWay)
    /\ msg.soft => Near(Here, Lock, late)

\* A stiff arm goes nowhere but to its target.
StiffInv ==
  IF sent.soft THEN Near(Here, Shown, OnWay)
  ELSE main.at # "end" =>
         /\ Near(Goal, Shown, late + 2)
         /\ main.at # "exit" => Near(Here, Shown, 1)
         /\ mode = "lock" /\ main.at # "exit" => Near(Lock, Shown, late + 1)

RightInv == ToolInv /\ ReadInv /\ LockInv /\ StiffInv

\* The left arm stays where it was taken over.
LeftStays ==
  LET x == q["left"] IN
    /\ q_target["left"] = x /\ lock_q["left"] = x /\ msg.q["left"] = x
    /\ Latching => main.q["left"] = x
    /\ control.at = "commit" => control.lock["left"] = x

Fresh ==
  main.at = "construct" =>
    /\ sleep["main"] = 0 /\ sleep["control"] = 0 /\ control.at = "read" /\ mode = "lock" /\ ~stop
    /\ sent.q = Home /\ sent.weight = 0 /\ ~sent.soft

Tooling == program = "right_arm_mode" /\ main.at # "construct"
ToolKeeps == Fresh /\ (Tooling => RightInv /\ LeftStays)

\* The teleoperation waits for START: the arms stay, but for a tick towards home when
\* the first message is late.
AwaitKeeps ==
  program = "teleop" /\ kind = "G1_29" /\ main.at = "await" =>
    /\ threads = {"main", "publish"} /\ ~msg.soft /\ ~sent.soft
    /\ \A a \in Arms :
         /\ Near(q[a], q_target[a], late)
         /\ \/ sent.q = Home /\ sent.weight = 0 /\ sleep["publish"] = 0
            \/ Near(q_target[a], sent.q[a], late) /\ Near(q[a], sent.q[a], 1)

KeepsInv == ArmType /\ ThreadsInv /\ ToolKeeps /\ AwaitKeeps

Views ==
  /\ Here \in Int /\ Goal \in Int /\ Lock \in Int /\ Shown \in Int
  /\ MainRead \in Int /\ PoseRead \in Int /\ ReadLock \in Int

LEMMA ViewTypes ==
  /\ ArmType => Views
  /\ ArmType' => Views'
BY DEF ArmType, Views, Poses, Arms, Messages, Mains, Controls, Here, Goal, Lock, Shown,
   MainRead,
   PoseRead, ReadLock

LEMMA RightStep ==
  ASSUME ArmType, ArmType', ThreadsInv, Tooling, RightInv,
         ModeNext \/ UNCHANGED <<armVars, modeVars>>
  PROVE  RightInv'
<1> USE DEF RightInv
<1>f. ArmFields
  BY ArmFieldsHold
<1>v. Views /\ Views'
  BY ViewTypes
<1>m. /\ main \in Mains /\ control \in Controls /\ msg \in Messages /\ sent \in Messages
      /\ mode \in Modes /\ mode' \in Modes /\ stop \in BOOLEAN
  BY DEF ArmType
<1>s. \A t \in Threads, n \in Nat :
        Sleep(t, n) => sleep'[t] = n /\ \A u \in Threads \ {t} : sleep'[u] = sleep[u]
  BY Sleeps
<1>t. Threads = {"main", "publish", "control"}
  BY DEF Threads
<1>p. program = "right_arm_mode" /\ main.at # "construct" /\ kind = "G1_29" /\ motion_mode = TRUE
  BY DEF Tooling, ThreadsInv
<1>0. CASE main.at = "end"
  BY <1>0, EndIsEnd DEF armVars, modeVars, ToolInv, ReadInv, LockInv, StiffInv, Here, Goal,
     Lock, Shown,
     MainRead, PoseRead, ReadLock, NearRead, Latching, Stale, OnWay
<1>z. SUFFICES ASSUME main.at # "end" PROVE RightInv'
  BY <1>0
<1>1. CASE Start
  <2>1. /\ UNCHANGED <<control, sent, mode, stop, late, q, q_target, lock_q>>
        /\ main.at = "start"
        /\ main'.at = "ready"
        /\ ~msg'.soft
        /\ Shown' = Shown
        /\ msg'.q = msg.q
        /\ "control" \in threads'
        /\ main'.i = 0
        /\ sleep' = sleep
    BY <1>1, <1>m, <1>f DEF ArmFields, Start, Go, MainAt, MainStep, Tool, Awake, Mains,
       Controls, Messages, Here, Goal, Lock, Shown, MainRead, PoseRead, ReadLock, Gains
  <2>2. /\ PoseRead' = PoseRead /\ ReadLock' = ReadLock /\ Here' = Here
        /\ Goal' = Goal /\ Lock' = Lock
    BY <2>1 DEF PoseRead, ReadLock, Here, Goal, Lock
  <2>5. ToolInv'
    BY <2>1 DEF ToolInv
  <2>6. ReadInv'
    BY <2>1, <2>2 DEF ReadInv, NearRead, Latching, Stale
  <2>7. LockInv'
    BY <2>1, <2>2 DEF LockInv, NearRead, Stale, OnWay
  <2>8. StiffInv'
    BY <2>1, <2>2 DEF StiffInv, OnWay
  <2> QED BY <2>5, <2>6, <2>7, <2>8
<1>2. CASE AwaitReady
  <2>1. /\ UNCHANGED <<control, threads, msg, sent, mode, stop, late, q, q_target, lock_q>>
        /\ main.at = "ready" /\ main'.at \in {"ready", "read"}
    BY <1>2, <1>m DEF AwaitReady, Go, MainAt, MainStep, Tool, Mains
  <2>2. /\ PoseRead' = PoseRead /\ ReadLock' = ReadLock /\ Shown' = Shown
        /\ Here' = Here /\ Goal' = Goal /\ Lock' = Lock
    BY <2>1 DEF PoseRead, ReadLock, Shown, Here, Goal, Lock
  <2>3. /\ sleep'["publish"] = sleep["publish"]
        /\ sleep'["control"] = sleep["control"]
        /\ main'.at = "read" => sleep'["main"] = 0
    BY <1>2, <1>s, <1>t, <1>m DEF AwaitReady, Mains, Awake, MainStep, Tool
  <2>5. ToolInv'
    BY <2>1, <2>3 DEF ToolInv
  <2>6. ReadInv'
    BY <1>f, <1>v, <1>m, <1>p, <1>z, <2>1, <2>2, <2>3 DEF ArmFields, Views, Modes, ToolInv,
       ReadInv, LockInv, StiffInv, NearRead, Near, Latching, Stale, OnWay, Toward
  <2>7. LockInv'
    BY <2>1, <2>2, <2>3 DEF LockInv, NearRead, Stale, OnWay
  <2>8. StiffInv'
    BY <2>1, <2>2, <2>3 DEF StiffInv, OnWay
  <2> QED BY <2>5, <2>6, <2>7, <2>8
<1>3. CASE Await
  <2>1. /\ UNCHANGED <<main, control, threads, msg, sent, mode, stop, late, q, q_target, lock_q>>
        /\ main.at \in {"console", "await"}
    BY <1>3 DEF Await, MainStep, modeVars
  <2>2. /\ MainRead' = MainRead /\ PoseRead' = PoseRead /\ ReadLock' = ReadLock
        /\ Shown' = Shown /\ Here' = Here /\ Goal' = Goal /\ Lock' = Lock
    BY <2>1 DEF MainRead, PoseRead, ReadLock, Shown, Here, Goal, Lock
  <2>3. /\ sleep'["publish"] = sleep["publish"]
        /\ sleep'["control"] = sleep["control"]
    BY <1>3, <1>s, <1>t DEF Await
  <2>5. ToolInv'
    BY <2>1, <2>3 DEF ToolInv
  <2>6. ReadInv'
    BY <2>1, <2>2, <2>3 DEF ReadInv, NearRead, Latching, Stale
  <2>7. LockInv'
    BY <2>1, <2>2, <2>3 DEF LockInv, NearRead, Stale, OnWay
  <2>8. StiffInv'
    BY <2>1, <2>2, <2>3 DEF StiffInv, OnWay
  <2> QED BY <2>5, <2>6, <2>7, <2>8
<1>4. CASE Command
  <2>1. /\ UNCHANGED <<control, threads, msg, sent, mode, stop, late, q, q_target, lock_q>>
        /\ main.at = "console" /\ main'.at = "read"
        /\ sleep["main"] = 0
        /\ sleep' = sleep
    BY <1>4 DEF Command, MainAt, MainStep, Tool, Awake, armVars
  <2>2. /\ PoseRead' = PoseRead /\ ReadLock' = ReadLock /\ Shown' = Shown
        /\ Here' = Here /\ Goal' = Goal /\ Lock' = Lock
    BY <2>1 DEF PoseRead, ReadLock, Shown, Here, Goal, Lock
  <2>5. ToolInv'
    BY <2>1 DEF ToolInv
  <2>6. ReadInv'
    BY <2>1, <2>2 DEF ReadInv, NearRead, Latching, Stale
  <2>7. LockInv'
    BY <2>1, <2>2 DEF LockInv, NearRead, Stale, OnWay
  <2>8. StiffInv'
    BY <2>1, <2>2 DEF StiffInv, OnWay
  <2> QED BY <2>5, <2>6, <2>7, <2>8
<1>5. CASE ReadPose
  <2>1. /\ UNCHANGED <<control, threads, msg, sent, mode, stop, late, q, q_target, lock_q>>
        /\ \/ main.at = "read" /\ main'.at = "latch"
           \/ main.at = "shutdown" /\ main'.at = "relatch"
        /\ MainRead' = Here
        /\ sleep["main"] = 0
        /\ sleep' = sleep
    BY <1>5 DEF ReadPose, MainStep, Tool, Awake, Here, MainRead
  <2>2. /\ PoseRead' = PoseRead /\ ReadLock' = ReadLock /\ Shown' = Shown
        /\ Here' = Here /\ Goal' = Goal /\ Lock' = Lock
    BY <2>1 DEF PoseRead, ReadLock, Shown, Here, Goal, Lock
  <2>5. ToolInv'
    BY <2>1 DEF ToolInv
  <2>6. ReadInv'
    BY <1>f, <1>v, <2>1, <2>2 DEF ArmFields, Views, ReadInv, LockInv, StiffInv, NearRead, Near,
       Stale, OnWay
  <2>7. LockInv'
    BY <2>1, <2>2 DEF LockInv, NearRead, Stale, OnWay
  <2>8. StiffInv'
    BY <2>1, <2>2 DEF StiffInv, OnWay
  <2> QED BY <2>5, <2>6, <2>7, <2>8
<1>6. CASE Latch
  <2>1. /\ UNCHANGED <<control, threads, msg, sent, stop, late, q, q_target>>
        /\ main.at = "latch" /\ main'.at = "gains" /\ main'.mode = mode' /\ mode' \in Modes
        /\ mode' = "lock" => Lock' = MainRead
        /\ sleep["main"] = 0
        /\ sleep' = sleep
    BY <1>6, <1>m DEF Latch, MainAt, MainStep, Tool, Awake, Lock, MainRead, Latched, armVars
  <2>2. /\ PoseRead' = PoseRead /\ ReadLock' = ReadLock /\ Shown' = Shown
        /\ Here' = Here /\ Goal' = Goal
    BY <2>1 DEF PoseRead, ReadLock, Shown, Here, Goal
  <2>4. /\ NearRead(MainRead, late + 1) /\ Near(MainRead, Goal, Stale)
        /\ Near(Here, MainRead, late) /\ Near(Here, MainRead, late + 1)
        /\ sent.soft => Near(Here, MainRead, OnWay - 1) /\ Near(MainRead, Shown, OnWay)
        /\ ~sent.soft => Near(MainRead, Shown, late + 1)
        /\ ~Latching'
    BY <1>f, <1>v, <2>1 DEF ArmFields, Views, ReadInv, StiffInv, Near, Latching, OnWay,
       ThreadsInv
  <2>5. ToolInv'
    BY <2>1 DEF ToolInv
  <2>6. ReadInv'
    BY <2>1, <2>2, <2>4 DEF ReadInv, NearRead, Stale
  <2>7. LockInv'
    BY <2>1, <2>2, <2>4 DEF LockInv, NearRead, Stale, OnWay
  <2>8. StiffInv'
    BY <2>1, <2>2, <2>4 DEF StiffInv, OnWay
  <2> QED BY <2>5, <2>6, <2>7, <2>8
<1>7. CASE SetGains
  <2>1. /\ UNCHANGED <<control, threads, sent, mode, stop, late, q, q_target, lock_q>>
        /\ main.at = "gains" /\ main'.at = "console"
        /\ msg'.soft = (main.mode = "free")
        /\ Shown' = Shown
        /\ msg'.q = msg.q
    BY <1>7 DEF SetGains, Go, MainAt, MainStep, Tool, Shown, Gains
  <2>2. /\ PoseRead' = PoseRead /\ ReadLock' = ReadLock /\ Here' = Here
        /\ Goal' = Goal /\ Lock' = Lock
    BY <2>1 DEF PoseRead, ReadLock, Here, Goal, Lock
  <2>3. /\ sleep'["publish"] = sleep["publish"]
        /\ sleep'["control"] = sleep["control"]
    BY <1>7, <1>s, <1>t DEF SetGains
  <2>5. ToolInv'
    BY <1>m, <2>1, <2>3 DEF ToolInv
  <2>6. ReadInv'
    BY <2>1, <2>2, <2>3 DEF ReadInv, NearRead, Latching, Stale
  <2>7. LockInv'
    BY <1>m, <2>1, <2>2, <2>3 DEF ToolInv, LockInv, NearRead, Stale, OnWay
  <2>8. StiffInv'
    BY <2>1, <2>2, <2>3 DEF StiffInv, OnWay
  <2> QED BY <2>5, <2>6, <2>7, <2>8
<1>8. CASE Relatch
  <2>1. /\ UNCHANGED <<control, threads, msg, sent, stop, late, q, q_target>>
        /\ main.at = "relatch" /\ main'.at = "stop" /\ mode' = "lock"
        /\ Lock' = MainRead
        /\ sleep["main"] = 0
        /\ sleep' = sleep
    BY <1>8 DEF Relatch, Go, MainAt, MainStep, Tool, Awake, Lock, MainRead, armVars
  <2>2. /\ PoseRead' = PoseRead /\ ReadLock' = ReadLock /\ Shown' = Shown
        /\ Here' = Here /\ Goal' = Goal
    BY <2>1 DEF PoseRead, ReadLock, Shown, Here, Goal
  <2>4. /\ NearRead(MainRead, late + 1) /\ Near(MainRead, Goal, Stale)
        /\ Near(Here, MainRead, late) /\ Near(Here, MainRead, late + 1)
        /\ sent.soft => Near(Here, MainRead, OnWay - 1) /\ Near(MainRead, Shown, OnWay)
        /\ ~sent.soft => Near(MainRead, Shown, late + 1)
        /\ ~Latching'
    BY <1>f, <1>v, <2>1 DEF ArmFields, Views, ReadInv, StiffInv, Near, Latching, OnWay,
       ThreadsInv
  <2>5. ToolInv'
    BY <2>1 DEF ToolInv
  <2>6. ReadInv'
    BY <2>1, <2>2, <2>4 DEF ReadInv, NearRead, Stale
  <2>7. LockInv'
    BY <2>1, <2>2, <2>4 DEF LockInv, NearRead, Stale, OnWay
  <2>8. StiffInv'
    BY <2>1, <2>2, <2>4 DEF StiffInv, OnWay
  <2> QED BY <2>5, <2>6, <2>7, <2>8
<1>9. CASE StopControl
  <2>1. /\ UNCHANGED <<control, threads, sent, mode, late, q, q_target, lock_q>>
        /\ main.at = "stop" /\ main'.at = "join"
        /\ ~msg'.soft
        /\ Shown' = Shown
        /\ msg'.q = msg.q
    BY <1>9, <1>m, <1>f DEF ArmFields, StopControl, Go, MainAt, MainStep, Tool, Awake, Mains,
       Controls, Messages, Here, Goal, Lock, Shown, MainRead, PoseRead, ReadLock, Gains
  <2>2. /\ PoseRead' = PoseRead /\ ReadLock' = ReadLock /\ Here' = Here
        /\ Goal' = Goal /\ Lock' = Lock
    BY <2>1 DEF PoseRead, ReadLock, Here, Goal, Lock
  <2>3. /\ sleep'["publish"] = sleep["publish"]
        /\ sleep'["control"] = sleep["control"]
        /\ sleep'["main"] = sleep["control"]
    BY <1>9, <1>s, <1>t, <1>f DEF StopControl, ArmFields
  <2>5. ToolInv'
    BY <2>1, <2>3 DEF ToolInv
  <2>6. ReadInv'
    BY <2>1, <2>2, <2>3 DEF ReadInv, NearRead, Latching, Stale
  <2>7. LockInv'
    BY <2>1, <2>2, <2>3 DEF LockInv, NearRead, Stale, OnWay
  <2>8. StiffInv'
    BY <2>1, <2>2, <2>3 DEF StiffInv, OnWay
  <2> QED BY <2>5, <2>6, <2>7, <2>8
<1>10. CASE Join
  <2>1. /\ UNCHANGED <<control, threads, msg, sent, mode, stop, late, q, q_target, lock_q>>
        /\ main.at = "join" /\ main'.at = "hold" /\ main'.i = 0
        /\ "control" \notin threads /\ sleep["main"] = 0
        /\ sleep' = sleep
    BY <1>10 DEF Join, Go, MainAt, MainStep, Tool, Awake, armVars
  <2>2. /\ PoseRead' = PoseRead /\ ReadLock' = ReadLock /\ Shown' = Shown
        /\ Here' = Here /\ Goal' = Goal /\ Lock' = Lock
    BY <2>1 DEF PoseRead, ReadLock, Shown, Here, Goal, Lock
  <2>5. ToolInv'
    BY <2>1 DEF ToolInv
  <2>6. ReadInv'
    BY <2>1, <2>2 DEF ReadInv, NearRead, Latching, Stale
  <2>7. LockInv'
    BY <2>1, <2>2 DEF LockInv, NearRead, Stale, OnWay
  <2>8. StiffInv'
    BY <2>1, <2>2 DEF StiffInv, OnWay
  <2> QED BY <2>5, <2>6, <2>7, <2>8
<1>11. CASE Hold
  <2>1. /\ UNCHANGED <<control, threads, msg, sent, mode, stop, late, q, lock_q>>
        /\ main.at = "hold"
        /\ \/ main'.at = "hold" /\ main'.i = main.i + 1 /\ Goal' = Lock
           \/ main'.at = "exit" /\ main'.i = 0 /\ main.i > 0 /\ Goal' = Goal
    BY <1>11, <1>m, <1>f DEF ArmFields, Hold, Go, MainAt, MainStep, Tool, Mains, Goal, Lock,
       CtrlDualArm, Holds
  <2>2. /\ PoseRead' = PoseRead /\ ReadLock' = ReadLock /\ Shown' = Shown
        /\ Here' = Here /\ Lock' = Lock
    BY <2>1 DEF PoseRead, ReadLock, Shown, Here, Lock
  <2>3. /\ sleep'["publish"] = sleep["publish"]
        /\ sleep'["control"] = sleep["control"]
    BY <1>11, <1>s, <1>t DEF Hold
  <2>4. /\ control.at \notin {"mode", "commit"} /\ ~Latching' /\ mode = "lock" /\ ~msg.soft
        /\ sleep["control"] = 0 /\ (main'.at = "exit" => Goal = Lock)
    BY <2>1 DEF ToolInv, Latching
  <2>8. /\ Stale = late + 2 /\ Stale' = late + 2 /\ OnWay' = OnWay
    BY <2>1, <2>3, <2>4 DEF Stale, OnWay
  <2>9. /\ Near(Here', Goal', late + 2) /\ Near(Lock', Goal', late + 1)
        /\ Near(Lock', Goal', late + 2)
        /\ ~sent.soft => Near(Goal', Shown', late + 2)
    <3>1. CASE Goal' = Lock
      BY <1>f, <1>v, <2>1, <2>2, <2>4, <3>1 DEF ArmFields, Views, LockInv, StiffInv, Near
    <3>2. CASE Goal' = Goal /\ main'.at = "exit"
      BY <1>f, <1>v, <2>1, <2>2, <2>4, <2>8, <3>2 DEF ArmFields, Views, ReadInv, StiffInv, Near
    <3> QED BY <2>1, <3>1, <3>2
  <2>15. ToolInv'
    BY <1>f, <2>1, <2>2, <2>3 DEF ArmFields, ToolInv
  <2>16. ReadInv'
    BY <2>1, <2>4, <2>8, <2>9 DEF ReadInv, NearRead
  <2>17. LockInv'
    BY <2>1, <2>2, <2>8, <2>9 DEF LockInv, NearRead
  <2>18. StiffInv'
    BY <2>1, <2>2, <2>8, <2>9 DEF StiffInv
  <2> QED BY <2>15, <2>16, <2>17, <2>18
<1>12. CASE SmoothExit
  <2>1. /\ UNCHANGED <<control, threads, mode, stop, late, q, q_target, lock_q>>
        /\ main.at = "exit" /\ main'.at = "exit"
        /\ msg'.soft = msg.soft /\ Shown' = Shown /\ sent'.soft = msg'.soft /\ sent'.q = msg'.q
    BY <1>12 DEF SmoothExit, MainStep, Tool, Shown, SmoothExitStep
  <2>2. /\ PoseRead' = PoseRead /\ ReadLock' = ReadLock /\ Here' = Here
        /\ Goal' = Goal /\ Lock' = Lock
    BY <2>1 DEF PoseRead, ReadLock, Here, Goal, Lock
  <2>3. /\ sleep'["publish"] = sleep["publish"]
        /\ sleep'["control"] = sleep["control"]
    BY <1>12, <1>s, <1>t DEF SmoothExit
  <2>5. ToolInv'
    BY <2>1, <2>2, <2>3 DEF ToolInv
  <2>6. ReadInv'
    BY <2>1, <2>2, <2>3 DEF ReadInv, NearRead, Latching, Stale
  <2>7. LockInv'
    BY <2>1, <2>2, <2>3 DEF ToolInv, LockInv, Stale
  <2>8. StiffInv'
    BY <1>f, <1>v, <2>1, <2>2 DEF ArmFields, Views, ToolInv, LockInv, StiffInv, Near, OnWay
  <2> QED BY <2>5, <2>6, <2>7, <2>8
<1>13. CASE Closed
  <2>1. /\ UNCHANGED <<control, msg, sent, mode, stop, late, q, q_target, lock_q>>
        /\ main'.at = "end"
        /\ sleep' = sleep
    BY <1>13 DEF Closed, Go, MainAt, End
  <2>2. /\ PoseRead' = PoseRead /\ ReadLock' = ReadLock /\ Shown' = Shown
        /\ Here' = Here /\ Goal' = Goal /\ Lock' = Lock
    BY <2>1 DEF PoseRead, ReadLock, Shown, Here, Goal, Lock
  <2>5. ToolInv'
    BY <2>1 DEF ToolInv
  <2>6. ReadInv'
    BY <2>1, <2>2 DEF ReadInv, NearRead, Latching, Stale
  <2>7. LockInv'
    BY <2>1 DEF LockInv
  <2>8. StiffInv'
    BY <2>1, <2>2 DEF StiffInv, OnWay
  <2> QED BY <2>5, <2>6, <2>7, <2>8
<1>14. CASE SecondInterrupt
  <2>1. /\ UNCHANGED <<control, msg, sent, mode, stop, late, q, q_target, lock_q>>
        /\ main'.at = "end"
        /\ sleep' = sleep
    BY <1>14 DEF SecondInterrupt, Go, MainAt, End
  <2>2. /\ PoseRead' = PoseRead /\ ReadLock' = ReadLock /\ Shown' = Shown
        /\ Here' = Here /\ Goal' = Goal /\ Lock' = Lock
    BY <2>1 DEF PoseRead, ReadLock, Shown, Here, Goal, Lock
  <2>5. ToolInv'
    BY <2>1 DEF ToolInv
  <2>6. ReadInv'
    BY <2>1, <2>2 DEF ReadInv, NearRead, Latching, Stale
  <2>7. LockInv'
    BY <2>1 DEF LockInv
  <2>8. StiffInv'
    BY <2>1, <2>2 DEF StiffInv, OnWay
  <2> QED BY <2>5, <2>6, <2>7, <2>8
<1>15. CASE Interrupt
  <2>1. /\ UNCHANGED <<control, threads, msg, sent, mode, stop, late, q, q_target, lock_q>>
        /\ main.at \in {"start", "ready", "read", "latch", "gains", "console"} /\ main'.at = "shutdown"
    BY <1>15 DEF Interrupt, Go, MainAt
  <2>2. /\ PoseRead' = PoseRead /\ ReadLock' = ReadLock /\ Shown' = Shown
        /\ Here' = Here /\ Goal' = Goal /\ Lock' = Lock
    BY <2>1 DEF PoseRead, ReadLock, Shown, Here, Goal, Lock
  <2>3. /\ sleep'["publish"] = sleep["publish"]
        /\ sleep'["control"] = sleep["control"]
        /\ sleep'["main"] = 0
    BY <1>15, <1>s, <1>t DEF Interrupt
  <2>5. ToolInv'
    BY <2>1, <2>3 DEF ToolInv
  <2>6. ReadInv'
    BY <2>1, <2>2, <2>3 DEF ReadInv, NearRead, Latching, Stale
  <2>7. LockInv'
    BY <2>1, <2>2, <2>3 DEF LockInv, NearRead, Stale, OnWay
  <2>8. StiffInv'
    BY <2>1, <2>2, <2>3 DEF StiffInv, OnWay
  <2> QED BY <2>5, <2>6, <2>7, <2>8
<1>16. CASE ControlRead
  <2>1. /\ UNCHANGED <<main, msg, sent, mode, stop, late, q, q_target, lock_q>>
        /\ control.at = "read" /\ sleep["control"] = 0 /\ "control" \in threads
        /\ \/ stop /\ threads' = threads \ {"control"} /\ control'.at = "done"
           \/ threads' = threads /\ control'.at = "mode" /\ PoseRead' = Here
        /\ sleep' = sleep
    BY <1>16, <1>m, <1>f DEF ArmFields, ControlRead, Go, MainAt, MainStep, Tool, Awake, Mains,
       Controls, Messages, Here, Goal, Lock, Shown, MainRead, PoseRead, ReadLock, armVars,
       IdleControl
  <2>2. /\ MainRead' = MainRead /\ Shown' = Shown /\ Here' = Here /\ Goal' = Goal
        /\ Lock' = Lock
    BY <2>1 DEF MainRead, Shown, Here, Goal, Lock
  <2>4. Near(Here, Here, late) /\ (Latching => Near(MainRead, Here, late + 1))
    BY <1>f, <1>v DEF ArmFields, Views, ReadInv, Near
  <2>9. NearRead(Here, late)' /\ (Latching => NearRead(MainRead, late + 1)')
    BY <2>1, <2>2, <2>4 DEF NearRead
  <2>10. Stale' = Stale /\ OnWay' = OnWay /\ (Latching' <=> Latching)
    BY <2>1 DEF Stale, OnWay, Latching
  <2>5. ToolInv'
    BY <2>1 DEF ToolInv
  <2>6. ReadInv'
    BY <2>1, <2>2, <2>9, <2>10 DEF ReadInv
  <2>7. LockInv'
    BY <1>f, <1>v, <1>z, <2>1, <2>2, <2>4, <2>9, <2>10 DEF ArmFields, Views, LockInv, NearRead,
       Near, OnWay, Stale, ToolInv
  <2>8. StiffInv'
    BY <2>1, <2>2, <2>10 DEF StiffInv
  <2> QED BY <2>5, <2>6, <2>7, <2>8
<1>17. CASE ControlMode
  <2>1. /\ UNCHANGED <<main, threads, msg, sent, mode, stop, late, q, q_target, lock_q>>
        /\ control.at = "mode" /\ control'.at = "commit" /\ control'.mode = mode
        /\ "control" \in threads /\ sleep["control"] = 0
        /\ PoseRead' = PoseRead /\ ReadLock' = Lock
        /\ sleep' = sleep
    BY <1>17 DEF ControlMode, Awake, Lock, PoseRead, ReadLock, armVars
  <2>2. /\ MainRead' = MainRead /\ Shown' = Shown /\ Here' = Here /\ Goal' = Goal
        /\ Lock' = Lock
    BY <2>1 DEF MainRead, Shown, Here, Goal, Lock
  <2>5. ToolInv'
    BY <2>1 DEF ToolInv
  <2>6. ReadInv'
    BY <1>z, <2>1, <2>2 DEF ToolInv, ReadInv, LockInv, NearRead, Latching, Stale, OnWay
  <2>7. LockInv'
    BY <1>f, <1>v, <2>1, <2>2 DEF ArmFields, Views, LockInv, NearRead, Near, Stale, OnWay
  <2>8. StiffInv'
    BY <2>1, <2>2 DEF StiffInv, OnWay
  <2> QED BY <2>5, <2>6, <2>7, <2>8
<1>18. CASE ControlCommit
  <2>1. /\ UNCHANGED <<main, threads, msg, sent, mode, stop, late, q, lock_q>>
        /\ control.at = "commit" /\ control'.at = "read" /\ "control" \in threads
        /\ Goal' = IF control.mode = "lock" THEN ReadLock ELSE PoseRead
    BY <1>18 DEF ControlCommit, Awake, Goal, PoseRead, ReadLock, CtrlDualArm, Target,
       IdleControl
  <2>2. /\ MainRead' = MainRead /\ Shown' = Shown /\ Here' = Here /\ Lock' = Lock
    BY <2>1 DEF MainRead, Shown, Here, Lock
  <2>3. /\ sleep'["main"] = sleep["main"]
        /\ sleep'["publish"] = sleep["publish"]
        /\ sleep'["control"] = 1
    BY <1>18, <1>s, <1>t DEF ControlCommit
  <2>5. ToolInv'
    BY <2>1, <2>3 DEF ToolInv
  <2>6. ReadInv'
    BY <1>f, <1>v, <2>1, <2>2, <2>3 DEF ArmFields, Views, ReadInv, NearRead, Near, Latching,
       Stale, OnWay
  <2>7. LockInv'
    BY <2>1, <2>2, <2>3 DEF ToolInv, LockInv, NearRead, Stale, OnWay
  <2>8. StiffInv'
    BY <1>f, <1>v, <2>1, <2>2, <2>3 DEF ArmFields, Views, ToolInv, ReadInv, StiffInv, NearRead,
       Near, OnWay
  <2> QED BY <2>5, <2>6, <2>7, <2>8
<1>19. CASE RampWeight /\ UNCHANGED modeVars
  <2>1. /\ UNCHANGED <<main, control, threads, sent, mode, stop, late, q, q_target, lock_q>>
        /\ msg'.soft = msg.soft /\ Shown' = Shown
        /\ msg'.q = msg.q
        /\ sleep' = sleep
    BY <1>19 DEF RampWeight, Shown, modeVars
  <2>2. /\ MainRead' = MainRead /\ PoseRead' = PoseRead /\ ReadLock' = ReadLock
        /\ Here' = Here /\ Goal' = Goal /\ Lock' = Lock
    BY <2>1 DEF MainRead, PoseRead, ReadLock, Here, Goal, Lock
  <2>5. ToolInv'
    BY <2>1, <2>2 DEF ToolInv
  <2>6. ReadInv'
    BY <2>1, <2>2 DEF ReadInv, NearRead, Latching, Stale, OnWay
  <2>7. LockInv'
    BY <2>1, <2>2 DEF LockInv, NearRead, Stale, OnWay
  <2>8. StiffInv'
    BY <2>1, <2>2 DEF StiffInv, OnWay
  <2> QED BY <2>5, <2>6, <2>7, <2>8
<1>20. CASE RampPublish /\ UNCHANGED modeVars
  <2>1. /\ UNCHANGED <<main, control, threads, mode, stop, late, q, q_target, lock_q>>
        /\ msg'.soft = msg.soft /\ sent'.soft = msg'.soft /\ sent'.q = msg'.q
        /\ Shown' = Toward(Here, Goal)
    BY <1>20 DEF RampPublish, Here, Goal, Shown, SendTarget, Clip, Arms, modeVars
  <2>2. /\ MainRead' = MainRead /\ PoseRead' = PoseRead /\ ReadLock' = ReadLock
        /\ Here' = Here /\ Goal' = Goal /\ Lock' = Lock
    BY <2>1 DEF MainRead, PoseRead, ReadLock, Here, Goal, Lock
  <2>3. /\ sleep'["main"] = sleep["main"]
        /\ sleep'["control"] = sleep["control"]
        /\ sleep["publish"] = 0 /\ sleep'["publish"] = 1
    BY <1>20, <1>s, <1>t DEF RampPublish, SendTarget, Awake
  <2>5. ToolInv'
    BY <2>1, <2>2, <2>3 DEF ToolInv
  <2>6. ReadInv'
    BY <1>f, <1>v, <2>1, <2>2, <2>3 DEF ArmFields, Views, ReadInv, NearRead, Near, Latching,
       Stale, OnWay, Toward
  <2>7. LockInv'
    BY <1>f, <1>v, <2>1, <2>2, <2>3 DEF ArmFields, Views, LockInv, NearRead, Near, Stale, OnWay,
       Toward
  <2>8. StiffInv'
    BY <1>f, <1>v, <2>1, <2>2, <2>3 DEF ArmFields, Views, ReadInv, LockInv, StiffInv, Near,
       Stale, OnWay, Toward
  <2> QED BY <2>5, <2>6, <2>7, <2>8
<1>21. CASE Publish /\ UNCHANGED modeVars
  <2>1. /\ UNCHANGED <<main, control, threads, mode, stop, late, q, q_target, lock_q>>
        /\ msg'.soft = msg.soft /\ sent'.soft = msg'.soft /\ sent'.q = msg'.q
        /\ Shown' = Toward(Here, Goal)
    BY <1>21 DEF Publish, Here, Goal, Shown, SendTarget, Clip, Arms, modeVars
  <2>2. /\ MainRead' = MainRead /\ PoseRead' = PoseRead /\ ReadLock' = ReadLock
        /\ Here' = Here /\ Goal' = Goal /\ Lock' = Lock
    BY <2>1 DEF MainRead, PoseRead, ReadLock, Here, Goal, Lock
  <2>3. /\ sleep'["main"] = sleep["main"]
        /\ sleep'["control"] = sleep["control"]
        /\ sleep["publish"] = 0 /\ sleep'["publish"] = 1
    BY <1>21, <1>s, <1>t DEF Publish, SendTarget, Awake
  <2>5. ToolInv'
    BY <2>1, <2>2, <2>3 DEF ToolInv
  <2>6. ReadInv'
    BY <1>f, <1>v, <2>1, <2>2, <2>3 DEF ArmFields, Views, ReadInv, NearRead, Near, Latching,
       Stale, OnWay, Toward
  <2>7. LockInv'
    BY <1>f, <1>v, <2>1, <2>2, <2>3 DEF ArmFields, Views, LockInv, NearRead, Near, Stale, OnWay,
       Toward
  <2>8. StiffInv'
    BY <1>f, <1>v, <2>1, <2>2, <2>3 DEF ArmFields, Views, ReadInv, LockInv, StiffInv, Near,
       Stale, OnWay, Toward
  <2> QED BY <2>5, <2>6, <2>7, <2>8
<1>22. CASE Tick /\ UNCHANGED modeVars
  <2>1. /\ UNCHANGED <<main, control, mode, stop, lock_q, q_target, msg, sent, threads>>
        /\ sleep'["main"] = IF sleep["main"] > 0 THEN sleep["main"] - 1 ELSE 0
        /\ sleep'["publish"] = IF sleep["publish"] > 0 THEN sleep["publish"] - 1 ELSE 0
        /\ sleep'["control"] = IF sleep["control"] > 0 THEN sleep["control"] - 1 ELSE 0
        /\ \/ (\A t \in threads : sleep[t] > 0) /\ late' = late
           \/ late' = late + 1
    BY <1>22, <1>t, Ticks DEF modeVars
  <2>2. /\ Goal' = Goal /\ Lock' = Lock /\ Shown' = Shown /\ MainRead' = MainRead
        /\ PoseRead' = PoseRead /\ ReadLock' = ReadLock
    BY <2>1 DEF Goal, Lock, Shown, MainRead, PoseRead, ReadLock
  <2>3. /\ sent.soft => Near(Here', Here, 1)
        /\ ~sent.soft => Here' = Here \/ (sent.weight > 0 /\ Here' = Toward(Here, Shown))
    <3>1. PICK l \in Next1("left"), r \in Next1("right") : q' = [left |-> l, right |-> r]
      BY <1>22 DEF Tick
    <3>2. Here' = r
      BY <3>1 DEF Here
    <3>3. CASE sent.weight > 0
      <4>1. sent.q["right"] = Shown
        BY <3>3 DEF ToolInv, Shown
      <4>2. r \in IF sent.soft THEN Led("right") ELSE {Here, Toward(Here, Shown)}
        BY <3>3, <4>1 DEF Next1, Commanded, Follows, Here
      <4>3. Led("right") = {p \in 0 .. MaxPose : Distance(p, Here) <= 1}
        BY DEF Led, Here
      <4> QED BY <1>v, <3>2, <3>3, <4>2, <4>3, ArmAssumption DEF ArmAssumption, Near, Distance,
         Views
    <3>4. CASE ~(sent.weight > 0)
      <4>1. r = Here
        BY <1>p, <3>4 DEF Next1, Commanded, Here
      <4> QED BY <1>v, <3>2, <4>1 DEF Near, Views
    <3> QED BY <3>3, <3>4
  <2>4. main.at # "end" => "main" \in threads /\ "publish" \in threads
    BY <1>p DEF ThreadsInv
  <2>5. ToolInv'
    BY <2>1, <2>2 DEF ToolInv
  <2>s. /\ main'.at = main.at /\ mode' = mode /\ sent'.soft = sent.soft /\ msg'.soft = msg.soft
        /\ control'.at = control.at /\ control'.mode = control.mode
    BY <2>1
  <2>h. PICK h \in Int, l \in Int, st \in Int, ow \in Int :
               h = Here' /\ l = late' /\ st = Stale' /\ ow = OnWay'
    <3>1. late' \in Int /\ Stale' \in Int /\ OnWay' \in Int
      BY <1>f, <2>1 DEF ArmFields, Stale, OnWay
    <3>2. Here' \in Int
      BY <1>v DEF Views
    <3> QED BY <3>1, <3>2
  <2>n. late \in Int /\ Stale \in Int /\ OnWay \in Int
    BY <1>f DEF ArmFields, Stale, OnWay
  <2>w. /\ h - Here <= 1 /\ Here - h <= 1
        /\ ~sent.soft => \/ h = Here
                         \/ Here < Shown /\ h = Here + 1
                         \/ Here > Shown /\ h = Here - 1
    <3>1. Here \in Int /\ Shown \in Int
      BY <1>v DEF Views
    <3>2. IF sent.soft THEN Near(h, Here, 1) ELSE h = Here \/ h = Toward(Here, Shown)
      BY <2>3, <2>h
    <3>3. \A x, y, z \in Int :
            /\ Near(y, x, 1) => y - x <= 1 /\ x - y <= 1
            /\ y = x \/ y = Toward(x, z) => /\ y - x <= 1 /\ x - y <= 1
                                            /\ y = x \/ (x < z /\ y = x + 1) \/ (x > z /\ y = x - 1)
      BY DEF Near, Toward
    <3> QED BY <3>1, <3>2, <3>3
  <2>c. late' = late + 1 \/ (late' = late /\ \A t \in threads : sleep[t] > 0)
    BY <2>1
  <2>6. CASE late' = late + 1
    <3>1. /\ l = late + 1 /\ st >= Stale + 1 /\ ow >= OnWay + 1
      BY <1>f, <2>1, <2>6, <2>h DEF ArmFields, Stale, OnWay
    <3>2. ReadInv'
      <4>1. /\ control.at \in {"mode", "commit"} => Near(h, PoseRead, l)
            /\ control.at = "commit" /\ control.mode = "lock" => Near(h, ReadLock, l + 1)
            /\ Near(h, Goal, st)
        BY <1>v, <2>w, <2>n, <3>1 DEF Views, ReadInv, NearRead, Near
      <4>2. Latching =>
              /\ Near(MainRead, h, l) /\ Near(MainRead, Goal, st)
              /\ mode = "lock" => Near(MainRead, Lock, l + 1)
              /\ sent.soft => Near(MainRead, Shown, ow)
        BY <1>v, <2>w, <2>n, <3>1 DEF Views, ReadInv, Near
      <4>3. Latching =>
              /\ control.at \in {"mode", "commit"} => Near(MainRead, PoseRead, l + 1)
              /\ control.at = "commit" /\ control.mode = "lock" => Near(MainRead, ReadLock, l + 1)
        BY <1>v, <3>1 DEF Views, ReadInv, NearRead, Near
      <4> QED BY <2>2, <2>s, <2>h, <4>1, <4>2, <4>3 DEF ReadInv, NearRead, Latching
    <3>3. LockInv'
      <4> SUFFICES ASSUME mode = "lock" PROVE LockInv'
        BY <2>s DEF LockInv
      <4>1. main.at # "exit" =>
              /\ Near(h, Lock, l + 1)
              /\ control.at \in {"mode", "commit"} => Near(Lock, PoseRead, l + 1)
              /\ control.at = "commit" /\ control.mode = "lock" => Near(Lock, ReadLock, l + 1)
        BY <1>z, <1>v, <2>w, <3>1 DEF Views, LockInv, NearRead, Near
      <4>2. Near(Lock, Goal, st) /\ (Near(h, Lock, l) \/ Near(Lock, Goal, l + 1))
        BY <1>z, <1>v, <2>w, <2>n, <3>1 DEF Views, LockInv, Near
      <4>3. /\ sent.soft => Near(h, Lock, ow - 1) /\ Near(Lock, Shown, ow)
            /\ msg.soft => Near(h, Lock, l)
        BY <1>z, <1>v, <2>w, <2>n, <3>1 DEF Views, LockInv, Near
      <4> QED BY <2>2, <2>s, <2>h, <3>1, <4>1, <4>2, <4>3 DEF LockInv, NearRead
    <3>4. StiffInv'
      <4>1. sent.soft => Near(h, Shown, ow)
        BY <1>v, <2>w, <2>n, <3>1 DEF Views, StiffInv, Near
      <4>2. ~sent.soft => /\ Near(Goal, Shown, l + 2)
                          /\ main.at # "exit" => Near(h, Shown, 1)
                          /\ mode = "lock" /\ main.at # "exit" => Near(Lock, Shown, l + 1)
        BY <1>z, <1>v, <2>w, <2>n, <3>1 DEF Views, StiffInv, Near
      <4> QED BY <2>2, <2>s, <2>h, <4>1, <4>2 DEF StiffInv
    <3> QED BY <2>5, <3>2, <3>3, <3>4
  <2>7. CASE late' = late /\ \A t \in threads : sleep[t] > 0
    <3>1. sleep["publish"] = 1 /\ sleep'["publish"] = 0 /\ sleep["main"] > 0
      BY <1>z, <1>f, <2>1, <2>4, <2>7 DEF ArmFields, ThreadsInv
    <3>2. /\ l = late /\ OnWay = late + 1 /\ ow = late + 2
      BY <2>7, <2>h, <3>1 DEF OnWay
    <3>3. ~Latching /\ ~Latching' /\ control.at \notin {"mode", "commit"}
      <4>1. ~Latching
        BY <3>1 DEF Latching, ToolInv
      <4>2. CASE "control" \in threads
        BY <2>s, <2>7, <4>1, <4>2 DEF ToolInv, Latching
      <4>3. CASE "control" \notin threads
        BY <1>z, <2>s, <4>1, <4>3 DEF ToolInv, Latching
      <4> QED BY <4>2, <4>3
    <3>4. \/ main.at # "exit" /\ Stale = late + 1 /\ st = late + 2
          \/ mode = "lock" /\ Goal = Lock /\ Stale = late + 2 /\ st = late + 2
      <4>1. CASE "control" \in threads
        <5>1. sleep["control"] = 1 /\ sleep'["control"] = 0
          BY <1>f, <2>1, <2>7, <4>1 DEF ArmFields, ThreadsInv
        <5> QED BY <1>f, <2>7, <2>h, <4>1, <5>1 DEF ArmFields, Stale, ToolInv
      <4>2. CASE "control" \notin threads
        <5>1. /\ mode = "lock" /\ sleep["control"] = 0
              /\ main.at \in {"start", "shutdown", "relatch", "stop", "join", "hold", "exit"}
              /\ main.at = "join" => sleep["main"] = 0
          BY <1>z, <1>p, <4>2 DEF ToolInv
        <5>2. main.at = "exit" \/ (main.at = "hold" /\ main.i > 0)
          BY <1>f, <3>1, <5>1 DEF ArmFields, ToolInv
        <5>3. Goal = Lock
          BY <5>2 DEF ToolInv
        <5>4. sleep'["control"] = 0
          BY <2>1, <5>1
        <5> QED BY <1>f, <2>7, <2>h, <5>1, <5>3, <5>4 DEF ArmFields, Stale
      <4> QED BY <4>1, <4>2
    <3>5. ReadInv'
      <4>1. CASE Stale = late + 1 /\ st = late + 2
        <5>1. Near(h, Goal, st)
          BY <1>v, <2>w, <2>n, <4>1 DEF Views, ReadInv, Near
        <5> QED BY <2>2, <2>s, <2>h, <3>3, <5>1 DEF ReadInv, NearRead
      <4>2. CASE mode = "lock" /\ Goal = Lock /\ st = late + 2
        <5>1. Near(h, Goal, st)
          <6>1. CASE sent.soft
            BY <1>z, <1>v, <2>w, <3>2, <4>2, <6>1 DEF Views, LockInv, Near
          <6>2. CASE ~sent.soft
            <7>1. Near(Here, Goal, late + 2) /\ Near(Goal, Shown, late + 2)
              BY <1>z, <1>v, <2>n, <3>4, <6>2 DEF Views, ReadInv, StiffInv, Near
            <7> QED BY <1>v, <2>w, <2>n, <4>2, <6>2, <7>1 DEF Views, Near
          <6> QED BY <6>1, <6>2
        <5> QED BY <2>2, <2>s, <2>h, <3>3, <5>1 DEF ReadInv, NearRead
      <4> QED BY <3>4, <4>1, <4>2
    <3>6. LockInv'
      <4> SUFFICES ASSUME mode = "lock" PROVE LockInv'
        BY <2>s DEF LockInv
      <4>1. main.at # "exit" => Near(h, Lock, l + 1)
        <5>1. CASE sent.soft
          BY <1>z, <1>v, <2>w, <3>2, <5>1 DEF Views, LockInv, Near
        <5>2. CASE ~sent.soft
          <6>1. main.at # "exit" => Near(Here, Lock, late + 1) /\ Near(Lock, Shown, late + 1)
            BY <1>z, <5>2 DEF LockInv, StiffInv
          <6> QED BY <1>v, <2>w, <2>n, <3>2, <5>2, <6>1 DEF Views, Near
        <5> QED BY <5>1, <5>2
      <4>2. Near(Lock, Goal, st)
        BY <1>z, <1>v, <2>n, <3>4 DEF Views, LockInv, Near
      <4>3. Near(Lock, Goal, l + 1)
        BY <1>z, <1>v, <3>2, <3>4 DEF Views, LockInv, Near
      <4>4. sent.soft => Near(h, Lock, ow - 1) /\ Near(Lock, Shown, ow)
        BY <1>z, <1>v, <2>w, <3>2 DEF Views, LockInv, Near
      <4>5. ~msg.soft
        <5>1. main.at \notin {"gains", "shutdown", "relatch", "stop", "end"}
          BY <1>z, <3>1 DEF ToolInv
        <5> QED BY <5>1 DEF ToolInv
      <4> QED BY <2>2, <2>s, <2>h, <3>3, <4>1, <4>2, <4>3, <4>4, <4>5 DEF LockInv, NearRead
    <3>7. StiffInv'
      <4>1. sent.soft => Near(h, Shown, ow)
        BY <1>v, <2>w, <3>2 DEF Views, StiffInv, Near
      <4>2. ~sent.soft => /\ Near(Goal, Shown, l + 2)
                          /\ main.at # "exit" => Near(h, Shown, 1)
                          /\ mode = "lock" /\ main.at # "exit" => Near(Lock, Shown, l + 1)
        BY <1>z, <1>v, <2>w, <3>2 DEF Views, StiffInv, Near
      <4> QED BY <2>2, <2>s, <2>h, <4>1, <4>2 DEF StiffInv
    <3> QED BY <2>5, <3>5, <3>6, <3>7
  <2> QED BY <2>c, <2>6, <2>7
<1>23. CASE UNCHANGED <<armVars, modeVars>>
  BY <1>23 DEF armVars, modeVars, ToolInv, ReadInv, LockInv, StiffInv, Here, Goal, Lock, Shown,
     MainRead, PoseRead, ReadLock, NearRead, Latching, Stale, OnWay
<1>24. ~(Setup \/ Begin \/ Solve \/ GoHome \/ Arrived \/ Look \/ GiveUp \/ Fade \/ Faded \/ Close)
  BY <1>p DEF Setup, Begin, Solve, GoHome, Arrived, Look, GiveUp, Fade, Faded, Close, Teleop,
     MainStep
<1> QED BY <1>1, <1>2, <1>3, <1>4, <1>5, <1>6, <1>7, <1>8, <1>9, <1>10, <1>11, <1>12, <1>13,
   <1>14, <1>15, <1>16, <1>17, <1>18, <1>19, <1>20, <1>21, <1>22, <1>23, <1>24
        DEF ModeNext, MainThread, ControlThread, PublishThread

\* The left arm has its target where it is, and stays.
LEMMA LeftStep ==
  ASSUME ArmType, ArmType', ThreadsInv, Tooling, ToolInv, LeftStays,
         ModeNext \/ UNCHANGED <<armVars, modeVars>>
  PROVE  LeftStays'
<1> DEFINE x == q["left"]
<1> USE DEF LeftStays, Latching
<1>p. program = "right_arm_mode" /\ main.at # "construct" /\ motion_mode = TRUE
  BY DEF Tooling, ThreadsInv
<1>m. main \in Mains /\ control \in Controls /\ msg \in Messages /\ x \in Int
  BY DEF ArmType, Poses, Arms
<1> USE <1>m DEF Tool, MainStep, Go, MainAt, Mains, Controls, Messages
<1>1. CASE Start \/ SetGains \/ StopControl
  BY <1>1 DEF Start, SetGains, StopControl, Gains
<1>2. CASE AwaitReady
  BY <1>2 DEF AwaitReady
<1>3. CASE Await \/ Command
  BY <1>3 DEF Await, Command, armVars, modeVars
<1>4. CASE ReadPose
  BY <1>4 DEF ReadPose
<1>5. CASE Latch
  BY <1>5 DEF Latch, Latched, armVars
<1>6. CASE Relatch
  BY <1>6 DEF Relatch, armVars
<1>7. CASE Join
  BY <1>7 DEF Join, armVars
<1>8. CASE Hold
  BY <1>8 DEF Hold, CtrlDualArm
<1>9. CASE SmoothExit
  BY <1>9 DEF SmoothExit, SmoothExitStep
<1>10. CASE Closed \/ SecondInterrupt
  BY <1>10 DEF Closed, SecondInterrupt, End
<1>11. CASE Interrupt
  BY <1>11 DEF Interrupt
<1>12. CASE ControlRead
  BY <1>12 DEF ControlRead, IdleControl
<1>13. CASE ControlMode
  BY <1>13 DEF ControlMode, armVars
<1>14. CASE ControlCommit
  BY <1>14 DEF ControlCommit, CtrlDualArm, Target, IdleControl
<1>15. CASE RampWeight /\ UNCHANGED modeVars
  BY <1>15 DEF RampWeight, modeVars
<1>16. CASE (RampPublish \/ Publish) /\ UNCHANGED modeVars
  <2>1. /\ msg'.q["left"] = Toward(x, q_target["left"])
        /\ UNCHANGED <<q, q_target, lock_q, main, control>>
    BY <1>16 DEF RampPublish, Publish, SendTarget, Clip, Arms, modeVars
  <2>2. Toward(x, x) = x
    BY DEF Toward
  <2> QED BY <2>1, <2>2
<1>17. CASE Tick /\ UNCHANGED modeVars
  <2>1. UNCHANGED <<q_target, msg, lock_q, main, control>>
    BY <1>17 DEF Tick, modeVars
  <2>2. q'["left"] \in Next1("left")
    BY <1>17 DEF Tick
  <2>3. Next1("left") = {x} \/ (sent.weight > 0 /\ Next1("left") = {x, Toward(x, sent.q["left"])})
    BY <1>p DEF Next1, Commanded, Follows
  <2>4. sent.weight > 0 => sent.q["left"] = x
    BY DEF ToolInv
  <2>5. Toward(x, x) = x
    BY DEF Toward
  <2>6. q'["left"] = x
    BY <2>2, <2>3, <2>4, <2>5
  <2> QED BY <2>1, <2>6
<1>18. CASE UNCHANGED <<armVars, modeVars>>
  BY <1>18 DEF armVars, modeVars
<1>19. ~(Setup \/ Begin \/ Solve \/ GoHome \/ Arrived \/ Look \/ GiveUp \/ Fade \/ Faded \/ Close)
  BY <1>p DEF Setup, Begin, Solve, GoHome, Arrived, Look, GiveUp, Fade, Faded, Close, Teleop
<1> QED BY <1>1, <1>2, <1>3, <1>4, <1>5, <1>6, <1>7, <1>8, <1>9, <1>10, <1>11, <1>12, <1>13,
   <1>14,
           <1>15, <1>16, <1>17, <1>18, <1>19
        DEF ModeNext, MainThread, ControlThread, PublishThread

\* What the constructor leaves: the target, the message and the latched poses are
\* where the arms are.
LEMMA TakenOver ==
  ASSUME ArmType, ArmType', ThreadsInv, Fresh, Setup
  PROVE  /\ program = "right_arm_mode" => RightInv' /\ LeftStays'
         /\ AwaitKeeps'
<1>1. /\ main.at = "construct" /\ main'.at = IF program = "teleop" THEN "await" ELSE "start"
      /\ msg'.q = q /\ ~msg'.soft /\ lock_q' = q /\ threads' = {"main", "publish"}
      /\ UNCHANGED <<q, sent, sleep, control, mode, stop, kind, program, late>>
  BY DEF Setup, MainStep, Construct, Go, MainAt, ThreadsInv
<1>2. /\ sent.q = Home /\ sent.weight = 0 /\ ~sent.soft /\ sleep["main"] = 0 /\ sleep["publish"] = 0
      /\ sleep["control"] = 0 /\ control.at = "read" /\ mode = "lock" /\ ~stop
  BY <1>1 DEF Fresh, ThreadsInv
<1>3. kind = "G1_29" => q_target' = q
  BY DEF Setup, Construct, G1_29Start
<1>4. late \in Nat /\ \A a \in Arms : q[a] \in Int
  BY DEF ArmType, Poses
<1>n. \A x \in Int, n \in Nat : Near(x, x, n)
  BY DEF Near
<1>5. ASSUME program = "right_arm_mode"
      PROVE  RightInv' /\ LeftStays'
  <2>1. q_target' = q /\ main'.at = "start"
    BY <1>1, <1>3, <1>5 DEF ThreadsInv
  <2>2. /\ Here' = Here /\ Goal' = Here /\ Lock' = Here /\ Shown' = Here /\ Here \in Int
    BY <1>1, <1>4, <2>1 DEF Here, Goal, Lock, Shown, Arms
  <2>3. /\ ~Latching' /\ Stale' = late + 2 /\ OnWay' = late + 2
    BY <1>1, <1>2, <1>4, <2>1 DEF Latching, Stale, OnWay
  <2>4. /\ Near(Here, Here, late + 2) /\ Near(Here, Here, late + 1) /\ Near(Here, Here, late)
        /\ Near(Here, Here, 1)
    BY <1>4, <1>n, <2>2
  <2>5. ToolInv' /\ LeftStays'
    BY <1>1, <1>2, <2>1, <2>3 DEF ToolInv, LeftStays
  <2>6. ReadInv' /\ LockInv' /\ StiffInv'
    BY <1>1, <1>2, <2>1, <2>2, <2>3, <2>4 DEF ReadInv, LockInv, StiffInv, NearRead
  <2> QED BY <2>5, <2>6 DEF RightInv
<1>6. AwaitKeeps'
  <2> SUFFICES ASSUME kind = "G1_29" PROVE AwaitKeeps'
    BY <1>1 DEF AwaitKeeps
  <2>1. \A a \in Arms : Near(q'[a], q_target'[a], late')
    BY <1>1, <1>3, <1>4, <1>n
  <2> QED BY <1>1, <1>2, <2>1 DEF AwaitKeeps
<1> QED BY <1>5, <1>6

LEMMA FreshStep ==
  ASSUME ArmType, ThreadsInv, Fresh, ModeNext \/ UNCHANGED <<armVars, modeVars>>
  PROVE  Fresh'
<1> SUFFICES ASSUME main'.at = "construct" PROVE Fresh'
  BY DEF Fresh
<1>1. CASE MainThread
  BY <1>1, OtherPlaces
<1>2. CASE ~MainThread
  <2>1. main' = main
    BY <1>2 DEF ModeNext, ControlThread, ControlRead, ControlMode, ControlCommit, modeVars
  <2>2. threads = {"main"}
    BY <2>1 DEF ThreadsInv
  <2>3. ~ControlThread /\ ~PublishThread
    BY <2>2 DEF ControlThread, ControlRead, ControlMode, ControlCommit, PublishThread,
       RampWeight,
       RampPublish, Publish, Awake
  <2>4. UNCHANGED <<control, mode, stop, sent>>
    BY <1>2, <2>3 DEF ModeNext, Tick, armVars, modeVars
  <2>5. sleep' = sleep \/ Tick
    BY <1>2, <2>3 DEF ModeNext, armVars
  <2>6. sleep["main"] = 0 /\ sleep["control"] = 0 => sleep'["main"] = 0 /\ sleep'["control"] = 0
    BY <2>5, Ticks DEF Threads
  <2> QED BY <2>1, <2>4, <2>6 DEF Fresh
<1> QED BY <1>1, <1>2

\* An arm that goes towards the target of a message stays between the two.
LEMMA OnTheWay ==
  ASSUME NEW x \in Int, NEW y \in Int, NEW t \in Int, NEW n \in Nat,
         y = x \/ y = Toward(x, t)
  PROVE  /\ Near(x, t, 1) => Near(y, t, 1)
         /\ \A g \in Int : /\ Near(x, g, n) => Near(y, g, n + 1)
                           /\ Near(x, g, n) /\ Near(g, t, n) => Near(y, g, n)
BY DEF Near, Toward

LEMMA StepsTowards ==
  ASSUME NEW x \in Int, NEW g \in Int, NEW n \in Nat, Near(x, g, n)
  PROVE  /\ Toward(x, g) \in Int /\ Near(x, Toward(x, g), 1) /\ Near(g, Toward(x, g), n)
         /\ Near(x, g, n + 1) /\ Near(g, x, n)
BY DEF Near, Toward

LEMMA AwaitStep ==
  ASSUME ArmType, ArmType', ThreadsInv, AwaitKeeps, ~Setup,
         ModeNext \/ UNCHANGED <<armVars, modeVars>>
  PROVE  AwaitKeeps'
<1> SUFFICES ASSUME program' = "teleop", kind' = "G1_29", main'.at = "await" PROVE AwaitKeeps'
  BY DEF AwaitKeeps
<1>1. Await \/ ~MainThread
  BY OtherPlaces
<1>2. UNCHANGED <<main, program, kind>>
  BY <1>1 DEF ModeNext, Await, ControlThread, ControlRead, ControlMode, ControlCommit,
     PublishThread,
     RampWeight, RampPublish, Publish, SendTarget, Tick, armVars, modeVars
<1>3. /\ threads = {"main", "publish"} /\ ~msg.soft /\ ~sent.soft
      /\ \A a \in Arms :
           /\ Near(q[a], q_target[a], late)
           /\ \/ sent.q = Home /\ sent.weight = 0 /\ sleep["publish"] = 0
              \/ Near(q_target[a], sent.q[a], late) /\ Near(q[a], sent.q[a], 1)
  BY <1>2 DEF AwaitKeeps
<1>4. ~ControlThread
  BY <1>3 DEF ControlThread, ControlRead, ControlMode, ControlCommit, Awake
<1>5. /\ late \in Nat /\ late' \in Nat /\ msg \in Messages /\ sent \in Messages
      /\ \A a \in Arms : q[a] \in Int /\ q'[a] \in Int /\ q_target[a] \in Int /\ sent.q[a] \in Int
  BY DEF ArmType, Poses, Messages
<1>6. CASE Await
  <2>1. UNCHANGED <<threads, msg, sent, q, q_target, late>> /\ Sleep("main", 1)
    BY <1>6 DEF Await
  <2>2. sleep'["publish"] = sleep["publish"]
    BY <2>1, Sleeps DEF Threads
  <2> QED BY <1>3, <2>1, <2>2 DEF AwaitKeeps
<1>7. CASE RampWeight /\ UNCHANGED modeVars
  <2>1. UNCHANGED <<threads, sent, q, q_target, late, sleep>> /\ msg'.soft = msg.soft
    BY <1>5, <1>7 DEF RampWeight, Messages
  <2> QED BY <1>3, <2>1 DEF AwaitKeeps
<1>8. CASE (RampPublish \/ Publish) /\ UNCHANGED modeVars
  <2>1. /\ UNCHANGED <<threads, q, q_target, late>> /\ msg'.soft = msg.soft /\ sent'.soft = msg.soft
        /\ sent'.q = Clip(q_target)
    BY <1>5, <1>8 DEF RampPublish, Publish, SendTarget, Messages
  <2>2. \A a \in Arms : Near(q_target[a], sent'.q[a], late) /\ Near(q[a], sent'.q[a], 1)
    <3> SUFFICES ASSUME NEW a \in Arms
                 PROVE  Near(q_target[a], sent'.q[a], late) /\ Near(q[a], sent'.q[a], 1)
      OBVIOUS
    <3>1. sent'.q[a] = Toward(q[a], q_target[a])
      BY <2>1 DEF Clip
    <3>2. q[a] \in Int /\ q_target[a] \in Int /\ Near(q[a], q_target[a], late)
      BY <1>3, <1>5
    <3> QED BY <1>5, <3>1, <3>2, StepsTowards
  <2> QED BY <1>3, <2>1, <2>2 DEF AwaitKeeps
<1>9. CASE Tick /\ UNCHANGED modeVars
  <2>1. /\ UNCHANGED <<threads, msg, sent, q_target>>
        /\ (sleep["publish"] = 0 => sleep'["publish"] = 0 /\ late' = late + 1)
        /\ late' = late \/ late' = late + 1
    BY <1>3, <1>9, Ticks DEF Threads
  <2>2. \A a \in Arms : q'[a] = q[a] \/ q'[a] = Toward(q[a], sent.q[a])
    BY <1>3, <1>9 DEF Tick, Next1, Follows, Arms
  <2>3. ASSUME NEW a \in Arms
        PROVE  /\ Near(q'[a], q_target[a], late')
               /\ \/ sent.q = Home /\ sent.weight = 0 /\ sleep'["publish"] = 0
                  \/ Near(q_target[a], sent.q[a], late') /\ Near(q'[a], sent.q[a], 1)
    <3>1. /\ q[a] \in Int /\ q'[a] \in Int /\ q_target[a] \in Int /\ sent.q[a] \in Int
          /\ q'[a] = q[a] \/ q'[a] = Toward(q[a], sent.q[a])
          /\ late \in Nat
      BY <1>5, <2>2
    <3>2. /\ Near(q[a], q_target[a], late)
          /\ \/ sent.q = Home /\ sent.weight = 0 /\ sleep["publish"] = 0
             \/ Near(q_target[a], sent.q[a], late) /\ Near(q[a], sent.q[a], 1)
      BY <1>3
    <3>3. Near(q'[a], q_target[a], late + 1)
      <4>1. Near(q[a], q_target[a], late)
        BY <3>2
      <4> QED BY <3>1, <4>1, OnTheWay
    <3>4. CASE sent.q = Home /\ sent.weight = 0 /\ sleep["publish"] = 0
      BY <2>1, <3>3, <3>4
    <3>5. CASE Near(q_target[a], sent.q[a], late) /\ Near(q[a], sent.q[a], 1)
      <4>1. Near(q'[a], sent.q[a], 1) /\ Near(q'[a], q_target[a], late)
        BY <3>1, <3>2, <3>5, OnTheWay
      <4>2. Near(q_target[a], sent.q[a], late + 1)
        BY <3>1, <3>5, StepsTowards
      <4> QED BY <2>1, <3>3, <3>5, <4>1, <4>2
    <3> QED BY <3>2, <3>4, <3>5
  <2> QED BY <1>3, <2>1, <2>3 DEF AwaitKeeps
<1>10. CASE UNCHANGED <<armVars, modeVars>>
  BY <1>10 DEF armVars, modeVars, AwaitKeeps
<1> QED BY <1>1, <1>4, <1>6, <1>7, <1>8, <1>9, <1>10 DEF ModeNext, PublishThread

\* An arm that nobody has commanded elsewhere never has its target more than
\* two ticks' way from where it is, and the way of the ticks for which a thread was
\* late so far: when the constructor of robot_arm.py takes
\* it over, and as long as right_arm_mode.py holds it, leads it or locks it.
THEOREM KeepsPose == Spec => []LockKeepsPose
<1>1. Init => KeepsInv
  <2> SUFFICES ASSUME Init PROVE KeepsInv
    OBVIOUS
  <2> USE DEF Init
  <2>1. ArmType /\ ThreadsInv
    BY InitArm
  <2>2. /\ main.at = "construct" /\ sleep["main"] = 0 /\ sleep["control"] = 0 /\ control.at = "read"
        /\ mode = "lock" /\ ~stop /\ sent.q = Home /\ sent.weight = 0 /\ ~sent.soft
    BY DEF ArmInit, ModeInit, MainAt, IdleControl
  <2> QED BY <2>1, <2>2 DEF KeepsInv, ToolKeeps, Tooling, Fresh, AwaitKeeps
<1>2. KeepsInv /\ [Next]_vars => KeepsInv'
  <2> SUFFICES ASSUME KeepsInv, [Next]_vars PROVE KeepsInv'
    OBVIOUS
  <2> USE DEF KeepsInv, ToolKeeps
  <2>1. ModeNext \/ UNCHANGED <<armVars, modeVars>>
    BY DEF Next, vars
  <2>2. ArmType' /\ ThreadsInv'
    BY <2>1, TypeStep, ThreadsStep
  <2>3. Fresh'
    BY <2>1, FreshStep
  <2>4. Tooling' => RightInv' /\ LeftStays'
    <3>1. CASE Setup
      <4>1. program' = program
        BY <3>1 DEF Setup
      <4> QED BY <2>2, <3>1, <4>1, TakenOver DEF Tooling
    <3>2. CASE Tooling /\ ~Setup
      BY <2>1, <2>2, <3>2, RightStep, LeftStep DEF RightInv
    <3>3. CASE ~Tooling /\ ~Setup
      <4>1. program' = program
        BY <2>1 DEF ModeNext, MainThread, Setup, Start, AwaitReady, Await, Command, ReadPose,
           Latch, SetGains,
           Relatch, StopControl, Join, Hold, SmoothExit, Closed, Interrupt, SecondInterrupt, Begin, Solve,
           GoHome, Arrived, Look, GiveUp, Fade, Faded, Close, ControlThread, ControlRead, ControlMode,
           ControlCommit, modeVars
      <4>2. CASE program # "right_arm_mode"
        BY <4>1, <4>2 DEF Tooling
      <4>3. CASE main.at = "construct"
        <5>1. ~MainThread
          BY <3>3, <4>3 DEF MainThread, Start, AwaitReady, Await, Command, ReadPose, Latch,
             SetGains, Relatch,
             StopControl, Join, Hold, SmoothExit, Closed, Interrupt, SecondInterrupt, Begin, Solve, GoHome,
             Arrived, Look, GiveUp, Fade, Faded, Close, Tool, Teleop, MainStep
        <5>2. main' = main
          BY <2>1, <5>1 DEF ModeNext, ControlThread, ControlRead, ControlMode, ControlCommit,
             modeVars
        <5> QED BY <4>3, <5>2 DEF Tooling
      <4> QED BY <3>3, <4>2, <4>3 DEF Tooling
    <3> QED BY <3>1, <3>2, <3>3
  <2>5. AwaitKeeps'
    BY <2>1, <2>2, TakenOver, AwaitStep
  <2> QED BY <2>2, <2>3, <2>4, <2>5
<1>3. KeepsInv => LockKeepsPose
  <2> SUFFICES ASSUME KeepsInv, Holding, NEW a \in Arms
               PROVE  Distance(q_target[a], q[a]) <= late + 2
    BY DEF LockKeepsPose
  <2>1. ArmFields /\ Views
    BY ArmFieldsHold, ViewTypes DEF KeepsInv
  <2>2. q[a] \in Int /\ q_target[a] \in Int
    BY DEF KeepsInv, ArmType, Poses
  <2>3. \A x, y \in Int, n \in Int :
          /\ Near(x, y, n) /\ n <= late + 2 => Distance(y, x) <= late + 2
          /\ x = y => Distance(y, x) <= late + 2
    BY <2>1 DEF Near, Distance, ArmFields
  <2>4. CASE program = "right_arm_mode"
    <3>1. Near(Here, Goal, Stale) /\ q_target["left"] = q["left"]
      BY <2>4 DEF Holding, KeepsInv, ThreadsInv, ToolKeeps, Tooling, RightInv, ReadInv,
         LeftStays
    <3>2. Stale \in Int /\ Stale <= late + 2
      BY <2>1 DEF ArmFields, Stale
    <3>3. CASE a = "right"
      BY <2>2, <2>3, <3>1, <3>2, <3>3 DEF Here, Goal
    <3>4. CASE a = "left"
      BY <2>2, <2>3, <3>1, <3>4
    <3> QED BY <3>3, <3>4 DEF Arms
  <2>5. CASE program # "right_arm_mode"
    <3>1. Near(q[a], q_target[a], late)
      BY <2>5 DEF Holding, KeepsInv, ArmType, AwaitKeeps
    <3>2. late \in Int /\ late <= late + 2
      BY <2>1 DEF ArmFields
    <3> QED BY <2>2, <2>3, <3>1, <3>2
  <2> QED BY <2>4, <2>5
<1> QED BY <1>1, <1>2, <1>3, PTL DEF Spec
=============================================================================
