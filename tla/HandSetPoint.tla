---------------------------- MODULE HandSetPoint ----------------------------
(***************************************************************************)
(* The Dex-3 set-point script that the press node starts, with the binding *)
(* that it drives the right hand through.  Each run ramps from the pose in *)
(* the last-pose file to its goal, holds it, and saves the goal for the    *)
(* next run.  In the binding the script's thread and a recurrent thread    *)
(* both take the command from the buffer and write it.                     *)
(***************************************************************************)
EXTENDS Integers

CONSTANTS
  MaxHand,        \* bound: poses of the hand are 0 .. MaxHand, a ramp step apart
  MaxRuns         \* bound: runs of the script

ASSUME HandAssumption == MaxHand \in Nat /\ MaxRuns \in Nat

VARIABLES
  file,           \* the last-pose file: a pose, or NoPose (missing, truncated)
  script,         \* the run: [at, pose, goal, back, first, ramps], with whether
                  \* it ramps at all (--ramp above 0) as ramps
  buffer,         \* hand_command_right_buffer_
  writer,         \* the recurrent thread: [at, got]
  swept,          \* the recurrent thread has made a whole pass since the ramp
  hand,           \* the command last written to rt/dex3/right/cmd
  kept,           \* history: the command that the hand held when a run last saved
  unsaved,        \* history: the hand was left with a command that is not saved
  runs            \* bound's counter

handVars == <<file, script, buffer, writer, swept, hand, kept, unsaved, runs>>

NoPose == -1
Base == 0         \* --base
IdleScript == [at |-> "none", pose |-> NoPose, goal |-> Base, back |-> FALSE,
               first |-> FALSE, ramps |-> TRUE]
IdleWriter == [at |-> "idle", got |-> NoPose]

HandInit ==
  /\ file = NoPose /\ script = IdleScript /\ buffer = NoPose /\ writer = IdleWriter
  /\ swept = FALSE /\ hand = NoPose /\ kept = NoPose /\ unsaved = FALSE /\ runs = 0

\* main(): the file is read, the controller constructed.
LoadPose == IF file = NoPose THEN Base ELSE file
Launch ==
  /\ script.at = "none" /\ runs < MaxRuns
  /\ \E goal \in 0 .. MaxHand, back, ramps \in BOOLEAN :
        script' = [at |-> "check", pose |-> LoadPose, goal |-> goal, back |-> back,
                   first |-> TRUE, ramps |-> ramps]
  /\ runs' = runs + 1
  /\ UNCHANGED <<file, buffer, writer, swept, hand, kept, unsaved>>

Exit == script' = IdleScript /\ buffer' = NoPose /\ writer' = IdleWriter /\ swept' = FALSE

\* No low state within 5 s: exit code 3, and the hand was not commanded.
SelfCheckFails == script.at = "check" /\ Exit /\ UNCHANGED <<file, hand, kept, unsaved, runs>>
SelfCheckPasses ==
  /\ script.at = "check" /\ script' = [script EXCEPT !.at = "step"]
  /\ UNCHANGED <<file, buffer, writer, swept, hand, kept, unsaved, runs>>

\* step_hands() of a ramp or of the hold: the buffer is set, then written.  With
\* --ramp 0 the first command is the goal.
Toward1(x, y) == IF x < y THEN x + 1 ELSE IF x > y THEN x - 1 ELSE x
StepHands ==
  /\ script.at = "step"
  /\ LET p == IF script.ramps THEN Toward1(script.pose, script.goal) ELSE script.goal IN
     /\ buffer' = p /\ script' = [script EXCEPT !.at = "write", !.pose = p]
  /\ swept' = (swept /\ script.pose = script.goal)
  /\ UNCHANGED <<file, writer, hand, kept, unsaved, runs>>

WriteHands ==
  /\ script.at = "write" /\ hand' = buffer
  /\ script' = [script EXCEPT !.at = IF script.pose = script.goal THEN "hold" ELSE "step",
                              !.first = FALSE]
  /\ UNCHANGED <<file, buffer, writer, swept, kept, unsaved, runs>>

\* The hold goes on for many periods of the recurrent thread.
HoldOn ==
  /\ script.at = "hold" /\ ~swept /\ script' = [script EXCEPT !.at = "step"]
  /\ UNCHANGED <<file, buffer, writer, swept, hand, kept, unsaved, runs>>

Held ==
  /\ script.at = "hold" /\ swept
  /\ script' = IF script.back THEN [script EXCEPT !.at = "step", !.goal = Base, !.back = FALSE]
               ELSE [script EXCEPT !.at = "open"]
  /\ swept' = FALSE
  /\ UNCHANGED <<file, buffer, writer, hand, kept, unsaved, runs>>

\* _save_pose_file(): opening for writing empties the file.  What fails in it is
\* reported and passed over: the file keeps what it held, or is left without a pose.
OpenFile ==
  /\ script.at = "open" /\ file' = NoPose /\ script' = [script EXCEPT !.at = "dump"]
  /\ UNCHANGED <<buffer, writer, swept, hand, kept, unsaved, runs>>
\* The mutant: the default pose is saved.
SavedBase(s) == Base
SavedPose(s) == s.goal
DumpPose ==
  /\ script.at = "dump" /\ file' = SavedPose(script) /\ script' = [script EXCEPT !.at = "done"]
  /\ kept' = hand /\ unsaved' = FALSE
  /\ UNCHANGED <<buffer, writer, swept, hand, runs>>
SaveFails ==
  /\ script.at \in {"open", "dump"} /\ script' = [script EXCEPT !.at = "done"]
  /\ unsaved' = TRUE
  /\ UNCHANGED <<file, buffer, writer, swept, hand, kept, runs>>

Done == script.at = "done" /\ Exit /\ UNCHANGED <<file, hand, kept, unsaved, runs>>

\* The press node's time-out or its end kills the script anywhere.
Commanding == script.at # "check"
Kill ==
  /\ script.at \notin {"none", "done"} /\ Exit /\ unsaved' = (unsaved \/ Commanding)
  /\ UNCHANGED <<file, hand, kept, runs>>

\* HandCommandWriter in the recurrent thread: take the command, then write it.
TakeBuffer == writer.at = "idle" /\ buffer # NoPose /\ writer' = [at |-> "took", got |-> buffer]
WriteTaken == writer.at = "took" /\ hand' = writer.got /\ writer' = IdleWriter
TakeCommand ==
  /\ script.at # "none" /\ TakeBuffer
  /\ UNCHANGED <<file, script, buffer, swept, hand, kept, unsaved, runs>>
WriteCommand ==
  /\ WriteTaken /\ swept' = (writer.got = script.goal)
  /\ UNCHANGED <<file, script, buffer, kept, unsaved, runs>>

HandNext ==
  \/ Launch \/ SelfCheckFails \/ SelfCheckPasses \/ StepHands \/ WriteHands
  \/ HoldOn \/ Held \/ OpenFile \/ DumpPose \/ SaveFails \/ Done \/ Kill
  \/ TakeCommand \/ WriteCommand
-----------------------------------------------------------------------------
(* Runs join: the first command of a run that ramps is at most a ramp step from
   the command that the hand was left with.  The file is written by one process
   and read by the next, and the last command may be written by either thread.
   When the run before was killed while it commanded the hand, or could not save,
   the hand jumps; but only to where a run once left it, or to the base pose. *)
Joins(pose) == (buffer - pose) \in {-1, 0, 1}

RunsJoin ==
  script.first /\ script.ramps /\ script.at = "write" =>
    IF unsaved THEN Joins(Base) \/ Joins(kept) ELSE hand # NoPose => Joins(hand)
=============================================================================
