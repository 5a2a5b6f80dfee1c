----------------------------- MODULE GraspDemo -----------------------------
(***************************************************************************)
(* The two grasp demonstrations of the Dex-3 hand: the hand opens, closes  *)
(* step by step until the tactile sensors report contact several times in  *)
(* a row, holds what it then commanded, and opens again: after a while     *)
(* (control_dex3_right_grasp.py) or at Ctrl-C (..._norelease.py).  They    *)
(* drive the hand through the binding of HandSetPoint, whose recurrent     *)
(* thread repeats the command in the buffer.                               *)
(***************************************************************************)
EXTENDS HandSetPoint

CONSTANTS
  ContactConsec   \* --contact-consec: readings of contact in a row (4 by default)

ASSUME GraspAssumption == ContactConsec \in Nat \ {0}

VARIABLES
  demo,           \* which of the programs: a member of Demos
  grasp,          \* the script: [phase, io, pose, hold, count, tactile, contact], with
                  \* the pose at which contact was latched, or NoPose, as contact
  felt            \* dex3_right_agg_buffer_: "nothing yet", "free", "contact"

graspVars == <<demo, grasp, felt>>

OpenPose == 0
ClosePose == MaxHand

\* The timed script, the same with --keep-closed, and the one that waits for Ctrl-C.
Demos == {"timed", "kept", "interrupt"}

\* main() up to the loop: hold_pose is the closed pose until contact is latched.
GraspInit ==
  /\ demo \in Demos /\ felt = "nothing yet"
  /\ grasp = [phase |-> "check", io |-> "set", pose |-> OpenPose, hold |-> ClosePose,
              count |-> 0, tactile |-> FALSE, contact |-> NoPose]

At(phase) == grasp.phase = phase /\ grasp.io = "set"
Enter(phase) == grasp' = [grasp EXCEPT !.phase = phase, !.io = "set"]
GraspEnds(phase) ==
  /\ grasp' = [grasp EXCEPT !.phase = phase, !.io = "ended"]
  /\ buffer' = NoPose /\ writer' = IdleWriter /\ swept' = FALSE

\* step_hands(), its first half; GraspWrites is the other.
StepTo(p) ==
  /\ buffer' = p /\ swept' = (swept /\ p = buffer)
  /\ grasp' = [grasp EXCEPT !.io = "write", !.pose = p]
  /\ UNCHANGED <<file, script, writer, hand, kept, unsaved, runs, demo, felt>>

GraspWrites ==
  /\ grasp.io = "write" /\ hand' = buffer
  /\ grasp' = [grasp EXCEPT !.io = IF grasp.phase = "close" THEN "read" ELSE "set"]
  /\ UNCHANGED <<file, script, buffer, writer, swept, kept, unsaved, runs, demo, felt>>

\* Without a low state within 5 s the exit code is 3.
GraspCheck ==
  /\ At("check") /\ \/ Enter("approach") /\ UNCHANGED <<buffer, writer, swept>>
                    \/ GraspEnds("failed")
  /\ UNCHANGED <<file, script, hand, kept, unsaved, runs, demo, felt>>

\* The open pose is commanded for 0.3 s.
Approach == At("approach") /\ StepTo(OpenPose)
Approached ==
  /\ At("approach") /\ buffer = OpenPose /\ Enter("tactile")
  /\ UNCHANGED <<file, script, buffer, writer, swept, hand, kept, unsaved, runs, demo, felt>>

\* A frame in time, or the hand is closed without looking for contact.
AwaitTactile ==
  /\ At("tactile")
  /\ grasp' = [grasp EXCEPT !.phase = "close", !.tactile = (felt # "nothing yet")]
  /\ UNCHANGED <<file, script, buffer, writer, swept, hand, kept, unsaved, runs, demo, felt>>

CloseStep == At("close") /\ grasp.pose < ClosePose /\ StepTo(grasp.pose + 1)

\* The mutant: the hold goes on to the closed pose.
LatchClosed(pose) == ClosePose
LatchPose(pose) == pose

\* The level is that of the last frame received, however old: the binding never
\* empties its buffer, so that a stream that was ready is never found lost.
Counted == IF felt = "contact" THEN grasp.count + 1 ELSE 0
InContact == grasp.tactile /\ Counted >= ContactConsec
ReadContact ==
  /\ grasp.io = "read"
  /\ IF InContact
     THEN grasp' = [grasp EXCEPT !.phase = "hold", !.io = "set", !.contact = grasp.pose,
                                 !.hold = LatchPose(grasp.pose)]
     ELSE grasp' = [grasp EXCEPT !.io = "set", !.count = IF grasp.tactile THEN Counted ELSE @,
                                 !.phase = IF grasp.pose = ClosePose THEN "hold" ELSE @]
  /\ UNCHANGED <<file, script, buffer, writer, swept, hand, kept, unsaved, runs, demo, felt>>

HoldGrip == At("hold") /\ StepTo(grasp.hold)

\* The end of the hold, by the clock or by Ctrl-C.
TimedHoldEnds ==
  /\ At("hold")
  /\ \/ demo = "timed" /\ Enter("release") /\ UNCHANGED <<buffer, writer, swept>>
     \/ demo = "kept" /\ GraspEnds("done")
  /\ UNCHANGED <<file, script, hand, kept, unsaved, runs, demo, felt>>
InterruptHold ==
  /\ At("hold") /\ demo = "interrupt" /\ Enter("release")
  /\ UNCHANGED <<file, script, buffer, writer, swept, hand, kept, unsaved, runs, demo, felt>>

\* A ramp of any number of steps, one included (--release-time 0).
Release ==
  /\ At("release") /\ \E p \in {Toward1(grasp.pose, OpenPose), OpenPose} : StepTo(p)

\* At the end of the ramp the open pose is commanded for 0.2 s, many periods of
\* the recurrent thread.
Released ==
  /\ At("release") /\ grasp.pose = OpenPose /\ swept /\ GraspEnds("done")
  /\ UNCHANGED <<file, script, hand, kept, unsaved, runs, demo, felt>>

\* Ctrl-C anywhere else ends the program where it is, also in the release.
GraspInterrupted ==
  /\ grasp.io \in {"set", "read"} /\ ~(At("hold") /\ demo = "interrupt")
  /\ GraspEnds("interrupted")
  /\ UNCHANGED <<file, script, hand, kept, unsaved, runs, demo, felt>>

\* A frame of the tactile sensors.
Frame ==
  /\ grasp.io # "ended" /\ felt' \in {"free", "contact"}
  /\ UNCHANGED <<handVars, demo, grasp>>

GraspRepeats ==
  /\ grasp.io # "ended"
  /\ \/ TakeBuffer /\ UNCHANGED <<hand, swept>>
     \/ WriteTaken /\ swept' = (writer.got = OpenPose)
  /\ UNCHANGED <<file, script, buffer, kept, unsaved, runs, graspVars>>

\* The loop of either script, to the hold.
CloseOnContact ==
  \/ GraspCheck \/ Approach \/ Approached \/ AwaitTactile \/ CloseStep \/ GraspWrites
  \/ ReadContact \/ HoldGrip

TimedScript == CloseOnContact \/ TimedHoldEnds \/ Release \/ Released \/ GraspInterrupted
InterruptScript == CloseOnContact \/ InterruptHold \/ Release \/ Released \/ GraspInterrupted

GraspNext ==
  \/ demo # "interrupt" /\ TimedScript
  \/ demo = "interrupt" /\ InterruptScript
  \/ Frame \/ GraspRepeats
-----------------------------------------------------------------------------
\* Once contact is latched the hand is never commanded beyond the pose at which it
\* was, by the script or by the recurrent thread with a command it took before, in
\* the hold or in the release; and a script that releases and ends by itself
\* leaves the hand commanded open.
GripIsHeld ==
  /\ grasp.contact # NoPose => hand <= grasp.contact
  /\ grasp.phase = "done" /\ demo # "kept" => hand = OpenPose
=============================================================================
