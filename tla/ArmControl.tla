----------------------------- MODULE ArmControl -----------------------------
(***************************************************************************)
(* What the trajectory executor promises to the body controller, said      *)
(* without any of its machinery.  The arm_sdk channel carries an authority *)
(* weight (motor_cmd[kNotUsedJoint].q): 0 leaves the arm to the body       *)
(* controller, Full gives it to the motion SDK.  Authority is taken at     *)
(* once and given back one small step at a time, a release that has begun  *)
(* is never interrupted, neither by new work nor by the end of the         *)
(* process, and it always comes to its end.                                *)
(***************************************************************************)
EXTENDS Naturals

CONSTANT Full                     \* the weight of full authority, in steps

VARIABLES level,                  \* the authority weight last commanded
          stopped                 \* the process commands no more

vars == <<level, stopped>>

Init == level = 0 /\ stopped = FALSE

\* The SDK takes (or reaffirms) the arm: from rest or while it holds it.
Take == /\ ~stopped
        /\ level \in {0, Full}
        /\ level' = Full
        /\ UNCHANGED stopped

\* One step of a release.
Fade == /\ ~stopped
        /\ level > 0
        /\ level' = level - 1
        /\ UNCHANGED stopped

\* The process may end at rest or holding, never in the middle of a release.
Stop == /\ ~stopped
        /\ level \in {0, Full}
        /\ stopped' = TRUE
        /\ UNCHANGED level

Next == Take \/ Fade \/ Stop

SafetySpec == Init /\ [][Next]_vars

\* A release under way goes on; nothing obliges the holder to begin one.
Spec == SafetySpec /\ WF_vars(level < Full /\ Fade)
=============================================================================
