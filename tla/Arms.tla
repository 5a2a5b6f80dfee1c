-------------------------------- MODULE Arms --------------------------------
(***************************************************************************)
(* The programs that command the arms and the right hand directly, each    *)
(* with the threads it starts.  They are examined one at a time: no two of *)
(* them may command the same motors, which is left to the operator.        *)
(***************************************************************************)
EXTENDS RightArmMode, GraspDemo

VARIABLE part       \* "arm", "hand" or "grasp"

vars == <<part, armVars, modeVars, behind, handVars, graspVars>>

Init ==
  /\ part \in {"arm", "hand", "grasp"}
  /\ ArmInit /\ ModeInit /\ HandInit /\ GraspInit
  /\ part # "grasp" => demo = "timed"
  /\ part # "arm" => program = "teleop" /\ kind = "G1_29" /\ motion_mode /\ q = Home

Next ==
  \/ part = "arm" /\ ModeNext /\ UNCHANGED <<part, handVars, graspVars>>
  \/ part = "hand" /\ HandNext /\ UNCHANGED <<part, armVars, modeVars, behind, graspVars>>
  \/ part = "grasp" /\ GraspNext /\ UNCHANGED <<part, armVars, modeVars, behind>>

Spec == Init /\ [][Next]_vars
=============================================================================
