------------------------------- MODULE Vision -------------------------------
(***************************************************************************)
(* The three ways to a target position, of which one is started: captures  *)
(* on a trigger (apriltag_button_press, apriltag_reach), a button detector *)
(* (elevator_button_press, or the camera alone), or, by hand, the bridge   *)
(* behind a stream of tag positions.  They share nothing.                  *)
(***************************************************************************)
EXTENDS TagTrigger, GoalBridge, ButtonDetector

VARIABLE front      \* the nodes that were started

vars == <<front, triggerVars, bridgeVars, buttonVars>>

Fronts == {"trigger", "bridge", "button"}

\* The settings of what was not started do not matter.
Init ==
  /\ front \in Fronts
  /\ TriggerInit
  /\ front # "trigger" => plugged = {} /\ \A f \in DOMAIN cfg : ~cfg[f]
  /\ BridgeInit
  /\ ButtonInit
  /\ front # "button" => ~threaded /\ ~v4l2

Next ==
  \/ front = "trigger" /\ TriggerNext /\ UNCHANGED <<front, bridgeVars, buttonVars>>
  \/ front = "bridge" /\ BridgeNext /\ UNCHANGED <<front, triggerVars, buttonVars>>
  \/ front = "button" /\ ButtonNext /\ UNCHANGED <<front, triggerVars, bridgeVars>>

\* Threads run and time passes; nothing else need happen.
Fairness ==
  /\ WF_vars(front = "trigger" /\ RunTrigger /\ UNCHANGED <<front, bridgeVars, buttonVars>>)
  /\ WF_vars(front = "trigger" /\ Tick /\ UNCHANGED <<front, bridgeVars, buttonVars>>)
  /\ WF_vars(front = "button" /\ (InferenceLoop \/ SetEvent)
             /\ UNCHANGED <<front, triggerVars, bridgeVars>>)

Spec == Init /\ [][Next]_vars /\ Fairness
=============================================================================
