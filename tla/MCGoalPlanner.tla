--------------------------- MODULE MCGoalPlanner ---------------------------
(***************************************************************************)
(* A small instance of GoalPlanner: an arm of three links on the torso,    *)
(* with one pair configured to be skipped, two joints of different speed,  *)
(* and a leg that the hand may reach.                                      *)
(***************************************************************************)
EXTENDS GoalPlanner

ArmChain == <<"torso", "upper", "fore", "hand">>

ConfiguredPairs == {{"upper", "hand"}}

\* Neighbours always touch; the hand may also touch the torso, the upper arm or the leg.
SomePostures == {Adjacent \cup {{"hand", "upper"}}, Adjacent \cup {{"hand", "torso"}}, {{"hand", "leg"}}}

WithinLimits == {a \in [{"pitch", "roll"} -> 0 .. 1] : a["roll"] <= a["pitch"]}

JointSpeeds == [j \in {"pitch", "roll"} |-> IF j = "pitch" THEN 3 ELSE 4]
=============================================================================
