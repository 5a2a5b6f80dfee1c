------------------------ MODULE MCTrajectoryExecutor ------------------------
(***************************************************************************)
(* A small instance of TrajectoryExecutor.  Waypoints are two units apart, *)
(* so that a segment and a ramp of two steps pass through odd poses.       *)
(***************************************************************************)
EXTENDS TrajectoryExecutor

Trajectory(ps) == [names |-> "complete", points |-> ps]

\* Three waypoints, the last beyond the limit; and a message that lacks a joint.
ReachMessages == {Trajectory(<<0, 2, 6>>), [names |-> "incomplete", points |-> <<2>>]}

\* Also a trajectory without points.
OddMessages == ReachMessages \cup {Trajectory(<<>>)}
=============================================================================
