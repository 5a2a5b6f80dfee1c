---------------------------- MODULE ButtonPress ----------------------------
(***************************************************************************)
(* The apriltag_button_press_node: the operator's key starts a daemon      *)
(* thread that drives the arm and the hand through one press, while the    *)
(* main thread spins the callbacks and runs, between any two bytecodes,    *)
(* the handler of SIGINT and SIGTERM.  The two threads share plain         *)
(* attributes; the lock only guards blocks that are single steps here.     *)
(*                                                                         *)
(* A goal is its number; a plan is the number of the goal it answers, and  *)
(* Empty is a trajectory without points.  A wait or a sleep is one step    *)
(* that may end at any time.  Publishing on a context that has been shut   *)
(* down raises.                                                            *)
(***************************************************************************)
EXTENDS Integers, Sequences

CONSTANTS
  MaxPresses,     \* bound: presses of the trigger key
  MaxSignals,     \* bound: signals delivered
  DryRun          \* the parameter dry_run

ASSUME PressAssumption == /\ MaxPresses \in Nat
                          /\ MaxSignals \in Nat
                          /\ DryRun \in BOOLEAN

VARIABLES
  stack,          \* what the main thread runs: main(), then nested handlers
  seq, k,         \* where the sequence thread is, its step of Program
  busy, shutdown, returnSent,   \* _busy, _shutdown, _return_sent
  ok,             \* the rclpy context is valid
  target,         \* age of _last_target
  targetEvent, trajEvent,       \* _target_event, _traj_event
  plan,           \* the trajectory _last_traj_duration_s comes from
  goals, trajs,   \* goals at the planner, trajectories on their way back
  sent,           \* goals published
  givenUp,        \* number of goals whose plan was waited for in vain
  log,            \* what the current sequence has commanded
  armOut,         \* a goal was published and no return since
  caught,         \* request_shutdown has found a sequence under way
  presses, signals

flags  == <<busy, shutdown, returnSent, ok>>
camera == <<target, targetEvent>>
reply  == <<trajEvent, plan>>
wire   == <<goals, trajs>>
told   == <<sent, givenUp, log, armOut, caught>>
counts == <<presses, signals>>
vars == <<stack, seq, k, flags, camera, reply, wire, told, counts>>

Empty == 0                        \* a trajectory without points

Program == <<"pre", "extend", "press", "retreat", "close">>
IsHand(s) == s \in {"extend", "close"}
Commanded == IF DryRun THEN <<"pre", "press", "retreat">> ELSE Program

\* A target is fresh up to target_pose_stale_s (1.5 s), aged up to _CACHE_TTL
\* (30 s), stale beyond.
Ages == {"none", "fresh", "aged", "stale"}

Spinning == {"spin", "begin", "unmark", "launch"}
Request == {"flag", "test", "check", "publish", "mark"}
Frames == Spinning \cup Request \cup {"down", "destroy", "exited", "crashed"}
Ended == stack[1] \in {"exited", "crashed"}

\* Where the sequence thread may be: before its return, at it, or ending
BeforeReturn == {"capture", "detect", "copy", "goal", "plan", "move", "hand", "grip"}
Places == BeforeReturn \cup {"check", "publish", "mark", "ramp", "finally",
                              "clear", "none", "dead"}

Init ==
  /\ stack = <<"spin">>
  /\ seq = "none" /\ k = 1
  /\ busy = FALSE /\ shutdown = FALSE /\ returnSent = FALSE
  /\ ok = TRUE
  /\ target = "none" /\ targetEvent = FALSE
  /\ trajEvent = FALSE /\ plan = 0
  /\ goals = <<>> /\ trajs = <<>>
  /\ sent = 0 /\ givenUp = 0 /\ log = <<>> /\ armOut = FALSE
  /\ caught = FALSE
  /\ presses = 0 /\ signals = 0
-----------------------------------------------------------------------------
(* The environment: operator, camera, planner.                             *)

\* The kernel may deliver a signal while a handler is running.
Signal ==
  /\ ~Ended
  /\ signals < MaxSignals
  /\ signals' = signals + 1
  /\ stack' = Append(stack, "flag")
  /\ UNCHANGED <<seq, k, flags, camera, reply, wire, told, presses>>

\* The clock passes 1.5 s, then 30 s, after the detection.
TargetAges ==
  /\ ~Ended
  /\ target \in {"fresh", "aged"}
  /\ target' = IF target = "fresh" THEN "aged" ELSE "stale"
  /\ UNCHANGED <<stack, seq, k, flags, targetEvent, reply, wire, told, counts>>

\* The planner takes the goals in order; a goal it finds no plan for is
\* dropped without a word.  Another node's empty trajectory counts as one too.
Planner ==
  /\ ~Ended
  /\ goals # <<>>
  /\ goals' = Tail(goals)
  /\ trajs' \in {trajs, Append(trajs, Head(goals)), Append(trajs, Empty)}
  /\ UNCHANGED <<stack, seq, k, flags, camera, reply, told, counts>>
-----------------------------------------------------------------------------
(* The main thread: callbacks.                                             *)

Top == stack[Len(stack)]
Goto(f) == stack' = [stack EXCEPT ![Len(stack)] = f]
Idle == stack = <<"spin">> /\ ok

\* _target_cb
TargetCb ==
  /\ Idle
  /\ target' = "fresh"
  /\ targetEvent' = TRUE
  /\ UNCHANGED <<stack, seq, k, flags, reply, wire, told, counts>>

\* _traj_cb
TrajCb ==
  /\ Idle
  /\ trajs # <<>>
  /\ trajs' = Tail(trajs)
  /\ IF Head(trajs) = Empty THEN UNCHANGED reply
                            ELSE trajEvent' = TRUE /\ plan' = Head(trajs)
  /\ UNCHANGED <<stack, seq, k, flags, camera, goals, told, counts>>

\* _tick: the trigger key is read
KeyPressed ==
  /\ Idle
  /\ ~shutdown
  /\ presses < MaxPresses
  /\ Goto("begin")
  /\ UNCHANGED <<seq, k, flags, camera, reply, wire, told, counts>>

\* _start_sequence, under the lock; with a sequence under way the key is ignored.
Begin ==
  /\ Top = "begin"
  /\ Goto(IF busy THEN "spin" ELSE "unmark")
  /\ busy' = TRUE
  /\ presses' = IF busy THEN presses ELSE presses + 1
  /\ UNCHANGED <<seq, k, shutdown, returnSent, ok, camera, reply, wire, told,
                 signals>>

UnmarkForgotten ==
  /\ Top = "unmark"
  /\ Goto("launch")
  /\ UNCHANGED <<seq, k, flags, camera, reply, wire, told, counts>>

Unmark ==
  /\ Top = "unmark"
  /\ returnSent' = FALSE
  /\ Goto("launch")
  /\ UNCHANGED <<seq, k, busy, shutdown, ok, camera, reply, wire, told, counts>>

Launch ==
  /\ Top = "launch"
  /\ seq' = "capture" /\ k' = 1
  /\ log' = <<>>
  /\ Goto("spin")
  /\ UNCHANGED <<flags, camera, reply, wire, sent, givenUp, armOut, caught,
                 counts>>

\* spin() returns, or raises ExternalShutdownException, once the context is down.
SpinEnds ==
  /\ stack = <<"spin">> /\ ~ok
  /\ Goto("flag")
  /\ UNCHANGED <<seq, k, flags, camera, reply, wire, told, counts>>
-----------------------------------------------------------------------------
(* The main thread: request_shutdown, in a signal handler or at the end of *)
(* main(), and what follows it.                                            *)

\* An exception leaves the handlers and, inside spin(), enters main()'s
\* finally; in the finally itself it ends the process.
Raise == stack' = IF stack[1] \in Spinning THEN <<"flag">> ELSE <<"crashed">>

\* request_shutdown is over: the handler shuts the context down, main()
\* destroys the node.
Requested == IF Len(stack) = 1 THEN "destroy" ELSE "down"

SetShutdown ==
  /\ Top = "flag"
  /\ shutdown' = TRUE
  /\ Goto("test")
  /\ UNCHANGED <<seq, k, busy, returnSent, ok, camera, reply, wire, told, counts>>

AfterTest == IF busy THEN Requested ELSE "check"

TestBusy ==
  /\ Top = "test"
  /\ Goto(AfterTest)
  /\ caught' = (caught \/ busy)
  /\ UNCHANGED <<seq, k, flags, camera, reply, wire, sent, givenUp, log, armOut,
                 counts>>

CheckSent ==
  /\ Top = "check"
  /\ Goto(IF returnSent THEN Requested ELSE "publish")
  /\ UNCHANGED <<seq, k, flags, camera, reply, wire, told, counts>>

\* A publication of /executor/return_to_standing, on a valid context
SendReturn == log' = Append(log, "return") /\ armOut' = FALSE

PublishReturn ==
  /\ Top = "publish"
  /\ IF ok THEN SendReturn /\ Goto("mark")
           ELSE Raise /\ UNCHANGED <<log, armOut>>
  /\ UNCHANGED <<seq, k, flags, camera, reply, wire, sent, givenUp, caught,
                 counts>>

MarkSent ==
  /\ Top = "mark"
  /\ returnSent' = TRUE
  /\ Goto(Requested)
  /\ UNCHANGED <<seq, k, busy, shutdown, ok, camera, reply, wire, told, counts>>

\* rclpy.try_shutdown() ends the handler.
ShutContext ==
  /\ Top = "down"
  /\ ok' = FALSE
  /\ stack' = SubSeq(stack, 1, Len(stack) - 1)
  /\ UNCHANGED <<seq, k, busy, shutdown, returnSent, camera, reply, wire, told,
                 counts>>

DestroyWaits ==
  /\ Top = "destroy" /\ ~busy
  /\ Goto("exited")
  /\ UNCHANGED <<seq, k, flags, camera, reply, wire, told, counts>>

\* destroy_node() and the end of the process, which takes the thread with it
Destroy ==
  /\ Top = "destroy"
  /\ Goto("exited")
  /\ UNCHANGED <<seq, k, flags, camera, reply, wire, told, counts>>
-----------------------------------------------------------------------------
(* The sequence thread, _run_sequence.                                     *)

At(place) == ~Ended /\ seq = place

\* Leaving the try block, by its end, by a return or by an exception
Finally == seq' = "finally" /\ UNCHANGED k

NextStep ==
  /\ k' = k + 1
  /\ seq' = IF k = Len(Program) THEN "check"
            ELSE IF IsHand(Program[k + 1]) THEN "hand" ELSE "goal"

\* A usable cache saves the wait for a new detection, not the capture.
Capture ==
  /\ At("capture")
  /\ targetEvent' = IF target \in {"fresh", "aged"} THEN targetEvent ELSE FALSE
  /\ IF ~ok THEN Finally
            ELSE /\ seq' = IF target \in {"fresh", "aged"} THEN "copy" ELSE "detect"
                 /\ UNCHANGED k
  /\ UNCHANGED <<stack, flags, target, reply, wire, told, counts>>

Detect ==
  /\ At("detect")
  /\ \/ targetEvent /\ seq' = "copy"
     \/ seq' = "finally"                        \* timeout, or shutdown
  /\ UNCHANGED <<stack, k, flags, camera, reply, wire, told, counts>>

CopyTarget ==
  /\ At("copy")
  /\ seq' = IF target = "stale" THEN "finally" ELSE "goal"
  /\ UNCHANGED <<stack, k, flags, camera, reply, wire, told, counts>>

ClearNot == UNCHANGED trajEvent

ClearTrajEvent == trajEvent' = FALSE

\* _send_goal_and_wait: the publication
SendGoal ==
  /\ At("goal")
  /\ ClearTrajEvent
  /\ IF ok
     THEN /\ goals' = Append(goals, sent + 1)
          /\ sent' = sent + 1
          /\ log' = Append(log, Program[k])
          /\ armOut' = TRUE
          /\ seq' = "plan" /\ UNCHANGED k
     ELSE Finally /\ UNCHANGED <<goals, sent, log, armOut>>
  /\ UNCHANGED <<stack, flags, camera, plan, trajs, givenUp, caught, counts>>

\* _send_goal_and_wait: the trajectory is seen, and its duration read
PlanSeen ==
  /\ At("plan")
  /\ trajEvent
  /\ seq' = "move"
  /\ UNCHANGED <<stack, k, flags, camera, reply, wire, told, counts>>

PlanMissed ==
  /\ At("plan")
  /\ givenUp' = givenUp + 1
  /\ Finally
  /\ UNCHANGED <<stack, flags, camera, reply, wire, sent, log, armOut,
                 caught, counts>>

\* The interruptible sleep for the duration of the motion.  It also fails
\* without a shutdown: the clock is read twice, and if its deadline falls
\* between the two readings time.sleep() gets a negative argument and raises.
Moved ==
  /\ At("move")
  /\ \/ ~shutdown /\ NextStep
     \/ Finally
  /\ UNCHANGED <<stack, flags, camera, reply, wire, told, counts>>

\* _run_dex3: the Dex-3 script is started, shutdown or not.
StartHand ==
  /\ At("hand")
  /\ IF DryRun THEN NextStep /\ UNCHANGED log
     ELSE seq' = "grip" /\ log' = Append(log, Program[k]) /\ UNCHANGED k
  /\ UNCHANGED <<stack, flags, camera, reply, wire, sent, givenUp, armOut,
                 caught, counts>>

\* It ends well, or it is missing, times out or fails.
HandEnds ==
  /\ At("grip")
  /\ \/ ~shutdown /\ NextStep
     \/ Finally
  /\ UNCHANGED <<stack, flags, camera, reply, wire, told, counts>>

\* _publish_return_to_standing, at the end of the try block and, in the
\* finally clause of a sequence interrupted by shutdown, once more.
Last == k > Len(Program) + 1

SeqCheckSent ==
  /\ At("check")
  /\ seq' = IF ~returnSent THEN "publish" ELSE IF Last THEN "clear" ELSE "ramp"
  /\ UNCHANGED <<stack, k, flags, camera, reply, wire, told, counts>>

SeqPublishReturn ==
  /\ At("publish")
  /\ IF ok THEN SendReturn /\ seq' = "mark"
           ELSE /\ seq' = IF Last THEN "dead" ELSE "finally"
                /\ UNCHANGED <<log, armOut>>
  /\ UNCHANGED <<stack, k, flags, camera, reply, wire, sent, givenUp, caught,
                 counts>>

MarkForgotten == UNCHANGED returnSent

MarkReturn == returnSent' = TRUE

SeqMarkSent ==
  /\ At("mark")
  /\ MarkReturn
  /\ seq' = IF Last THEN "clear" ELSE "ramp"
  /\ UNCHANGED <<stack, k, busy, shutdown, ok, camera, reply, wire, told, counts>>

\* The sleep for the executor's ramp; its result does not matter.
RampWaited ==
  /\ At("ramp")
  /\ seq' = "finally"
  /\ UNCHANGED <<stack, k, flags, camera, reply, wire, told, counts>>

FinallyEarly == /\ At("finally") /\ busy' = FALSE
                /\ seq' = IF shutdown THEN "check" ELSE "clear"
                /\ k' = Len(Program) + 2
                /\ UNCHANGED <<stack, shutdown, returnSent, ok, camera, reply,
                               wire, told, counts>>

FinallyClause ==
  /\ At("finally")
  /\ seq' = IF shutdown THEN "check" ELSE "clear"
  /\ k' = Len(Program) + 2
  /\ UNCHANGED <<stack, flags, camera, reply, wire, told, counts>>

ClearLeaks == UNCHANGED busy

ClearFlag == busy' = FALSE

ClearBusy ==
  /\ At("clear")
  /\ ClearFlag
  /\ seq' = "none"
  /\ UNCHANGED <<stack, k, shutdown, returnSent, ok, camera, reply, wire, told,
                 counts>>
-----------------------------------------------------------------------------
MainThread ==
  \/ Begin \/ Unmark \/ Launch \/ SpinEnds
  \/ SetShutdown \/ TestBusy \/ CheckSent \/ PublishReturn \/ MarkSent
  \/ ShutContext \/ Destroy

SequenceThread ==
  \/ Capture \/ Detect \/ CopyTarget
  \/ SendGoal \/ PlanSeen \/ PlanMissed \/ Moved
  \/ StartHand \/ HandEnds
  \/ SeqCheckSent \/ SeqPublishReturn \/ SeqMarkSent \/ RampWaited
  \/ FinallyClause \/ ClearBusy

Inputs ==
  \/ Signal \/ TargetAges \/ Planner \/ TargetCb \/ TrajCb \/ KeyPressed

Next == MainThread \/ SequenceThread \/ Inputs

SafetySpec == Init /\ [][Next]_vars

\* Both threads run on; nothing is assumed of operator, camera and planner,
\* nor that a plan that has been made is delivered.
Spec == SafetySpec /\ WF_vars(MainThread) /\ WF_vars(SequenceThread)
-----------------------------------------------------------------------------
\* Every variable keeps its type.
TypeOK ==
  /\ stack \in Seq(Frames) /\ Len(stack) \in 1 .. 1 + MaxSignals
  /\ seq \in Places
  /\ k \in 1 .. Len(Program) + 2
  /\ busy \in BOOLEAN /\ shutdown \in BOOLEAN /\ returnSent \in BOOLEAN
  /\ ok \in BOOLEAN
  /\ target \in Ages /\ targetEvent \in BOOLEAN
  /\ trajEvent \in BOOLEAN /\ plan \in 0 .. sent
  /\ goals \in Seq(1 .. sent) /\ trajs \in Seq(0 .. sent)
  /\ sent \in 0 .. 3 * MaxPresses /\ givenUp \in 0 .. sent
  /\ log \in Seq({"pre", "extend", "press", "retreat", "close", "return"})
  /\ armOut \in BOOLEAN /\ caught \in BOOLEAN
  /\ presses \in 0 .. MaxPresses /\ signals \in 0 .. MaxSignals

\* A new sequence is launched only when the thread of the one before has ended:
\* _busy, tested by the main thread and cleared by the other, is enough, with
\* exceptions and signals at any point.
OneSequence == Top \in {"unmark", "launch"} => seq = "none"

\* What a sequence commands is a beginning of the program in its order, and
\* after the return to standing nothing moves the arm or the hand.  There is at
\* most one return, or, where signals interrupt each other's handlers before the
\* return is marked as sent, at most one for each signal; it comes early only when
\* the process is shutting down.
OrderlySequence ==
  \E n \in 0 .. Len(Commanded), r \in 0 .. 1 + MaxSignals :
     /\ log = SubSeq(Commanded, 1, n) \o [i \in 1 .. r |-> "return"]
     /\ r > 1 => r <= signals
     /\ r > 0 => n = Len(Commanded) \/ shutdown

\* Nothing ties a trajectory to the goal it answers but the order of arrival.
\* The sequence times the motion it asked for as long as no wait was given up;
\* each wait given up may set all later ones, across sequences, one goal back.
OwnPlan == seq = "move" => plan >= sent - givenUp

\* The node leaves the arm out when it ends only if it was told to stop in the
\* middle of a sequence; after a sequence that failed it brings the arm back.
AbandonedOnlyInSequence == Ended /\ armOut => caught

\* A sequence that fails does not leave the node deaf to the key.
BusyIsReleased == busy ~> ~busy \/ shutdown

\* "SIGINT/SIGTERM are handled: the signal callback calls try_shutdown", so
\* that the launch system need not kill the node (README.md, section 8).
ShutdownEnds == shutdown ~> Ended
=============================================================================
