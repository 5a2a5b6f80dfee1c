---------------------------- MODULE RightArmMode ----------------------------
(***************************************************************************)
(* The programs that hold an arm controller.  right_arm_mode.py leaves the *)
(* right arm free or locks it: a control thread sets the target, the main  *)
(* thread latches the poses and changes the gains.  The teleoperation sets *)
(* the targets from its main loop and goes home when it ends.              *)
(***************************************************************************)
EXTENDS RobotArm

CONSTANTS
  HoldSteps,      \* steps for which shutdown() holds the latched pose (0.5 s)
  ReadyTicks,     \* ticks that start() waits for the weight (3 s)
  FadeTicks       \* ticks between the weights after going home (20 ms: 5)

ASSUME ModeAssumption ==
  HoldSteps \in Nat \ {0} /\ ReadyTicks \in Nat \ {0} /\ FadeTicks \in Nat \ {0}

VARIABLES
  program,        \* "right_arm_mode" or "teleop"
  main,           \* the main thread: [at, i, q, mode]
  control,        \* the control thread: [at, q, mode, left, right]
  mode,           \* "lock" or "free"
  lock_q,         \* the latched poses
  stop,           \* _stop_event
  ending,         \* how it ended: "", "handed_back", "late_ramp", "away", "killed"
  behind          \* history: ticks that the publish thread fell behind the main
                  \* thread since the hold began, or since the last weight was set

modeVars == <<program, main, control, mode, lock_q, stop, ending>>

Modes == {"lock", "free"}
MainAt(p) == [at |-> p, i |-> 0, q |-> Home, mode |-> "lock"]
IdleControl == [at |-> "read", q |-> Home, mode |-> "lock", lock |-> Home]

ModeInit ==
  /\ program \in {"right_arm_mode", "teleop"}
  /\ program = "right_arm_mode" => kind = "G1_29" /\ motion_mode
  /\ main = MainAt("construct") /\ control = IdleControl
  /\ mode = "lock" /\ lock_q = Home /\ stop = FALSE /\ ending = ""
  /\ behind = 0

MainStep(p) == Awake("main") /\ main.at = p
Tool(p) == program = "right_arm_mode" /\ MainStep(p)
Teleop(p) == program = "teleop" /\ MainStep(p)
Go(p) == main' = MainAt(p)
End(how) == Go("end") /\ ending' = how /\ threads' = {}

Setup ==
  /\ MainStep("construct") /\ Construct
  /\ lock_q' = q /\ Go(IF program = "teleop" THEN "await" ELSE "start")
  /\ UNCHANGED <<kind, motion_mode, q, sent, sleep, late, program, control, mode, stop, ending>>

\* start(): the gains, the control thread, then the wait for the weight.
Gains(m) == msg' = [msg EXCEPT !.soft = (m = "free")]
Start ==
  /\ Tool("start") /\ Gains("lock") /\ Go("ready")
  /\ threads' = threads \cup {"control"}
  /\ UNCHANGED <<kind, motion_mode, q, q_target, sent, publisher, sleep, late,
                 program, control, mode, lock_q, stop, ending>>

Ready == msg.weight * 20 >= Steps * 19
AwaitReady ==
  /\ Tool("ready")
  /\ IF Ready \/ main.i = ReadyTicks THEN UNCHANGED sleep /\ Go("read")
     ELSE main' = [main EXCEPT !.i = @ + 1] /\ Sleep("main", 1)
  /\ UNCHANGED <<kind, motion_mode, q, q_target, msg, sent, publisher, threads, late,
                 program, control, mode, lock_q, stop, ending>>

\* The console, and the wait for START: the operator takes two ticks or more.
Await ==
  /\ \E p \in {"console", "await"} : MainStep(p)
  /\ Sleep("main", 1)
  /\ UNCHANGED <<kind, motion_mode, q, q_target, msg, sent, publisher, threads, late, modeVars>>

Command ==
  /\ Tool("console") /\ \E m \in Modes : main' = [MainAt("read") EXCEPT !.mode = m]
  /\ UNCHANGED <<armVars, program, control, mode, lock_q, stop, ending>>

\* set_mode() reads the pose, latches it under the lock and sets the gains;
\* shutdown() begins in the same way.
ReadPose ==
  /\ \E p \in {<<"read", "latch">>, <<"shutdown", "relatch">>} :
        Tool(p[1]) /\ main' = [main EXCEPT !.at = p[2], !.q = q]
  /\ UNCHANGED <<kind, motion_mode, q, q_target, msg, sent, publisher, threads, sleep, late,
                 program, control, mode, lock_q, stop, ending>>

\* The mutant: only the left arm is latched.
LatchedLeftOnly(m, pose) == [left |-> pose["left"], right |-> lock_q["right"]]
Latched(m, pose) == [left |-> pose["left"],
                     right |-> IF m = "lock" THEN pose["right"] ELSE lock_q["right"]]
Latch ==
  /\ Tool("latch")
  /\ lock_q' = Latched(main.mode, main.q) /\ mode' = main.mode
  /\ main' = [MainAt("gains") EXCEPT !.mode = main.mode]
  /\ UNCHANGED <<armVars, program, control, stop, ending>>

SetGains ==
  /\ Tool("gains") /\ Gains(main.mode) /\ Go("console") /\ Sleep("main", 2)
  /\ UNCHANGED <<kind, motion_mode, q, q_target, sent, publisher, threads, late,
                 program, control, mode, lock_q, stop, ending>>

\* The control thread: the pose, then the mode and the latched poses under the
\* lock, then the target.
ControlRead ==
  /\ Awake("control") /\ control.at = "read"
  /\ IF stop THEN threads' = threads \ {"control"} /\ control' = [IdleControl EXCEPT !.at = "done"]
             ELSE control' = [control EXCEPT !.at = "mode", !.q = q] /\ UNCHANGED threads
  /\ UNCHANGED <<kind, motion_mode, q, q_target, msg, sent, publisher, sleep, late,
                 program, main, mode, lock_q, stop, ending>>

ControlMode ==
  /\ Awake("control") /\ control.at = "mode"
  /\ control' = [control EXCEPT !.at = "commit", !.mode = mode, !.lock = lock_q]
  /\ UNCHANGED <<armVars, program, main, mode, lock_q, stop, ending>>

Target(c) == [left |-> c.lock["left"],
              right |-> IF c.mode = "lock" THEN c.lock["right"] ELSE c.q["right"]]
ControlCommit ==
  /\ Awake("control") /\ control.at = "commit"
  /\ CtrlDualArm(Target(control)) /\ control' = IdleControl /\ Sleep("control", 1)
  /\ UNCHANGED <<kind, motion_mode, q, msg, sent, publisher, threads, late,
                 program, main, mode, lock_q, stop, ending>>

ControlThread == ControlRead \/ ControlMode \/ ControlCommit

\* shutdown(): latch, gains, stop and join, hold, ramp down.
Relatch ==
  /\ Tool("relatch") /\ lock_q' = main.q /\ mode' = "lock" /\ Go("stop")
  /\ UNCHANGED <<armVars, program, control, stop, ending>>

\* join() waits for the control thread to wake up and end.
StopControl ==
  /\ Tool("stop") /\ Gains("lock") /\ stop' = TRUE /\ Go("join") /\ Sleep("main", sleep["control"])
  /\ UNCHANGED <<kind, motion_mode, q, q_target, sent, publisher, threads, late,
                 program, control, mode, lock_q, ending>>

Join ==
  /\ Tool("join") /\ "control" \notin threads /\ Go("hold")
  /\ UNCHANGED <<armVars, program, control, mode, lock_q, stop, ending>>

\* The mutant: the ramp-down begins at once.
HoldsNothing(i) == FALSE
Holds(i) == i < HoldSteps
Hold ==
  /\ Tool("hold")
  /\ IF Holds(main.i)
     THEN CtrlDualArm(lock_q) /\ main' = [main EXCEPT !.i = @ + 1] /\ Sleep("main", 1)
     ELSE Go("exit") /\ UNCHANGED <<q_target, sleep>>
  /\ UNCHANGED <<kind, motion_mode, q, msg, sent, publisher, threads, late,
                 program, control, mode, lock_q, stop, ending>>

SmoothExit ==
  /\ Tool("exit") /\ main.i < Steps
  /\ SmoothExitStep(main.i) /\ main' = [main EXCEPT !.i = @ + 1] /\ Sleep("main", 1)
  /\ UNCHANGED <<kind, motion_mode, q, q_target, publisher, threads, late,
                 program, control, mode, lock_q, stop, ending>>

Closed ==
  /\ Tool("exit") /\ main.i = Steps /\ End("handed_back")
  /\ UNCHANGED <<kind, motion_mode, q, q_target, msg, sent, publisher, sleep, late,
                 program, control, mode, lock_q, stop>>

\* Ctrl-C, "quit" or the end of the input lead to shutdown(), which a second Ctrl-C
\* cuts short; before the control thread is started there is none to join.
Interrupt ==
  /\ program = "right_arm_mode" /\ main.at \in {"start", "ready", "read", "latch", "gains", "console"}
  /\ Go("shutdown") /\ Sleep("main", 0)
  /\ UNCHANGED <<kind, motion_mode, q, q_target, msg, sent, publisher, threads, late,
                 program, control, mode, lock_q, stop, ending>>

SecondInterrupt ==
  /\ main.at \in {"shutdown", "relatch", "stop", "join", "hold", "exit", "home", "fade"}
  /\ End("killed")
  /\ UNCHANGED <<kind, motion_mode, q, q_target, msg, sent, publisher, sleep, late,
                 program, control, mode, lock_q, stop>>

\* The teleoperation: the wait for START, the main loop, which gives the arms any
\* target at each turn, and ctrl_dual_arm_go_home().
Begin ==
  /\ Teleop("await") /\ Go("loop")
  /\ UNCHANGED <<armVars, program, control, mode, lock_q, stop, ending>>

Solve ==
  /\ Teleop("loop") /\ \E p \in 0 .. MaxPose : CtrlDualArm([a \in Arms |-> p])
  /\ Sleep("main", 1)
  /\ UNCHANGED <<kind, motion_mode, q, msg, sent, publisher, threads, late, modeVars>>

GoHome ==
  /\ \E p \in {"await", "loop"} : Teleop(p)
  /\ CtrlDualArm(Home) /\ Go("home")
  /\ UNCHANGED <<kind, motion_mode, q, msg, sent, publisher, threads, sleep, late,
                 program, control, mode, lock_q, stop, ending>>

\* Home within the tolerance: in motion mode the weight is given back.
RampedUp == publisher.at = "loop"
Arrived ==
  /\ Teleop("home") /\ main.i < MaxAttempts /\ ArmAtHome
  /\ Go(IF motion_mode THEN "fade" ELSE "close")
  /\ ending' = IF RampedUp THEN "handed_back" ELSE "late_ramp"
  /\ UNCHANGED <<kind, motion_mode, q, q_target, msg, sent, publisher, threads, sleep, late,
                 program, control, mode, lock_q, stop>>

Look ==
  /\ Teleop("home") /\ main.i < MaxAttempts /\ ~ArmAtHome
  /\ main' = [main EXCEPT !.i = @ + 1] /\ Sleep("main", 1)
  /\ UNCHANGED <<kind, motion_mode, q, q_target, msg, sent, publisher, threads, late,
                 program, control, mode, lock_q, stop, ending>>

GiveUp ==
  /\ Teleop("home") /\ main.i = MaxAttempts /\ End("away")
  /\ UNCHANGED <<kind, motion_mode, q, q_target, msg, sent, publisher, sleep, late,
                 program, control, mode, lock_q, stop>>

\* The publish thread sends what the main thread puts into the message here.
Fade ==
  /\ Teleop("fade") /\ main.i <= HomeSteps
  /\ SetWeight(FadeWeight(main.i)) /\ main' = [main EXCEPT !.i = @ + 1] /\ Sleep("main", FadeTicks)
  /\ UNCHANGED <<kind, motion_mode, q, q_target, publisher, threads, late,
                 program, control, mode, lock_q, stop, ending>>

Faded ==
  /\ Teleop("fade") /\ main.i > HomeSteps /\ Go("close") /\ Sleep("main", 1)
  /\ UNCHANGED <<kind, motion_mode, q, q_target, msg, sent, publisher, threads, late,
                 program, control, mode, lock_q, stop, ending>>

\* Listener, image client and recorder are closed before the process ends.
Close ==
  /\ Teleop("close") /\ Go("end") /\ threads' = {}
  /\ UNCHANGED <<kind, motion_mode, q, q_target, msg, sent, publisher, sleep, late,
                 program, control, mode, lock_q, stop, ending>>

MainThread ==
  \/ Setup \/ Start \/ AwaitReady \/ Await \/ Command \/ ReadPose \/ Latch \/ SetGains
  \/ Relatch \/ StopControl \/ Join \/ Hold \/ SmoothExit \/ Closed
  \/ Interrupt \/ SecondInterrupt
  \/ Begin \/ Solve \/ GoHome \/ Arrived \/ Look \/ GiveUp \/ Fade \/ Faded \/ Close

\* The hold and each weight begin the count anew; a tick for which the publish
\* thread is late and the main thread is not is counted, until the program ends.
BeginsCount == main.at = "join" \/ (main.at = "fade" /\ main.i <= HomeSteps)
FallsBehind ==
  /\ main.at \in {"hold", "exit", "fade", "close"}
  /\ sleep["publish"] = 0 /\ sleep["main"] > 0

CountAnew == behind' = IF BeginsCount THEN 0 ELSE behind
CountTick == behind' = IF FallsBehind THEN behind + 1 ELSE behind

ModeNext ==
  \/ MainThread /\ CountAnew
  \/ ControlThread /\ UNCHANGED behind
  \/ PublishThread /\ UNCHANGED <<modeVars, behind>>
  \/ Tick /\ CountTick /\ UNCHANGED modeVars
-----------------------------------------------------------------------------
(* A program that ends after its ramp-down has given the arms back: the last
   message written carries the weight 0.  The publish thread writes the same
   message object, and shutdown() may come while that thread still ramps the
   weight up: the pose is held for half a second first, so that the ramp-up is
   over when the ramp-down is, unless its thread fell behind the main thread by
   as much.  The two ramps take turns of the same length: what counts is how much
   one loses on the other, whatever both lose.  ctrl_dual_arm_go_home() holds
   nothing: it is answered for only when the ramp-up was over when it began, and
   its last weight goes out unless the publish thread then misses the 20 ms that
   main waits. *)
Margin == IF program = "right_arm_mode" THEN HoldSteps ELSE FadeTicks

HandedBack ==
  (main.at = "end" /\ ending = "handed_back" /\ motion_mode /\ behind < Margin) =>
     sent.weight = 0

\* An arm that nobody has commanded elsewhere never has a target more than the way
\* of two ticks, and of all those for which a thread was late so far, from where it
\* is: neither when it is taken over, nor while the right arm is led anywhere, nor
\* when it is locked then or the program ends.  The pose is read outside the lock,
\* the gains change before the target does, and the control thread commits what it
\* read before.
Holding ==
  IF program = "right_arm_mode" THEN publisher.at # "none"
  ELSE kind = "G1_29" /\ main.at = "await"

LockKeepsPose ==
  Holding => \A a \in Arms : Distance(q_target[a], q[a]) <= late + 2
=============================================================================
