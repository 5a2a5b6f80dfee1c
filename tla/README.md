# A verification of the right-arm reaching, pressing and teleoperation programs

The repository makes a Unitree G1 reach for, and press, what it sees: an
AprilTag or a button. A trigger node finds the target and publishes a goal, a
planner turns the goal into a trajectory of the right arm's seven joints, an
executor plays the trajectory on the robot's `arm_sdk` channel, and a script
moves the Dex-3 hand. Next to it stand programs that command arms and hands
directly: a tool that frees or locks the right arm, and a teleoperation with
recorder, camera server and remote control. This directory holds TLA+ modules of
the parts whose behaviour is hard to test, the TLC configurations that check
them on small instances, and TLAPS proofs of the main safety properties for
every value of the constants.

Paths below are relative to `src/unitree_dex3/src/unitree_g1_dex3_stack-main/`
unless they begin with `src/`.

    tlc -workers 2 -config Reach.cfg ReachSystem.tla         # a run
    tlapm ReachSystemProofs.tla                              # the proofs of a module

`PROJECT.json` lists the components, runs, mutants (a plausible bug for each
property, which the property catches), the source lines of every definition,
findings, hazards and theorems.

## 1. Inventory

### The system

    operator (key)            camera                        robot
        |                       |                             |  /lf/lowstate
        v                       v                             v
    trigger or press node  <- detector            joint_state_publisher
        |   ^                                                 |
        |   | /joint_trajectory_targets      /joint_states    |
        v   |                                      v          |
    /goal_pose ------------> planner <-------------+          |
                               |                              |
                               | /joint_trajectory_targets    |
                               v                              v
    /executor/return_to_standing -> executor --- /arm_sdk --> body controller
    Dex-3 script (subprocess) --- DDS --> hand

There is no answer channel. A client learns that its goal was planned by
overhearing the trajectory, which carries no identifier of the goal, and it
learns that the motion is over from its own clock. The executor says nothing.

| Component | State it keeps | Operations | What is hard | What makes it correct |
|---|---|---|---|---|
| Trajectory executor, `src/joint_trajectory_executor.cpp` | `busy_`, `initial_standing_pose_`, `latest_joint_positions_`, `ramp_to_standing_executed_`, the SIGINT flag, queues of three subscriptions | three callbacks (trajectory, low state, return), `executeRampToStanding`, the poll loop, shutdown | one thread blocks for seconds in a callback; SIGINT at any point; flags never cleared; order of dispatch | the authority weight is released in small steps, never in the middle of anything, and is released at exit; the hold begins where the motion ended |
| Button press node, `scripts/apriltag_button_press_node.py` | `_busy`, `_shutdown`, `_return_sent`, two events, the last target and the last duration | key tick, target and trajectory callbacks, sequence thread, `request_shutdown` in a signal handler | a daemon thread against the main thread and its signal handlers; a shut-down context; timeouts and late answers; failure of any step | one sequence at a time, its commands in order, the arm brought back |
| V4L2 AprilTag trigger, `scripts/v4l2_apriltag_trigger.py` | `_trigger_busy`, `_waiting_for_completion`, `_completion_timer` | trigger by key or topic, capture thread, trajectory callback, timer | a flag read at the start of a thread and set seconds later; completion guessed by a timer | no goal is sent while one is under way; the flag opens again |
| Goal bridge, `scripts/apriltag_goal_bridge.py` | the same flag and timer, a window of five positions | trigger, target and trajectory callbacks | positions that queues and executors delay | only a fresh target becomes a goal |
| Planner, `src/ik_fcl_ompl_planner.cpp` | last joint state, URDF limits, collision objects | goal callback (candidates, IK with several seeds, OMPL, trajectory timing, checks), joint-state callback | the thread is blocked while it plans, so that joint states age; budget; approximate solutions | a plan starts where the arm is, respects limits and lies near the goal |
| Detectors, `scripts/apriltag_detector_node.py`, `button_detector_node.py` (two copies) | last image, last depth, an event | image callbacks, an inference thread | a frame and an event shared by two threads | the newest frame is looked at |
| Dex-3 controller, `src/dex3_controller.cpp` | last hand state, grasp phase | command and state callbacks | a closed loop between two callbacks | the grip follows the last command |
| Dex-3 set-point script, `src/unitree_dex3_cpp/example/control_dex3_right_setpoint.py` | a file with the last pose | ramp, hold, save | killed while it saves | the next ramp starts where the hand is |
| Grasp demonstrations, `control_dex3_right_grasp.py` and `..._norelease.py` of the same directory | none that lasts; the pose held | close in steps until contact, hold, release | contact counted from a buffer that is never emptied; a recurrent thread with a command of its own; Ctrl-C anywhere | the hand is never closed further than where it met contact |
| Hand driver, `src/unitree_dex3_cpp/src/unitree_controller.cpp` | command and state buffers | DDS callbacks, recurrent command thread, Python bindings | two writers of one command | the hand ends where it was sent |
| Right-arm mode tool, `src/unitree_dex3/right_arm_mode.py` | mode, latched poses, control thread | `set_mode`, `shutdown`, Ctrl-C | two threads and a console around one pose; the order of gains and targets | no jump when the arm is locked; authority given back |
| Arm controllers, `src/xr_teleoperate/teleop/robot_control/robot_arm.py` | a target, a message under construction, the weight | publish thread, `ctrl_dual_arm`, going home | main and publish thread write one message | the last message gives authority back |
| Hand controllers, `robot_hand_*.py` of the same directory | shared input and output arrays | control loop in a process or thread of its own | a test for the first data that looks at one hand; pairs read in two halves | state and action of one cycle; no target from absent data |
| Teleoperation program, `src/xr_teleoperate/teleop/teleop_hand_and_arm.py` | four flags, the recorder | key or IPC listener, main loop, the `finally` block | flags set by a listener, exceptions, Ctrl-C during the end | arms home, recorder closed |
| Episode writer, `src/xr_teleoperate/teleop/utils/episode_writer.py` | a queue, two flags, a file | `create_episode`, `add_item`, `save_episode`, `close`, worker thread | request and completion of a save in two threads; crash; full disk | a closed episode is whole |
| IPC, `src/xr_teleoperate/teleop/utils/ipc.py` | sockets, the client's view of the server | request and reply, heartbeat | late and lost replies, restart | an `ok` means applied, once |
| Camera server and client, `src/xr_teleoperate/teleop/teleimager/src/teleimager/` | rings, queues, a stop event, a thread per camera and output | read, publish, subscribe, decode | rings read outside their lock; cameras that vanish or hang | one stable newest image; all cameras taken on are served or none; the server ends |
| Publishers, launch files, calibration and measurement programs | none that lasts | conversion, offline fits | none | not modelled |

The hazards of this code are listed at their lines in `PROJECT.json`, each
with the properties that watch it or with the reason why none does yet.

### The modules

| Module | Models |
|---|---|
| `ArmControl` | abstract: the authority weight on the `arm_sdk` channel |
| `TrajectoryExecutor` | the executor's thread in detail; implements `ArmControl` |
| `MCTrajectoryExecutor` | its message sets for TLC |
| `TrajectoryExecutorProofs` | theorems about it |
| `ButtonPress` | the press node: two threads, signal handlers, one step per shared access |
| `ButtonPressProofs` | theorems about it |
| `MotionPipeline` | planner and executor over a clock; no client of its own |
| `ReachSystem` | the V4L2 trigger's guard, flag and timer as client of the pipeline |
| `ReachSystemProofs` | theorems about it |
| `PressSystem` | the press node's timing as client of the pipeline |
| `PressSystemProofs` | theorems about it |
| `GoalPlanner` | the planner's goal callback: candidates, seeds, budget, collision objects, time stamps |
| `MCGoalPlanner` | an arm, its postures and joints for TLC |
| `GoalPlannerProofs` | theorems about it |
| `TagTrigger` | the V4L2 trigger's threads and camera |
| `GoalBridge` | tag detector and goal bridge over a clock |
| `ButtonDetector` | both button detectors, both back ends |
| `Vision` | the three ways to a target position |
| `VisionProofs` | theorems about it |
| `EpisodeWriter` | the recorder and its worker |
| `TeleopLoop` | the teleoperation program with that recorder |
| `TeleopIpc` | commands and heartbeats |
| `ImageStream` | an image from camera to reader |
| `ImageServer` | the camera server's threads |
| `TeleopHands` | the five hand controllers |
| `Teleop` | the parts of the teleoperation |
| `TeleopProofs` | theorems about it |
| `RobotArm` | the four arm controllers, and time |
| `RightArmMode` | the programs that hold one: mode tool and teleoperation |
| `HandSetPoint` | runs of the set-point script over the driver's command buffer |
| `GraspDemo` | the two grasp demonstrations over the same buffer |
| `Arms` | the programs that command arms and hand directly |
| `ArmsProofs` | theorems about it |

The executor and the press node are modelled alone and in detail, because their
hazards are within a process. `ReachSystem` and `PressSystem` compose three
processes each, and abstract within them what the detailed modules settle: the
executor is idle, plays, holds or ramps, the sequence runs or does not, and time
is what matters.

`Vision`, `Teleop` and `Arms` gather parts that share no state, of which one is
examined in a behaviour (`front`, `part`): their state spaces add instead of
multiplying, and a property of any part is a property of the whole. Of the three
fronts one is started at a time: `apriltag_button_press.launch.py` and
`apriltag_reach.launch.py` start the trigger, `elevator_button_press.launch.py` a
button detector, and the bridge is started by hand.

## 2. The executor

**State and actions.** `pc` is where the only thread is: in the poll
(`rclcpp::sleep` and `spin_some`), in the dispatch of what the poll has
collected, in a phase of a callback (`first`, `segment`, `hold`, `ramp`), in the
final ramp, or on its way out. Each publication followed by a sleep is one step,
so that SIGINT, which only sets `shutdown`, and new messages fall between any
two. The 250 equal publications of the hold loop are one step. A pose is an
integer, a command is a weight and a pose, the ramp takes `RampSteps` steps
where the code has 750. `KeepLast` is the subscription's queue.

**Facts read from the code that shape it.** One thread runs everything, so that
`busy_` can only protect against itself. Subscriptions run in the order of their
creation. `spin_some(50 ms)` stops after a callback that took longer, and what it
had collected waits for the next poll. `main()` shuts the context down (607)
before the node is destroyed, so that the destructor's publication of weight 0 is
dropped; the model takes a step there that publishes nothing.

**Runs.**

| Run | Question | Instance |
|---|---|---|
| `executor` | with `auto_return_to_standing=false`: no callback meets a leaked `busy_`; no jump from trajectory to hold; the exits that keep authority are the known ones; the arm is held until it is asked back; `ArmControl` is implemented, liveness included; SIGINT ends the process from everywhere; a return request is served when trajectories stop | queue depth 1, all odd messages (no points, one point, a joint missing, a waypoint beyond its limit), 49 thousand states |
| `executor_final_assertion` | finding 1 | |

The type invariant is proved, not run. With `auto_return_to_standing=true` and
deeper queues the invariants are proved too: the theorems leave both open.

*Bounds.* Two ramp steps and two publications per segment have a beginning, a
middle and an end of each; at depth 1 a newer message pushes out the one that
waits, also one that was collected; waypoints two units apart make the odd poses
those of interpolation. The theorems lift all of these bounds.

*Fairness.* The thread keeps running (`WF`). Beyond that only: the low-state
callback, which takes microseconds, is not delayed for 50 ms every single time
(`SF` on its leaving the round open), because otherwise the callback behind it
could be dropped from every round. Nothing is assumed of publishers or signals.
`ReturnIsServed` says that trajectories stop arriving, since a steady stream
of them does starve a return.

**Proved** (`TrajectoryExecutorProofs`, for all `RampSteps`, `SubSteps`, `Depth`,
messages, limits and both settings): `TypeCorrect`, `CallbacksNeverOverlap`,
`HandoverContinuous`, `ExitReleases`, `HoldUntilAsked`, and `ImplementsAuthority`,
the safety part of the refinement; `CollectedStaysPending` says that a subscription
which `spin_some` has collected still has its message when its turn comes, which
the types of the queues rest on. The invariants of the runs are not inductive:
`IInv` adds that `busy_` is set exactly inside a callback or the final ramp
(`BusyInv`), that both caches are filled together and a ramp has both its ends
(`CacheInv`, `RampInv`), that outside a ramp the weight is at one of its two ends
and inside it is told by the step (`RampInv`, what makes every command a step of
`ArmControl`), that the last command of an undisturbed trajectory is its last
waypoint, clamped (`PlayInv`), and what is known of the weight when no callback
runs (`ReleaseInv`).

## 3. The press node

**State and actions.** The main thread is a stack of frames: `main()` itself,
then one frame per nested signal handler, since Python runs a handler between
any two bytecodes and a handler can itself be interrupted. `request_shutdown` is
five steps (set the flag, test `_busy`, test `_return_sent`, publish, mark),
because the sequence thread and another handler may come between them. The
sequence thread walks through `Program`; waits and sleeps end at any time.
Publishing on a context that was shut down raises, which ends the thread without
its `finally` finishing. `_shutdown_tick` does what the handler's own
`try_shutdown` has done before and is left out. The planner is seen through its
topics: it may answer late, not at all, or with an empty trajectory. Goals
are numbers, and a plan carries, in the model only, the number of its goal.

**Runs.**

| Run | Question | Instance |
|---|---|---|
| `press_sequence` | one sequence; its commands a beginning of the program, then the return, once or at most as often as there are signals; how far a motion's duration may come from an earlier goal; the arm left out only if a signal found a sequence; the key works again after every failure; a signal ends the process | 2 presses, 2 signals, 0.6 million states |

*Bounds.* Two signals are the least that nest; two presses the least at which
one sequence could meet another, and at which a late trajectory crosses from one
sequence to the next. *Fairness.* Each of the two threads keeps running; nothing is
assumed of the operator, the camera, the planner or signals.

**Proved** (`ButtonPressProofs`, for all numbers of presses and signals):
`TypeCorrect`, `OneSequenceOnly`, `CommandsInOrder`, `PlansLagByMisses`,
`IdleShutdownReturns`. The inductive invariant says that only the bottom frame spins
or destroys (`StackInv`), that `_busy` covers a sequence from before its launch to
its end (`BusyInv`), that `_return_sent` is never true of an arm that is out
(`ReturnInv`), that whoever passed `request_shutdown` without meeting a sequence
leaves none behind (`CaughtInv`), and that goals and trajectories travel in the
order of their numbers, ahead of the plan read last (`OrderInv`, `CountInv`,
`LagInv`). For `CommandsInOrder` the log is at every moment the first `n` commands
of the program and then `r` returns (`LogInv`): the place of the sequence thread
tells `n` (`PlaceInv`), and `_return_sent`, which the sequence, the handlers and
`main()` read, bounds `r`: the sequence returns at most once, each handler that
found it unset lies under the handlers that interrupted it, so that there are no
more returns than frames, and two returns or more need as many signals
(`RequestInv`, `ReturnsInv`). The liveness properties are model-checked
only.

## 4. The two systems over a clock

**The pipeline.** The clock ticks every 50 ms: the executor's poll period and the
grain of the clients' waits. What is due happens before the next tick, in any
order. The planner takes one goal at a time for one of `PlanTimes`, and starts it
from `seen`, the joint state it read last, or from where the arm is: while it
plans it reads none, and a goal that waited is dispatched before the joint states
that waited with it. The executor plays for the trajectory's duration, holds for
a second, ramps for three if `AutoReturn` or if a return request is pending and no
trajectory is. Every phase may last up to `Late` longer. A trajectory reaches
the client and the executor in the same step. A pose is the number of the goal
reached, `Standing`, or `Moving`.

**The reach system.** `apriltag_reach.launch.py` starts the V4L2 trigger. A
press starts its thread, which reads the flag, captures for one of
`CaptureTimes`, publishes, and sets the flag; the trajectory callback replaces the
timer, which clears the flag a second after the trajectory's nominal end.

**The press system.** `apriltag_button_press.launch.py` starts the press node with
`auto_return_to_standing=false`. Its sequence clears the event, publishes, waits up
to 5 s, sleeps for the duration plus 0.8 s; a hand step lasts one of `HandTimes`
or fails; the return is followed by a sleep of 3.5 s.

**Values.** In ticks: hold 20, ramp 60, margin 20, wait 100, buffer 16, ramp wait
70, as in the code and its configuration; durations of plans 1 or 90 (4.5 s is the
planner's worst case in the press configuration, section 5, within the wait of 5 s)
and of trajectories 1 or 40: a short one and a long one. `Late` is 2, 100 ms per
phase, which covers a poll and the overshoot of the sleeps; 150 ms hold too in TLC,
and at 200 ms, which is how much the hold exceeds the buffer, "press complete" may
be said of an arm that is still on its way. A capture that succeeds takes at least
12 (five samples of TF, 0.15 s apart, must agree). A hand step takes at least 20:
the script ramps and holds. `Gap` is 7: the least time from the end of one sequence
to the next goal, for the operator's key and the detection. `MaxGoals` of 4 lets a
trigger meet the end of one motion, the middle of the next and a goal that waits; of
7, two sequences and the beginning of a third.

| Run | Question |
|---|---|
| `reach` | without automatic return: no second goal in the planner's queue, the flag lets a goal through only when planner and executor are through with the one before, trajectories start where they were planned from, and the flag is cleared after every trajectory |
| `reach_guard` | finding 2, with automatic return |
| `press_timing` | each goal and each return finds the arm at rest, also after failed plans and hand steps; trajectories start where they were planned from; "press complete" is said of a standing arm |

*Fairness.* `WF` of the trigger's thread and of callbacks, pipeline and time
together; nothing of the operator or the camera. `GuardReopens` is said of
trajectories: a goal that the planner answers with none leaves the flag set until
some later trajectory is heard. `reach` is without automatic return, which the
launch file has as its default; `reach_guard` is about that default. `press_timing`
rests on the `Gap` between two sequences, which the operator keeps and no node
enforces: a press right after a failed one is outside it.

**Proved** (`ReachSystemProofs`). `TypeCorrect` and `OneGoalAtATime` hold for all
durations, with automatic return or without, plans found or not: at most one goal
is under way, on the wire, planned, on its way back, or counted down by the timer
(`TokenInv`), although the flag is read seconds before it is set. `FlagMeansDone`
and `PlansAreCurrent` hold if the durations are in the relation `Timing`: no
automatic return, lateness below the margin, and

    HoldTime + 2 Late <= Margin + (any capture) + (any planning)

The proof compares the timer with what the executor has left to do. While a
trajectory plays, the timer outlasts it by the margin less the lateness
(`RestInv`); what is left of the hold then fits in what the timer, the capture and
the planning have left (`HoldInv`); and what the planner has seen is where the arm
is whenever a goal can reach it (`ArmInv`), because the timer has run for at
least one tick since the arm arrived. No node checks `Timing`; the instance of
`reach` satisfies it, and a lemma (`TimingOfTheCode`) says that the code's numbers
do, with up to 300 ms of lateness per phase.

**Proved** (`PressSystemProofs`). `TypeCorrect` for all durations; `GoalsAtRest`,
`PlansAreCurrent` and `CompleteIsTrue` if the durations fit. The sequence is told of
no arrival: the buffer after a motion, the pause of a hand step and the wait
after the return stand for it. The hold is longer than the buffer, so that a plan
found quickly starts while the executor still holds, and the motion ends that much
later than the sequence assumes; the delay of one motion is handed on to the next.
`Timing` says that there are bounds `lag` on the delays of the three motions that
close this circle:

    lag(m) + Late < Buffer                                        for every motion m
    lag(approach) + Hold + 2 Late <= Buffer + (any hand step) + (any planning) + lag(press)
    lag(press) + Hold + 2 Late <= Buffer + (any planning) + lag(retreat)
    lag(m) + Hold + 2 Late <= Buffer + Gap + (any planning) + lag(approach)
                                                     for the approach and the retreat
    lag(m) <= Gap + lag(approach)                                 for every motion m
    Ramp + Late < (wait for the ramp)
    lag(retreat) + Hold + Ramp + 3 Late < Buffer + (any hand step) + (wait for the ramp)

The invariant (`StageInv`) has one clause for each place of the sequence thread,
which compares what the thread has still to wait with what the planner and the
executor have still to do. No node checks `Timing`; a lemma (`TimingOfTheCode`)
gives the lags for the code's numbers, with up to 100 ms of lateness per phase and
350 ms or more between two sequences, as in `press_timing`: approach and retreat
begin up to 350 ms late, the press in time. With `HandTimes = {0}`, as in a dry
run, `Timing` cannot hold, and all three properties of `press_timing` do fail in
TLC: after three goals in a row the arm may still be ramping when the sleep for
the ramp has ended, by a few tenths of a second.

## 5. The planner's goal callback

**State and actions** (`GoalPlanner`). `pc` is where the callback is: between two
candidates, at a seed of inverse kinematics, at OMPL, or timing the waypoints.
Candidates are the goal and its retractions towards the shoulder, with the list cut
short where an adaptive orientation does not exist. Kinematics, geometry and OMPL
are seen through their verdicts: a posture is the set of pairs of links that touch
in it, and OMPL may return an approximate solution, which the code takes for an
exact one. Collision detection is on or off. When it is off, as in the
configurations that are shipped, no collision objects are built and nothing is
checked; when it is on, all pairs of links of the arm and of the arm and the base
are, but for neighbours in the chain and the configured pairs, and a link whose mesh
does not load is missing from the collision objects. Before the budget starts to
count, the callback waits for up to 0.5 s for the transform of the goal, and, if a
collision object is not of the arm, for up to 0.2 s for that of its link (`waited`).
Time stamps are computed as the code does, in units of a nanosecond's stand-in
`Grain`, with the rounding, the clamping to joint limits, and the stretching and the
rejection that repair them.

`planner` (`Planner.cfg`) has an arm of three links on a torso with one configured
pair, three candidates, three seeds, waits of one unit each, a budget that runs out
between candidates, and paths of three waypoints over two joints of different speed:
the least with a segment before and one after a stretched one. It has 2.5 million
states. `BlockedAtMost` is what the press node's wait relies on: with the numbers of
its configuration (budget 2 s, five seeds of 0.1 s, planning 1 s, simplification 0.5
s) the callback lasts at most 4.5 s without collision detection and 4.7 s with it,
and the node waits for 5; with adaptive orientation, as a reach may be launched, all
eleven candidates may take 22 s and the waits. `TimesNeedNoRepair` says that
stretching and rejection are never needed, `EndsClear` that a published motion ends
free of collisions as far as they are looked for: it says nothing of a link that did
not load, nor how far from the goal an approximate solution ends. `planner_body` is
finding 3.

**Proved** (`GoalPlannerProofs`, for all arms, postures, speeds and budgets):
`TypeCorrect`, `BlockingBounded`, `StampsFit`, `EndIsClear`. `StampsFit` rests on
two facts about one segment: two rounded times are apart by the segment's time
less one grain at most, and clamping to an interval brings two angles no further
apart.

## 6. The ways to a target

**Trigger** (`TagTrigger`). A trigger starts a thread that reads the flags, waits
until the last transforms of the camera agree, takes frames and publishes; beside
it runs the capture thread, or the trigger's thread opens the camera itself. The
camera may be unplugged at any point and come back under another path, an open
handle does not survive that; transforms fail, frames age, every look at a frame
may raise.

**Bridge** (`GoalBridge`). Position and image are one number, the time of the
image. Two queues and two executors delay it; the window holds the last positions,
the guard looks at the age of the newest.

**Button detector** (`ButtonDetector`). The copy with a thread stores a frame
under a lock and then sets an event; the thread clears the event and then reads
the frame. The other copy looks in the callback. The backend `v4l2` has no depth,
and so never publishes a pose.

`vision` checks that the camera stood still (`StoodStill`: the window's transforms
are compared with its first, and any two of them must be within twice the
tolerance of each other; the job carries the distances of all pairs), that a
capture uses each frame once and none that is stale (`EachFrameOnce`), that a goal
of the bridge is fresh (`GoalIsFresh`), that every trigger ends (`TriggerEnds`)
and that no wake-up of the detector is lost (`LatestFrameIsSeen`); 102 thousand
states. *Bounds.* Places 0, 1 and 3 with a tolerance of 1 are within it, at it and
beyond it; three stable samples and four intervals let a wait fail, slide its
window and succeed; two warm-up frames, two samples and three frames are the least
at which a frame could be taken twice or too early; a clock of 6 covers two
windows of the bridge. *Fairness.* Trigger thread, inference thread and time go
on; callbacks, cameras and TF need not.

**Proved** (`VisionProofs`, for all windows, queues and samples): `GoalsAreFresh`,
from an invariant that orders cache, waiting positions and waiting images, all no
newer than the clock; `FramesUsedOnce`, from one that keeps what was taken in
order and no newer than the camera; `CameraStoodStill`, for all places and
tolerances, from the triangle inequality at the one test that lets a capture begin.

## 7. The teleoperation

`Teleop` gathers five parts, which are examined one at a time: what one hands to
another (a flag, an image, the data of a hand) is an input of the other's module.

**Program and recorder** (`TeleopLoop`, `EpisodeWriter`). The main thread goes
through setting up, waiting for the start, the three steps of its loop and those of
its `finally` block; keys arrive from the listener between any two; exceptions and
Ctrl-C lead to the end, a second Ctrl-C skips it, a kill loses threads and queue
but no file, and the program may be started again. The worker takes an item, writes
it, looks whether a save is due, closes the file, resets one flag and then the
other, each a step of its own. The disk may be full. `EpisodeIntact`: an episode
that was closed holds every item recorded for it, once and in order.
`ExitCompletes`: told to stop, the program ends with the arms sent home and the
recorder closed.

**Commands** (`TeleopIpc`). Client and server with one message on each of three
wires, any of which may be lost; the reply to an earlier request may be late, the
server stopped, killed and started again. `OkMeansApplied`.

**Images** (`ImageStream`). From the publisher's queue over a wire of one message
to the subscriber, the two rings of three slots and the decoder; the publisher's
thread begins with the first image and may die of an error, the client asks for its
configuration, subscribes, reads and is closed. `ReadIsStable`: a
slot is chosen under the ring's lock and read outside it, and nevertheless not
overwritten.

**Camera server** (`ImageServer`). A thread per camera and per output, four kinds of
cameras that may be missing, fall silent, raise, or never return from a read. An
entry of the configuration of an unknown type, or of a UVC camera with neither path
nor serial number, is passed over; Ctrl-C ends a server whose handlers are not yet
installed. In a simulator `run_isaacsim_server()` returns after the start, and
neither waits nor kills. `AllOrNothing`: while it serves, every camera that it took
on and every output of it has its thread. `ServerEnds`: told to stop, or stopping
itself, the server is gone. On the robot that is its process, and the step that
makes sure of it is the kill of the process group; in a simulator it is all of its
threads.

**Hands** (`TeleopHands`). Five controllers, the main loop's two arrays and the lock
around the pair it records. `SameCycle`: state and action are of one cycle.
`OneBlindCycle`: though the test for the first data looks at the right hand for
both, at most one cycle computes a target from absent data, because the main loop
writes the left hand first. The samples of a hand are taken not to be all zero,
which is what the code takes for the absence of data.

`teleop` checks these eight properties, 0.5 million states. *Bounds* are two of
each (episodes, items, sessions, requests, images, cameras), three samples and
four cycles: the least at which one episode follows another, a late reply meets
the next request, a third write meets a read in a ring of three slots that two
threads write at different times, and one camera of two fails. *Fairness.* The
main thread and the recorder's worker run, the server's threads look at the stop
event, unless a read hangs; operators, transports and cameras are free.
`teleop_file` is finding 4.

**Proved** (`TeleopProofs`): the six safety properties for all bounds. Each part has
its own invariant; a lemma per part (`StepOfPart`) says that a step of the whole is
one of that part or leaves its variables alone. The recorder's invariant accounts
for every item in the file, with the worker or in the queue (`ItemsInv`), orders the
flags of both threads (`OrderInv`, `SavedInv`), and says of a closed episode that
nothing is added to it (`ClosedInv`).

## 8. Arms and hand

**Arm controllers** (`RobotArm`). Four controllers share one way of working: a
publish thread fills the target into one message object and writes it, and others
change the target, the gains and the weight in the same object. What differs is
where the constructor holds the arms and whether the weight ramps up. Time is in
ticks; a thread sleeps for some of them between its steps, and a tick passes when
all sleep, or with a thread late, in all at most `MaxLate` times. An arm follows its
command or lags; a right arm with soft gains goes where it is led; an arm that
nobody commands stays, which is what the body controller is assumed to do.

**Programs** (`RightArmMode`). The mode tool with its console, control thread and
shutdown; the teleoperation seen as a holder of the controller: it waits, solves,
goes home. One Ctrl-C at any point shuts the tool down, a second one cuts that
short.

**Hand** (`HandSetPoint`). Runs of the set-point script one after another: it reads
the last-pose file, ramps, or with `--ramp 0` sends the goal at once, holds, goes
back to the base if told to, saves (opening the file empties it, and whatever fails
in the save is passed over), and may be killed at any step. In the driver the
script's thread and a recurrent thread both write the command.

**Grasp** (`GraspDemo`). The two demonstrations close the hand in steps over the
same buffer, read the tactile level between two steps, latch the pose at the
first `ContactConsec` readings of contact in a row, hold it, and open again, after a
while or at Ctrl-C; the recurrent thread writes what it took of the buffer before or
after each of these.

`arms` checks four properties in 3.2 million states.

- `HandedBack`: a program that ends by its ramp-down leaves the weight at zero,
  although the publish thread may still be ramping up when the shutdown begins.
  What could break this is not lateness as such: both ramps have 500 steps of 4 ms,
  and both may drift by any amount. It is that the publish thread falls behind
  the main thread, and `behind` counts the ticks for which it did: since the hold
  began, or, in going home, since the last weight was set. The property answers for
  a `behind` below `Margin`: the half second for which the tool holds the pose first,
  or the 20 ms after each weight of going home. When going home begins before the
  ramp-up is over (`late_ramp`) the property does not answer for it.
- `LockKeepsPose`: the tool never gives an arm a target further away than the arm
  moves in two ticks and those for which a thread was late so far: when it is taken
  over, led, locked after being led, and when the tool ends, until the weight is
  ramped down; nor is an arm sent further while the teleoperation waits for its
  start. Pose, gains, mode and target are read and written by two threads at six
  different points.
- `RunsJoin`: the first command of a run that ramps is within a ramp step of the
  last command of the run before. If that one was killed while it commanded the hand,
  or could not save (`unsaved`), the hand jumps, but no further than to within a ramp
  step of the base pose or of the pose (`kept`) that the hand had when a run last
  saved. A run with `--ramp 0` jumps to its goal, and is not answered for; the run
  after it is.
- `GripIsHeld`: from contact on the hand is never commanded further closed than where
  contact was latched, and a script that releases leaves it open.

*Bounds.* Five poses allow an arm to be led further than the bound of
`LockKeepsPose`; eight steps of the weight, four for the ramp after going home; two
ticks of lateness, and a `Margin` of two ticks, which the publish thread may thus
fall behind by; twelve ticks of waiting exceed the ramp. The operator takes two
ticks or more for a command. Two readings make a contact, of the default four: the
least that can be interrupted by one without. There is no liveness here and no
fairness.

**Proved** (`ArmsProofs`).

`RunsMeet`, for all poses and runs. Its invariant says what holds
before the first command (`Unstarted`: if the last run has saved, the next one
starts from where the hand was left), that the file holds `kept` or no pose
(`OnlyKept`), that the recurrent thread holds a command of the ramp under way
(`Ramps`), that only a whole pass of that thread at the goal ends the hold
(`Settled`), and the property for the first command (`FirstCommand`).

`GripHolds`, for all poses and numbers of readings: before contact, what is commanded,
what waits in the buffer and what the recurrent thread has taken are all no further
closed than the script; from then on no further than the contact (`GripInv`).

`GivesBack`, for all steps, margins and poses, and any lateness. The steps that the
ramp-up has taken, together with those the publish thread fell behind by, are at least
those of the hold and of the ramp-down, so that the ramp-up is over first (`RampInv`);
after the last step of going home the publish thread has time for one more write, or
has done it, or has fallen behind by the wait of 20 ms (`FadeInv`).

`KeepsPose`, for every lateness, number of steps and of poses. A tick moves the arm by
one, and every difference between two of the poses that the threads have read, latched,
locked, made the target, put into the message or sent grows with the ticks since
its reading. `ToolInv` says who runs when (latching and setting the gains take no
time, the control thread rests where its sleep says), `ReadInv` how old what each
thread has read may be, `LockInv` the same of what is locked, with the two cases
in which either the arm or the target has not moved yet, `StiffInv` that a stiff
arm is where its last command sends it. The left arm never moves (`LeftStays`); an
arm that waits for START goes home by a tick at most (`AwaitKeeps`).

## 9. Findings and observations

1. `executor_final_assertion`: after a return request that was carried out and
   another trajectory, SIGINT finds `ramp_to_standing_executed_` still set, and the
   process, which knows the standing pose, ends at full authority without a ramp,
   where the destructor's comment calls its own publication a redundant assertion.
2. `reach_guard`: with automatic return the reach trigger's flag clears while the
   executor holds and ramps, where the decision that introduced the flag has it
   cleared after the goal was carried out.
3. `planner_body`: comments say that the arm is checked against legs, head and
   left arm; only the chain's links and the base are collision objects.
4. `teleop_file`: a recorder closed while its worker finishes a save asks for that
   save once more, and the file gets a second closing line, which makes it invalid
   JSON.

Each is quoted with its lines in `PROJECT.json`. Met while modelling, and not runs:

- Executor: a trajectory cut short by SIGINT is held and ramped from its last
  waypoint; an idle executor takes full authority on SIGINT for its shutdown ramp.
- Press node: `target_pose_stale_s` is never used.
- Trigger and bridge: the flag stays set after a goal without a plan; the baseline
  compensation changes the published target pose and not the goal.
- Button detectors: the callback of the elevator's trigger only logs; its
  warning about a depth beyond 3 m names `dx, dy`, which may not be set.
- Hands: the FTP controller's process dies at its first command (`NameError`); the
  Dex-3 left target uses `right_dex_retargeting_to_hardware`.
- Images: after a loss of the stream the decoded ring keeps its last image; the
  subscriber's thread ends when the decoder empties the queue between its test and
  its `get_nowait`; a publisher thread that fails is not started again; cameras of
  the simulation are ready at once, and a publisher that finds its buffer empty
  stops the server; a server that times out waiting for its cameras cleans up twice;
  an entry of the configuration that names no known camera is passed over, with a
  line in the log or none, where a camera that is not plugged in stops the server.
- Recorder and commands: with two eyes an image of `None` raises a `TypeError`, with
  one eye the colour image is lost; a `REQ` socket stays stuck after a time-out;
  a save asked for while one is under way, or before the start, is answered with
  `ok` and dropped; "3 consecutive" heartbeats are not reset by a gap.
- Main program: the "soft emergency stop" of both sticks does not call `Damp()`; a
  second Ctrl-C leaves the recorder's worker, which is no daemon, running; the arms'
  construction waits for DDS without end.
- Arms: the docstring of going home says that torques are zero, and they are not; a
  return home that times out keeps authority; each command of the mode tool latches
  the left arm anew, so that it may creep.
- Dex-3: the last-pose file is written only at the end, in place, and a save that
  fails is reported and forgotten; the grasp scripts never write it, count readings
  and not frames of contact, and never learn of a stalled tactile stream, because
  the binding does not empty its buffer after the first frame (their "tactile stream
  lost" cannot be reached); the one that waits for Ctrl-C does not release when it
  comes before the hold. In `dex3_controller.cpp` a second "open" does not
  recalibrate though line 199 says so; before the first one tactile averages are 0,
  so that closing does not stop at a contact; `max_delta` of 5 rad limits nothing;
  the start-up sweep blocks the executor for 4 s and leaves the hand half closed; an
  open that is taken in the constructor publishes an empty command, and the
  destructor's release is dropped. In the driver `need_calib_` is cleared by the
  first message with any valid taxel.

## 10. What is proved, checked, left out

*Proved for all constants:* 37 theorems in 8 modules, those named above, from the
named assumptions on the constants (types and signs only) and, for five of them, a
relation of durations that each of these names: `Timing` of the reach system or
`Timing` of the press system. Every invariant and every step property of a passing
run is the statement of one of them. An invariant of a run is seldom inductive; each
section says by what it is strengthened. `Inductive` in two of the modules states
the strengthened one.

*Only model-checked:* liveness under fairness, the liveness part of the refinement
of `ArmControl`, both outside what the prover does. That the code's numbers are in
the relations of durations is a lemma of each of the two systems.

*Hazards without a property.* Some are what the code does, so that a property
would only be false: a trajectory cut short by SIGINT is held from its last waypoint
(executor 522); what a trajectory before the first low state leads to (260;
`ReleasedAtExit` lists it as an exit without release); a goal without a plan leaves
the flag set (bridge 282); old positions within the bridge's window (240); an
approximate solution that ends short of the goal (planner 950); a link whose mesh did
not load (437). Of others the code promises nothing: how old the joint positions are
that the shutdown ramp starts from (executor 213), and the cached target (press node
300).

*Abstracted:* kinematics, collision geometry, OMPL, image processing, torques and
gains, wording of messages, the rest of the body's joints, velocity limits of the
teleoperation's arms. *Assumed:* messages are delivered in order and not lost
between ROS nodes on one machine, beyond the queue depth; the parameter for the
capture topic is set; the executor's constructor has the joint limits; the body
controller keeps an arm still that is not commanded.

*Not modelled:*

- the Dex-3 hand controller: no launch file starts it, and what could go wrong is
  in its numbers, one thread stepping a finger while a pressure is low;
- publishers of joint states and gravity torques: stateless conversions;
- calibration, kinematics and filters of the teleoperation, measurement programs:
  numeric, offline or without state;
- launch files, configuration, containers, camera tools: they set the parameters;
- of modelled components: WebRTC, encoding and device discovery of the camera
  server; simulator mode and the motion switcher of the arm controllers; the
  driver's state buffers and tactile baseline; the executor's constructor.

## 11. Plan

Done: the executor, the press node, both systems over a clock, the planner's
callback, the ways to a target, the teleoperation, the programs that hold arms and
hand. Left, in this order:

1. The refinement of `ArmControl` by the mode tool.
2. The executor's constructor (parameter service, URDF, its time-outs), the driver's
   state buffers, and the Dex-3 controller if it is launched again.
3. The press as an atomic sequence, implemented by `ButtonPress`, and a latest-value
   register, implemented by `ImageStream` and `ButtonDetector`.
