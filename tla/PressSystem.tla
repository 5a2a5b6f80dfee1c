----------------------------- MODULE PressSystem -----------------------------
(***************************************************************************)
(* The press system as apriltag_button_press.launch.py starts it, over the  *)
(* pipeline's clock: the sequence thread of the button press node paces its *)
(* goals by the duration of each trajectory and a buffer, and its return to *)
(* standing by a fixed wait.  Nothing tells it when the executor is done.   *)
(*                                                                         *)
(* Capture, signals and the two threads' races are ButtonPress's; here a    *)
(* sequence is running or it is not.                                        *)
(***************************************************************************)
EXTENDS MotionPipeline

CONSTANTS
  WaitTimeout,    \* traj_wait_timeout_s
  Buffer,         \* traj_completion_buffer_s
  RampWait,       \* ramp_wait_s
  HandTimes,      \* durations of a Dex-3 step that succeeds
  Gap             \* least time from the end of a sequence to the next key press

ASSUME PressAssumption ==
  /\ WaitTimeout \in Nat /\ Buffer \in Nat /\ RampWait \in Nat
  /\ HandTimes \subseteq Nat /\ Gap \in Nat

VARIABLES
  seq, k,         \* where the sequence thread is, its step of Program
  wait,           \* time left of what it waits or sleeps for
  trajEvent,      \* _traj_event
  duration        \* _last_traj_duration_s

client == <<seq, k, wait, trajEvent, duration>>
vars == <<pipeline, client>>

Program == <<"pre", "extend", "press", "retreat", "close">>
IsHand(s) == s \in {"extend", "close"}

Init ==
  /\ PipelineInit
  /\ seq = "none" /\ k = 1 /\ wait = 0
  /\ trajEvent = FALSE /\ duration = 0
-----------------------------------------------------------------------------
\* A key press is taken and a target is found.
Begin ==
  /\ seq = "none" /\ wait = 0
  /\ sent + 3 <= MaxGoals
  /\ seq' = "goal" /\ k' = 1
  /\ UNCHANGED <<pipeline, wait, trajEvent, duration>>

EventKept == UNCHANGED trajEvent

ClearEvent == trajEvent' = FALSE

SendGoal ==
  /\ seq = "goal"
  /\ PublishGoal
  /\ ClearEvent
  /\ seq' = "plan" /\ wait' = WaitTimeout
  /\ UNCHANGED <<k, duration>>

TrajCb ==
  /\ heard # <<>>
  /\ heard' = Tail(heard)
  /\ trajEvent' = TRUE
  /\ duration' = Head(heard)
  /\ UNCHANGED <<sent, planner, executor, seq, k, wait>>

NoBuffer(d) == d

MotionSleep(d) == d + Buffer

PlanSeen ==
  /\ seq = "plan" /\ trajEvent
  /\ seq' = "move" /\ wait' = MotionSleep(duration)
  /\ UNCHANGED <<pipeline, k, trajEvent, duration>>

EndSequence == seq' = "none" /\ wait' = Gap

TimeIsUp == wait = 0

\* traj_wait_timeout_s is over: the sequence ends.
PlanMissed ==
  /\ seq = "plan" /\ TimeIsUp
  /\ EndSequence
  /\ UNCHANGED <<pipeline, k, trajEvent, duration>>

NextStep ==
  IF k = Len(Program) THEN seq' = "return" /\ UNCHANGED <<k, wait>>
  ELSE /\ k' = k + 1
       /\ IF IsHand(Program[k + 1]) THEN seq' = "hand" /\ wait' \in HandTimes
                                    ELSE seq' = "goal" /\ UNCHANGED wait

Moved ==
  /\ seq = "move" /\ wait = 0
  /\ NextStep
  /\ UNCHANGED <<pipeline, trajEvent, duration>>

\* The Dex-3 script has done its work.
HandDone ==
  /\ seq = "hand" /\ wait = 0
  /\ NextStep
  /\ UNCHANGED <<pipeline, trajEvent, duration>>

\* It is missing, fails or times out, at any time.
HandFails ==
  /\ seq = "hand"
  /\ EndSequence
  /\ UNCHANGED <<pipeline, k, trajEvent, duration>>

NoRampSleep == wait' = 0

RampSleep == wait' = RampWait

SendReturn ==
  /\ seq = "return"
  /\ PublishReturn
  /\ seq' = "ramp" /\ RampSleep
  /\ UNCHANGED <<k, trajEvent, duration>>

\* "press complete"
RampWaited ==
  /\ seq = "ramp" /\ wait = 0
  /\ EndSequence
  /\ UNCHANGED <<pipeline, k, trajEvent, duration>>
-----------------------------------------------------------------------------
Sleeping == seq # "none"

ClientDue == \/ heard # <<>> \/ seq \in {"goal", "return"}
             \/ (seq = "plan" /\ trajEvent)
             \/ (Sleeping /\ wait = 0)

Tick ==
  /\ ~ClientDue
  /\ PipelineTick
  /\ wait' = IF wait > 0 THEN wait - 1 ELSE 0
  /\ UNCHANGED <<seq, k, trajEvent, duration>>

Pipeline == PipelineStep /\ UNCHANGED client

Sequence ==
  \/ SendGoal \/ PlanSeen \/ PlanMissed \/ Moved \/ HandDone \/ HandFails
  \/ SendReturn \/ RampWaited

Next == Begin \/ TrajCb \/ Sequence \/ Pipeline \/ Tick

Spec == Init /\ [][Next]_vars
-----------------------------------------------------------------------------
\* Every variable keeps its type.
TypeOK ==
  /\ PipelineTypeOK
  /\ seq \in {"none", "goal", "plan", "move", "hand", "return", "ramp"}
  /\ k \in 1 .. Len(Program)
  /\ wait \in Nat
  /\ trajEvent \in BOOLEAN /\ duration \in MoveTimes \cup {0}

\* A goal is published, and a return requested, only when the arm has arrived
\* where the goal before sent it and the planner has nothing left to do: the
\* buffer and the wait for the ramp are long enough, also for the next press
\* and after a sequence that failed.
PressesAtRest == seq \in {"goal", "return"} => AtRest

\* Each trajectory starts where the arm is when it is played: the press moves
\* on from the point of contact it has reached.
StartIsCurrent == [][PlannedFromHere]_vars

\* "press complete" is said of an arm that stands.
CompleteMeansStanding ==
  [][seq = "ramp" /\ seq' = "none" => phase = "idle" /\ arm = Standing]_vars
=============================================================================
