----------------------------- MODULE TeleopHands -----------------------------
(***************************************************************************)
(* The hand controllers of the teleoperation (robot_hand_unitree.py,       *)
(* robot_hand_inspire.py, robot_hand_brainco.py): the main loop writes the *)
(* two hands' data of an XR sample, the controller's process or thread     *)
(* turns them into targets and reports the pair of state and action that   *)
(* the main loop records.  Data are numbered by the XR sample they are of; *)
(* a state and an action by the control cycle they were read or set in.    *)
(***************************************************************************)
EXTENDS Integers

CONSTANTS
  MaxSamples,     \* bound: XR samples
  MaxCycles       \* bound: control cycles

ASSUME HandsAssumption == MaxSamples \in Nat /\ MaxCycles \in Nat

VARIABLES
  kind,           \* the end effector
  arrived,        \* the hands whose state has come from DDS
  input,          \* the shared input arrays; 0 is what they start with
  control,        \* the control loop: [at, cycle, left, right, blind]
  out,            \* the shared output arrays: the cycles of [state, action]
  lock,           \* who holds dual_hand_data_lock: "none", "control", "main"
  teleop,         \* the main loop: [at, sample]
  recorded        \* what the main loop read: [state, action]

handsVars == <<kind, arrived, input, control, out, lock, teleop, recorded>>

Kinds == {"dex3", "dex1", "inspire_dfx", "inspire_ftp", "brainco"}
Hands == {"left", "right"}

HandsInit ==
  /\ kind \in Kinds /\ arrived = {}
  /\ input = [h \in Hands |-> 0]
  /\ control = [at |-> "wait", cycle |-> 0, left |-> 0, right |-> 0, blind |-> 0]
  /\ out = [state |-> 0, action |-> 0] /\ lock = "none"
  /\ teleop = [at |-> "left", sample |-> 0] /\ recorded = [state |-> 0, action |-> 0]

\* The subscriber threads: a pair of messages, one message for both hands, or
\* each hand by itself.
BothArrive == arrived' = Hands
Dex3Subscribe == kind = "dex3" /\ BothArrive
GripperSubscribe == kind = "dex1" /\ BothArrive
BraincoSubscribe == kind = "brainco" /\ BothArrive
DfxSubscribe == kind = "inspire_dfx" /\ BothArrive
FtpSubscribe == kind = "inspire_ftp" /\ \E h \in Hands : arrived' = arrived \cup {h}

SubscribeState ==
  /\ arrived # Hands
  /\ Dex3Subscribe \/ GripperSubscribe \/ BraincoSubscribe \/ DfxSubscribe \/ FtpSubscribe
  /\ UNCHANGED <<kind, input, control, out, lock, teleop, recorded>>

\* The constructors wait: for both hands, for the right one, for one of them or
\* 5 s; the gripper and the BrainCo hand take an empty read for the first state.
Dex3Starts == kind = "dex3" /\ arrived = Hands
DfxStarts == kind = "inspire_dfx" /\ "right" \in arrived
FtpStarts == kind = "inspire_ftp"
GripperStarts == kind = "dex1"
BraincoStarts == kind = "brainco"

StartControl ==
  /\ control.at = "wait"
  /\ Dex3Starts \/ DfxStarts \/ FtpStarts \/ GripperStarts \/ BraincoStarts
  /\ control' = [control EXCEPT !.at = "left"]
  /\ UNCHANGED <<kind, arrived, input, out, lock, teleop, recorded>>
-----------------------------------------------------------------------------
(* The main loop: one hand's data after the other, each under its own lock, *)
(* then the reading of the pair under the lock of both.                    *)

\* The mutant: the right hand's data are written first.
WriteRightFirst ==
  /\ control.at # "wait"
  /\ \/ /\ teleop.at = "left" /\ teleop.sample < MaxSamples
        /\ teleop' = [at |-> "right", sample |-> teleop.sample + 1]
        /\ input' = [input EXCEPT !["right"] = teleop.sample + 1]
     \/ /\ teleop.at = "right" /\ teleop' = [teleop EXCEPT !.at = "record"]
        /\ input' = [input EXCEPT !["left"] = teleop.sample]
  /\ UNCHANGED <<kind, arrived, control, out, lock, recorded>>

WriteInput ==
  /\ control.at # "wait"
  /\ \/ /\ teleop.at = "left" /\ teleop.sample < MaxSamples
        /\ teleop' = [at |-> "right", sample |-> teleop.sample + 1]
        /\ input' = [input EXCEPT !["left"] = teleop.sample + 1]
     \/ /\ teleop.at = "right" /\ teleop' = [teleop EXCEPT !.at = "record"]
        /\ input' = [input EXCEPT !["right"] = teleop.sample]
  /\ UNCHANGED <<kind, arrived, control, out, lock, recorded>>

RecordState ==
  /\ teleop.at = "record" /\ lock = "none" /\ lock' = "main"
  /\ teleop' = [teleop EXCEPT !.at = "action"] /\ recorded' = [recorded EXCEPT !.state = out.state]
  /\ UNCHANGED <<kind, arrived, input, control, out>>

RecordAction ==
  /\ teleop.at = "action" /\ lock' = "none"
  /\ teleop' = [teleop EXCEPT !.at = "left"] /\ recorded' = [recorded EXCEPT !.action = out.action]
  /\ UNCHANGED <<kind, arrived, input, control, out>>
-----------------------------------------------------------------------------
(* The control loop.                                                       *)

ReadLeft ==
  /\ control.at = "left" /\ control.cycle < MaxCycles
  /\ control' = [control EXCEPT !.at = "right", !.left = input["left"], !.cycle = @ + 1]
  /\ UNCHANGED <<kind, arrived, input, out, lock, teleop, recorded>>

\* Without data the targets stay what they were.  blind counts, up to 2, the
\* targets computed from a left hand of zeros.
Targets(initialized) ==
  control' = [control EXCEPT !.at = "report", !.right = input["right"],
                !.blind = IF initialized /\ control.left = 0 /\ @ < 2 THEN @ + 1 ELSE @]

\* "if hand data has been initialized": the right hand's are not all zero; for the
\* gripper, either is not.  A sample, once the device sends, is taken not to be all
\* zero: such a one would count as none.
HandData == input["right"] # 0
Dex3Targets == kind = "dex3" /\ Targets(HandData)
DfxTargets == kind = "inspire_dfx" /\ Targets(HandData)
FtpTargets == kind = "inspire_ftp" /\ Targets(HandData)
BraincoTargets == kind = "brainco" /\ Targets(HandData)
GripperTargets == kind = "dex1" /\ Targets(control.left # 0 \/ HandData)

ReadRight ==
  /\ control.at = "right"
  /\ Dex3Targets \/ DfxTargets \/ FtpTargets \/ BraincoTargets \/ GripperTargets
  /\ UNCHANGED <<kind, arrived, input, out, lock, teleop, recorded>>

\* The mutant: the pair is written without the lock.
TakeNothing == lock' = lock

TakeLock == lock = "none" /\ lock' = "control"

ReportState ==
  /\ control.at = "report" /\ TakeLock
  /\ control' = [control EXCEPT !.at = "action"] /\ out' = [out EXCEPT !.state = control.cycle]
  /\ UNCHANGED <<kind, arrived, input, teleop, recorded>>

ReportAction ==
  /\ control.at = "action"
  /\ lock' = IF lock = "control" THEN "none" ELSE lock
  /\ control' = [control EXCEPT !.at = "command"] /\ out' = [out EXCEPT !.action = control.cycle]
  /\ UNCHANGED <<kind, arrived, input, teleop, recorded>>

Sent(next) == control' = [control EXCEPT !.at = next, !.left = 0, !.right = 0]

Dex3Sends == kind = "dex3" /\ Sent("left")
DfxSends == kind = "inspire_dfx" /\ Sent("left")
BraincoSends == kind = "brainco" /\ Sent("left")
GripperSends == kind = "dex1" /\ Sent("left")

\* The FTP controller's message factory is a name of the constructor alone:
\* building the first command ends the process.
FtpSends == kind = "inspire_ftp" /\ Sent("ended")

SendCommand ==
  /\ control.at = "command"
  /\ Dex3Sends \/ DfxSends \/ BraincoSends \/ GripperSends \/ FtpSends
  /\ UNCHANGED <<kind, arrived, input, out, lock, teleop, recorded>>

HandsNext ==
  \/ SubscribeState \/ StartControl \/ WriteInput \/ RecordState \/ RecordAction
  \/ ReadLeft \/ ReadRight \/ ReportState \/ ReportAction \/ SendCommand
-----------------------------------------------------------------------------
\* A recorded item pairs a hand state with the action of the same control cycle,
\* however the main loop and the control loop interleave (dual_hand_data_lock).
SameCycle == teleop.at # "action" => recorded.state = recorded.action

\* "if hand data has been initialized" looks at the right hand for the presence of
\* both: since the main loop writes the left one first, at most one cycle, the one
\* that read left before the first sample and right after it, takes zeros for a
\* hand, unless the device itself sends zeros later.
OneBlindCycle == kind # "dex1" => control.blind =< 1
=============================================================================
