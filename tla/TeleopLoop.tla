----------------------------- MODULE TeleopLoop -----------------------------
(***************************************************************************)
(* The main program of the teleoperation, teleop_hand_and_arm.py, run with *)
(* --record: flags set by a listener thread (keyboard or IPC) steer a loop *)
(* that commands the arms and feeds the recorder; whatever ends the loop,  *)
(* the arms go home and everything is closed.  The process may be killed   *)
(* and started again.                                                      *)
(***************************************************************************)
EXTENDS EpisodeWriter

CONSTANT MaxSessions    \* bound: starts of the program

ASSUME LoopAssumption == MaxSessions \in Nat

VARIABLES
  START, STOP, RECORD_TOGGLE, RECORD_RUNNING,     \* READY is reported only
  main,           \* where the main thread is
  arm,            \* what the arm controller was last told
  session

flags == <<START, STOP, RECORD_TOGGLE, RECORD_RUNNING>>
loopVars == <<flags, main, arm, session, writerVars>>

LoopInit ==
  /\ START = FALSE /\ STOP = FALSE /\ RECORD_TOGGLE = FALSE /\ RECORD_RUNNING = FALSE
  /\ main = "setup" /\ arm = "none" /\ session = 1
  /\ WriterInit

Goto(place) == main' = place

Looping == {"wait", "toggle", "command", "record"}
Finally == {"home", "listener", "close", "flag", "closing", "joining"}
-----------------------------------------------------------------------------
(* The listener thread, until it is stopped.                               *)

MayRecord == RECORD_RUNNING \/ Cardinality(DOMAIN files) < MaxEpisodes     \* bound

OnPress(key) ==
  /\ main \in {"setup", "home", "listener"} \cup Looping
  /\ \/ key = "r" /\ START' = TRUE /\ UNCHANGED <<STOP, RECORD_TOGGLE>>
     \/ key = "q" /\ START' = FALSE /\ STOP' = TRUE /\ UNCHANGED RECORD_TOGGLE
     \/ key = "s" /\ START /\ MayRecord /\ RECORD_TOGGLE' = TRUE /\ UNCHANGED <<START, STOP>>
  /\ UNCHANGED <<RECORD_RUNNING, main, arm, session, writerVars>>
-----------------------------------------------------------------------------
(* The main thread.                                                        *)

\* Cameras, XR device, arms, hands, and at last the recorder.
SetUp ==
  /\ main = "setup" /\ Goto("wait")
  /\ arm' = "up"
  /\ OpenWriter(session = 1)
  /\ UNCHANGED <<START, STOP, RECORD_TOGGLE, RECORD_RUNNING, session>>

\* An exception or Ctrl-C on the way; the arms may be there already.
SetUpFails ==
  /\ main = "setup" /\ Goto("home")
  /\ arm' \in {"none", "up"}
  /\ UNCHANGED <<flags, session, writerVars>>

WaitForStart ==
  /\ main = "wait" /\ (START \/ STOP)
  /\ Goto(IF STOP THEN "home" ELSE "toggle")
  /\ UNCHANGED <<flags, arm, session, writerVars>>

Recording(on) ==
  /\ RECORD_TOGGLE' = FALSE /\ RECORD_RUNNING' = on /\ UNCHANGED <<START, STOP>>

RecordMode ==
  /\ main = "toggle" /\ Goto("command")
  /\ \/ ~RECORD_TOGGLE /\ UNCHANGED <<flags, writerVars>>
     \/ RECORD_TOGGLE /\ ~RECORD_RUNNING /\ CreateEpisode /\ Recording(TRUE)
     \/ RECORD_TOGGLE /\ ~RECORD_RUNNING /\ CreateFails /\ Recording(FALSE)
     \/ RECORD_TOGGLE /\ RECORD_RUNNING /\ SaveEpisode /\ Recording(FALSE)
  /\ UNCHANGED <<arm, session>>

\* The XR data, the buttons of the controllers, inverse kinematics, the arms.
Command ==
  /\ main = "command" /\ Goto("record")
  /\ \E a \in BOOLEAN : /\ START' = (START /\ ~a) /\ STOP' = (STOP \/ a)   \* right A button
  /\ arm' = "up"
  /\ UNCHANGED <<RECORD_TOGGLE, RECORD_RUNNING, session, writerVars>>

Record ==
  /\ main = "record" /\ Goto(IF STOP THEN "home" ELSE "toggle")
  /\ IF RECORD_RUNNING /\ item_id + 1 < MaxItems THEN AddItem ELSE UNCHANGED writerVars
  /\ UNCHANGED <<START, STOP, RECORD_TOGGLE, RECORD_RUNNING, arm, session>>

\* Ctrl-C, an exception of the loop (a full disk in create_episode among them).
Raise ==
  /\ main \in Looping /\ Goto("home")
  /\ UNCHANGED <<flags, arm, session, writerVars>>

GoHome ==
  /\ main = "home" /\ Goto("listener")
  /\ arm' = IF arm = "none" THEN arm ELSE "home"
  /\ UNCHANGED <<flags, session, writerVars>>

\* And the clients; each failure is reported and passed over.
StopListener ==
  /\ main = "listener" /\ Goto(IF worker.at = "none" THEN "exited" ELSE "close")
  /\ UNCHANGED <<flags, arm, session, writerVars>>

\* recorder.close(): wait for the queue, look whether an episode is open ...
CloseRecorder ==
  /\ main = "close" /\ AllDone
  /\ Goto(IF is_available THEN "closing" ELSE "flag")
  /\ UNCHANGED <<flags, arm, session, writerVars>>

\* The mutant: close() relies on the main loop to have asked for the save.
CloseTrusts ==
  /\ main = "flag" /\ Goto("closing")
  /\ UNCHANGED <<flags, arm, session, writerVars>>

\* ... have it saved ...
CloseSaves ==
  /\ main = "flag" /\ Goto("closing")
  /\ SaveEpisode
  /\ UNCHANGED <<flags, arm, session>>

CloseWaits ==
  /\ main = "closing" /\ Goto("joining")
  /\ StopWorker
  /\ UNCHANGED <<flags, arm, session>>

JoinWorker ==
  /\ main = "joining" /\ worker.at = "ended" /\ Goto("exited")
  /\ UNCHANGED <<flags, arm, session, writerVars>>

CloseAll == CloseRecorder \/ CloseSaves \/ CloseWaits \/ JoinWorker

\* Ctrl-C once more: the rest of the finally block is skipped.
Interrupt ==
  /\ main \in Finally /\ Goto("aborted")
  /\ UNCHANGED <<flags, arm, session, writerVars>>

Kill ==
  /\ main \notin {"exited", "killed"} /\ Goto("killed")
  /\ LoseWriter
  /\ UNCHANGED <<flags, arm, session>>

Restart ==
  /\ main \in {"exited", "killed"} /\ session < MaxSessions /\ session' = session + 1
  /\ Goto("setup") /\ arm' = "none"
  /\ START' = FALSE /\ STOP' = FALSE /\ RECORD_TOGGLE' = FALSE /\ RECORD_RUNNING' = FALSE
  /\ LoseWriter
-----------------------------------------------------------------------------
MainThread ==
  \/ WaitForStart \/ RecordMode \/ Command \/ Record
  \/ GoHome \/ StopListener \/ CloseAll

InWriter(A) == A /\ UNCHANGED <<flags, main, arm, session>>

LoopNext ==
  \/ \E key \in {"r", "q", "s"} : OnPress(key)
  \/ SetUp \/ SetUpFails \/ MainThread \/ Raise \/ Interrupt \/ Kill \/ Restart
  \/ InWriter(Worker) \/ InWriter(DiskFills)
-----------------------------------------------------------------------------
\* A closed episode of a two-eyed recording holds every item recorded for it,
\* once and in order, also when the program was told to stop, was interrupted or
\* killed meanwhile, or was started again (create_episode, add_item, process_queue).
EpisodeIntact ==
  \A e \in DOMAIN files :
    files[e].ends > 0 /\ Written =>
      files[e].items = [i \in 1..files[e].recorded |-> i - 1]

\* "Close the JSON array and object" (_save_episode): the file is closed once.
FileClosedOnce == \A e \in DOMAIN files : files[e].ends =< 1

\* Once told to stop, the program ends, with the arms sent home and the last episode
\* saved, unless it is killed, the disk is full or Ctrl-C is pressed again.
ExitCompletes ==
  (STOP /\ main \in Looping) ~>
    \/ main = "exited" /\ arm = "home" /\ is_available
    \/ main \in {"aborted", "killed"} \/ disk = "full"
=============================================================================
