------------------------------- MODULE Teleop -------------------------------
(***************************************************************************)
(* The parts of the teleoperation: the main program with its recorder, the *)
(* command channel, the image stream, the camera server and the hands.     *)
(* They are examined one at a time: each has threads or processes of its   *)
(* own, and what one hands to another is an input of the other's module.   *)
(***************************************************************************)
EXTENDS TeleopLoop, TeleopIpc, ImageStream, ImageServer, TeleopHands

VARIABLE part       \* the part that is examined

otherThanLoop == <<part, ipcVars, streamVars, serverVars, handsVars>>
otherThanServer == <<part, loopVars, ipcVars, streamVars, handsVars>>

vars == <<part, loopVars, ipcVars, streamVars, serverVars, handsVars>>

\* The settings of what is not examined do not matter.
Init ==
  /\ part \in {"loop", "ipc", "stream", "server", "hands"}
  /\ LoopInit /\ IpcInit /\ StreamInit /\ ServerInit /\ HandsInit
  /\ part # "loop" => ~binocular
  /\ part # "stream" => ~request_bgr
  /\ IF part = "server" THEN Cardinality({c \in Cameras : outputs[c] = AllOutputs}) = 1
                        ELSE sim /\ \A c \in Cameras : outputs[c] = {"zmq"}
  /\ part # "hands" => kind = "dex3"

Next ==
  \/ part = "loop" /\ LoopNext /\ UNCHANGED otherThanLoop
  \/ part = "ipc" /\ IpcNext /\ UNCHANGED <<part, loopVars, streamVars, serverVars, handsVars>>
  \/ part = "stream" /\ StreamNext /\ UNCHANGED <<part, loopVars, ipcVars, serverVars, handsVars>>
  \/ part = "server" /\ ServerNext /\ UNCHANGED otherThanServer
  \/ part = "hands" /\ HandsNext /\ UNCHANGED <<part, loopVars, ipcVars, streamVars, serverVars>>

\* The main thread and the recorder's worker run; so do the server's threads, each
\* of which looks at the stop event, unless a read of a camera does not return.
Fairness ==
  /\ WF_vars(part = "loop" /\ MainThread /\ UNCHANGED otherThanLoop)
  /\ WF_vars(part = "loop" /\ InWriter(Worker) /\ UNCHANGED otherThanLoop)
  /\ WF_vars(part = "server" /\ (Load \/ StartUpdaters \/ AwaitReady \/ StartPublishers
                                 \/ CleanUp \/ KillGroup) /\ UNCHANGED otherThanServer)
  /\ WF_vars(part = "server" /\ Threads /\ UNCHANGED otherThanServer)

Spec == Init /\ [][Next]_vars /\ Fairness
=============================================================================
