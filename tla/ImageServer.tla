----------------------------- MODULE ImageServer -----------------------------
(***************************************************************************)
(* The camera server, image_server.py: one thread per camera fetches       *)
(* frames into buffers, one per camera and output publishes what they      *)
(* hold, and any of them that fails stops the server.  On the robot main() *)
(* waits for that, cleans up and kills its process group; in a simulator   *)
(* run_isaacsim_server() returns, and the threads are left to end.         *)
(***************************************************************************)
EXTENDS FiniteSets

CONSTANTS
  Cameras         \* the cameras of the configuration with an output enabled

ASSUME CamerasAssumption == IsFiniteSet(Cameras)

VARIABLES
  sim,            \* isaacsim_enable
  outputs,        \* camera -> the enabled ones of "zmq" and "webrtc"
  signal,         \* camera -> "missing", "live", "silent", "lost", "hung"
  cameras,        \* _cameras: those that it took on
  serving,        \* where the main thread is
  stop_event,
  ready,          \* cameras that are ready
  framed,         \* camera -> the outputs whose buffer holds a frame
  updating,       \* camera -> its _update_frames thread: "none", "run", "ended"
  publishing      \* camera -> the outputs whose thread runs

serverVars == <<sim, outputs, signal, cameras, serving, stop_event, ready, framed, updating, publishing>>

AllOutputs == {"zmq", "webrtc"}

ServerInit ==
  /\ sim \in BOOLEAN
  /\ outputs \in [Cameras -> SUBSET AllOutputs \ {{}}]
  /\ signal \in [Cameras -> IF sim THEN {"silent"} ELSE {"missing", "live"}]
  /\ cameras = {} /\ serving = "load" /\ stop_event = FALSE
  /\ ready = {} /\ framed = [c \in Cameras |-> {}]
  /\ updating = [c \in Cameras |-> "none"] /\ publishing = [c \in Cameras |-> {}]

\* A camera stops giving frames, is unplugged (a read raises or, of a device, never
\* returns) or, in the simulation, gives its first image.
SignalChanges ==
  /\ \E c \in Cameras :
       \/ /\ signal[c] = "live"
          /\ \E s \in {"silent", "lost"} \cup (IF sim THEN {} ELSE {"hung"}) :
                signal' = [signal EXCEPT ![c] = s]
       \/ signal[c] = "silent" /\ signal' = [signal EXCEPT ![c] = "live"]
  /\ UNCHANGED <<sim, outputs, cameras, serving, stop_event, ready, framed, updating, publishing>>
-----------------------------------------------------------------------------
(* The main thread.                                                        *)

Missing == {c \in cameras : signal[c] = "missing"}

\* An entry of unknown type, or of a UVC camera with neither path nor serial number,
\* is passed over; a camera that is not found is taken on as missing; one that
\* cannot be opened raises.  A camera of the simulation is ready at once.
Load ==
  /\ serving = "load"
  /\ \/ /\ serving' = "start" /\ cameras' \in SUBSET Cameras /\ (sim => cameras' = Cameras)
        /\ ready' = IF sim THEN cameras' ELSE {}
     \/ serving' = "exited" /\ UNCHANGED <<cameras, ready>>
  /\ UNCHANGED <<sim, outputs, signal, stop_event, framed, updating, publishing>>

\* With a camera missing, the threads of those before it have been started.
StartUpdaters ==
  /\ serving = "start"
  /\ \E S \in SUBSET (cameras \ Missing) :
       /\ Missing = {} => S = cameras
       /\ updating' = [c \in Cameras |-> IF c \in S THEN "run" ELSE "none"]
  /\ IF Missing = {} THEN serving' = "ready" /\ UNCHANGED stop_event
                     ELSE serving' = "wait" /\ stop_event' = TRUE
  /\ UNCHANGED <<sim, outputs, signal, cameras, ready, framed, publishing>>

\* After the timeout of a camera everything is stopped; start() goes on.
AwaitReady ==
  /\ serving = "ready" /\ serving' = "publish"
  /\ \/ ready = cameras /\ UNCHANGED stop_event
     \/ ready # cameras /\ stop_event' = TRUE
  /\ UNCHANGED <<sim, outputs, signal, cameras, ready, framed, updating, publishing>>

StartPublishers ==
  /\ serving = "publish" /\ serving' = IF sim THEN "returned" ELSE "wait"
  /\ publishing' = [c \in Cameras |-> IF c \in cameras THEN outputs[c] ELSE {}]
  /\ UNCHANGED <<sim, outputs, signal, cameras, stop_event, ready, framed, updating>>

\* Ctrl-C before main() has installed its handlers, which is after start().
NoThreads == updating' = [c \in Cameras |-> "none"] /\ publishing' = [c \in Cameras |-> {}]
Interrupted ==
  /\ ~sim /\ serving \in {"load", "start", "ready", "publish"} /\ serving' = "exited"
  /\ NoThreads
  /\ UNCHANGED <<sim, outputs, signal, cameras, stop_event, ready, framed>>

\* stop(), by the handler or by the simulator.
StopServing ==
  /\ serving \in {"wait", "returned"} /\ stop_event' = TRUE
  /\ UNCHANGED <<sim, outputs, signal, cameras, serving, ready, framed, updating, publishing>>

\* The mutant: the threads are joined without a timeout.
CleanUpWaits ==
  /\ serving = "wait" /\ stop_event /\ serving' = "clean"
  /\ \A c \in Cameras : updating[c] # "run" /\ publishing[c] = {}
  /\ UNCHANGED <<sim, outputs, signal, cameras, stop_event, ready, framed, updating, publishing>>

\* Each thread is given a second to end; then the publishers are closed and the
\* cameras released.
CleanUp ==
  /\ serving = "wait" /\ stop_event /\ serving' = "clean"
  /\ UNCHANGED <<sim, outputs, signal, cameras, stop_event, ready, framed, updating, publishing>>

KillGroup ==
  /\ serving = "clean" /\ serving' = "killed" /\ NoThreads
  /\ UNCHANGED <<sim, outputs, signal, cameras, stop_event, ready, framed>>
-----------------------------------------------------------------------------
(* The threads of a camera.                                                *)

\* The mutant: the failing thread ends alone.
UpdateFails(c) ==
  /\ updating' = [updating EXCEPT ![c] = "ended"]
  /\ UNCHANGED <<stop_event, ready, framed>>

UpdateRaises(c) ==
  /\ updating' = [updating EXCEPT ![c] = "ended"] /\ stop_event' = TRUE
  /\ UNCHANGED <<ready, framed>>

Filled(c, buffers) == framed' = [framed EXCEPT ![c] = @ \cup buffers] /\ ready' = ready \cup {c}

\* The picture for "webrtc", and for "zmq" if it can be encoded.
Encoded(c) == \E failed \in SUBSET {"zmq"} : Filled(c, outputs[c] \ failed)

\* The type of a camera is left open: a live camera fills its buffers as one of
\* the types does; only a UVC camera's frame may be without the picture.
OpenCVFrame(c) == ~sim /\ signal[c] = "live" /\ Encoded(c)
UVCFrame(c) == ~sim /\ signal[c] = "live" /\ \E S \in SUBSET outputs[c] : Filled(c, S)
RealSenseFrame(c) ==
  /\ ~sim
  /\ \/ signal[c] = "live" /\ Encoded(c)
     \/ signal[c] = "silent" /\ UNCHANGED <<framed, ready>>
IsaacSimFrame(c) ==
  /\ sim
  /\ \/ signal[c] = "live" /\ Encoded(c)
     \/ signal[c] = "silent" /\ UNCHANGED <<framed, ready>>

UpdateFrame(c) ==
  /\ OpenCVFrame(c) \/ UVCFrame(c) \/ RealSenseFrame(c) \/ IsaacSimFrame(c)
  /\ UNCHANGED <<stop_event, updating>>

UpdateFrames(c) ==
  /\ updating[c] = "run" /\ signal[c] # "hung"
  /\ \/ stop_event /\ updating' = [updating EXCEPT ![c] = "ended"] /\ UNCHANGED <<stop_event, ready, framed>>
     \/ ~stop_event /\ UpdateFrame(c)
     \/ ~stop_event /\ signal[c] = "lost" /\ UpdateRaises(c)
  /\ UNCHANGED <<sim, outputs, signal, cameras, serving, publishing>>

\* _zmq_pub and _webrtc_pub publish the newest frame over and over, an old one too.
\* The thread that ends sees to it that the server stops.
PublisherEnds(c, o) ==
  /\ o \in publishing[c]
  /\ publishing' = [publishing EXCEPT ![c] = @ \ {o}] /\ stop_event' = TRUE
  /\ UNCHANGED <<sim, outputs, signal, cameras, serving, ready, framed, updating>>

\* Told to stop, or the buffer is empty.
PublisherLeaves(c, o) == (stop_event \/ o \notin framed[c]) /\ PublisherEnds(c, o)

PublishRaises(c, o) == o \in framed[c] /\ PublisherEnds(c, o)

Threads == \E c \in Cameras : UpdateFrames(c) \/ \E o \in AllOutputs : PublisherLeaves(c, o)

ServerNext ==
  \/ \E c \in Cameras, o \in AllOutputs : PublishRaises(c, o)
  \/ SignalChanges \/ Load \/ StartUpdaters \/ AwaitReady \/ StartPublishers
  \/ Interrupted \/ StopServing \/ CleanUp \/ KillGroup \/ Threads
-----------------------------------------------------------------------------
\* The server never serves some of the cameras that it took on without the others:
\* while it is not told to stop, each has its thread and each output has, although
\* any of the threads may fail at any time.  Of an entry that it passed over it does
\* not know.
AllOrNothing ==
  serving \in {"wait", "returned"} /\ ~stop_event =>
    \A c \in cameras : updating[c] = "run" /\ publishing[c] = outputs[c]

\* Once told to stop, or stopping itself, the server is gone: its process, also when
\* a read of an unplugged camera never returns; or in a simulator, whose process is
\* not its own, all of its threads.
ThreadsEnded ==
  serving = "returned" /\ \A c \in Cameras : updating[c] # "run" /\ publishing[c] = {}

ServerEnds == stop_event ~> (serving \in {"killed", "exited"} \/ ThreadsEnded)
=============================================================================
