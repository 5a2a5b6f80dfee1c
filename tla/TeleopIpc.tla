------------------------------ MODULE TeleopIpc ------------------------------
(***************************************************************************)
(* Commands and heartbeats of the teleoperation, ipc.py: a client sends    *)
(* one command at a time over a REQ socket and believes the server alive   *)
(* while heartbeats arrive; the server hands a command to on_press and     *)
(* replies.  The server's process may die, stop and be started again; the  *)
(* transport may lose what is on its way.  A request is its number.        *)
(***************************************************************************)
EXTENDS Integers

CONSTANTS
  MaxRequests,    \* bound: commands sent
  HbTimeout,      \* heartbeat intervals without a heartbeat before offline
  HbNeeded        \* heartbeats before online

ASSUME IpcAssumption == MaxRequests \in Nat /\ HbTimeout \in Nat /\ HbNeeded \in Nat \ {0}

VARIABLES
  server,         \* "none", "up", "stopping": _running is cleared
  dataLoop,       \* what _data_loop has at hand: [at, req, status]
  reqWire, repWire, hbWire,   \* one message each, or NoMsg
  pressed,        \* request -> how often on_press was called for it
  hb,             \* the client's heartbeat state
  asked,          \* requests so far
  send,           \* send_data: "idle", "waiting", "stuck" (REQ without its reply)
  answer          \* request -> what send_data returned

ipcVars == <<server, dataLoop, reqWire, repWire, hbWire, pressed, hb, asked, send, answer>>

NoMsg == [id |-> 0, status |-> "none"]
Requests == 1..MaxRequests
Polling == [at |-> "poll", req |-> NoMsg]

IpcInit ==
  /\ server = "none" /\ dataLoop = Polling
  /\ reqWire = NoMsg /\ repWire = NoMsg /\ hbWire = FALSE
  /\ pressed = [r \in Requests |-> 0] /\ answer = [r \in Requests |-> "none"]
  /\ hb = [seen |-> FALSE, age |-> 0, consecutive |-> 0, online |-> FALSE]
  /\ asked = 0 /\ send = "idle"
-----------------------------------------------------------------------------
(* The server.                                                             *)

StartServer ==
  /\ server = "none" /\ server' = "up" /\ dataLoop' = Polling
  /\ UNCHANGED <<reqWire, repWire, hbWire, pressed, hb, asked, send, answer>>

StopServer ==
  /\ server = "up" /\ server' = "stopping"
  /\ UNCHANGED <<dataLoop, reqWire, repWire, hbWire, pressed, hb, asked, send, answer>>

\* The sockets are closed when both loops have ended, or a second later.
CloseServer ==
  /\ server = "stopping" /\ server' = "none" /\ dataLoop' = Polling
  /\ UNCHANGED <<reqWire, repWire, hbWire, pressed, hb, asked, send, answer>>

KillServer ==
  /\ server = "up" /\ server' = "none" /\ dataLoop' = Polling
  /\ UNCHANGED <<reqWire, repWire, hbWire, pressed, hb, asked, send, answer>>

Receive ==
  /\ server = "up" /\ dataLoop.at = "poll" /\ reqWire # NoMsg
  /\ dataLoop' = [at |-> "handle", req |-> reqWire] /\ reqWire' = NoMsg
  /\ UNCHANGED <<server, repWire, hbWire, pressed, hb, asked, send, answer>>

\* The mutant: a command is acknowledged, and on_press left for later.
AcknowledgeOnly ==
  /\ dataLoop.at = "handle" /\ server # "none"
  /\ dataLoop' = [dataLoop EXCEPT !.at = "reply"]
  /\ UNCHANGED <<server, reqWire, repWire, hbWire, pressed, hb, asked, send, answer>>

\* A command that is not in cmd_map is answered with an error.
HandleMessage ==
  /\ dataLoop.at = "handle" /\ server # "none"
  /\ \/ /\ pressed' = [pressed EXCEPT ![dataLoop.req.id] = @ + 1]
        /\ dataLoop' = [dataLoop EXCEPT !.at = "reply"]
     \/ /\ dataLoop' = [at |-> "reply", req |-> [dataLoop.req EXCEPT !.status = "error"]]
        /\ UNCHANGED pressed
  /\ UNCHANGED <<server, reqWire, repWire, hbWire, hb, asked, send, answer>>

SendReply ==
  /\ dataLoop.at = "reply" /\ server # "none"
  /\ repWire' = dataLoop.req /\ dataLoop' = Polling
  /\ UNCHANGED <<server, reqWire, hbWire, pressed, hb, asked, send, answer>>

PublishHeartbeat ==
  /\ server = "up" /\ ~hbWire /\ hbWire' = TRUE
  /\ UNCHANGED <<server, dataLoop, reqWire, repWire, pressed, hb, asked, send, answer>>

LoseMessage ==
  /\ UNCHANGED <<server, dataLoop, pressed, hb, asked, send, answer>>
  /\ \/ reqWire # NoMsg /\ reqWire' = NoMsg /\ UNCHANGED <<repWire, hbWire>>
     \/ repWire # NoMsg /\ repWire' = NoMsg /\ UNCHANGED <<reqWire, hbWire>>
     \/ hbWire /\ hbWire' = FALSE /\ UNCHANGED <<reqWire, repWire>>
-----------------------------------------------------------------------------
(* The client.                                                             *)

\* One pass per interval.  A gap before the client is online leaves the count
\* of "consecutive" heartbeats as it is.
HbLoop ==
  /\ hbWire' = FALSE
  /\ hb' = CASE hbWire ->
                  LET n == IF hb.consecutive < HbNeeded THEN hb.consecutive + 1 ELSE HbNeeded IN
                  [seen |-> TRUE, age |-> 0, consecutive |-> n, online |-> hb.online \/ n = HbNeeded]
             [] ~hbWire /\ hb.online /\ hb.age >= HbTimeout ->
                  [seen |-> FALSE, age |-> 0, consecutive |-> 0, online |-> FALSE]
             [] OTHER -> [hb EXCEPT !.age = IF hb.online THEN @ + 1 ELSE @]
  /\ UNCHANGED <<server, dataLoop, reqWire, repWire, pressed, asked, send, answer>>

Returns(r, what) == answer' = [answer EXCEPT ![r] = what]

\* Offline, or stuck since an earlier timeout: an error at once.
SendDataFails ==
  /\ asked < MaxRequests /\ asked' = asked + 1
  /\ ~hb.online \/ send = "stuck"
  /\ send # "waiting" /\ Returns(asked', "error")
  /\ UNCHANGED <<server, dataLoop, reqWire, repWire, hbWire, pressed, hb, send>>

SendData ==
  /\ asked < MaxRequests /\ asked' = asked + 1
  /\ hb.online /\ send = "idle" /\ send' = "waiting"
  /\ reqWire' = [id |-> asked', status |-> "ok"]
  /\ UNCHANGED <<server, dataLoop, repWire, hbWire, pressed, hb, answer>>

GetReply ==
  /\ send = "waiting" /\ repWire # NoMsg
  /\ repWire' = NoMsg /\ send' = "idle"
  /\ Returns(asked, IF repWire.id = asked THEN repWire.status ELSE "error")
  /\ UNCHANGED <<server, dataLoop, reqWire, hbWire, pressed, hb, asked>>

ReplyTimeout ==
  /\ send = "waiting" /\ send' = "stuck" /\ Returns(asked, "error")
  /\ UNCHANGED <<server, dataLoop, reqWire, repWire, hbWire, pressed, hb, asked>>

IpcNext ==
  \/ StartServer \/ StopServer \/ CloseServer \/ KillServer
  \/ Receive \/ HandleMessage \/ SendReply \/ PublishHeartbeat \/ LoseMessage
  \/ HbLoop \/ SendDataFails \/ SendData \/ GetReply \/ ReplyTimeout
-----------------------------------------------------------------------------
\* A command that send_data reports as "ok" was handed to on_press, and none is
\* handed over twice, although server and messages may be lost at any step.
OkMeansApplied ==
  \A r \in Requests : pressed[r] =< 1 /\ (answer[r] = "ok" => pressed[r] = 1)
=============================================================================
