--------------------------- MODULE EpisodeWriter ---------------------------
(***************************************************************************)
(* The recorder of the teleoperation, episode_writer.py: the main loop     *)
(* opens an episode and queues its items, a worker thread appends them to  *)
(* the episode's file and, when told to, closes the file.  Episodes are    *)
(* directories numbered on from those the task directory holds; an item is *)
(* the number it has in its episode.                                       *)
(***************************************************************************)
EXTENDS Integers, Sequences, FiniteSetsExt

CONSTANTS
  MaxEpisodes,    \* bound: episodes of all sessions
  MaxItems        \* bound: items of an episode

ASSUME WriterAssumption == MaxEpisodes \in Nat /\ MaxItems \in Nat

VARIABLES
  binocular,      \* the head camera of the configuration has two eyes
  disk,           \* "ok" or "full"
  files,          \* episode -> what its data.json holds, and what was recorded
  episode_id, item_id,
  itemQ,          \* item_data_queue
  is_available, need_save, stop_worker,
  worker          \* where the worker thread is, and the item it has taken

media == <<binocular, disk>>
writerVars == <<media, files, episode_id, item_id, itemQ, is_available, need_save,
                stop_worker, worker>>

\* items are in the file, ends is how often it was closed; recorded counts what
\* add_item was given (for the properties).
EmptyFile == [items |-> <<>>, ends |-> 0, recorded |-> 0]

Idle(place) == [at |-> place, item |-> 0]

WriterInit ==
  /\ binocular \in BOOLEAN /\ disk = "ok" /\ files = <<>>
  /\ episode_id = -1 /\ item_id = -1 /\ itemQ = <<>>
  /\ is_available = TRUE /\ need_save = FALSE /\ stop_worker = FALSE
  /\ worker = Idle("none")

\* The number of the last directory; 0 when the task directory is empty.
LastEpisode(fresh) ==
  IF DOMAIN files # {} THEN Max(DOMAIN files) ELSE IF fresh THEN -1 ELSE 0

OpenWriter(fresh) ==
  /\ episode_id' = LastEpisode(fresh) /\ item_id' = -1
  /\ itemQ' = <<>> /\ is_available' = TRUE /\ need_save' = FALSE /\ stop_worker' = FALSE
  /\ worker' = Idle("get")
  /\ UNCHANGED <<media, files>>

\* Threads die with their process, files stay.
LoseWriter ==
  /\ worker' = Idle("none") /\ itemQ' = <<>>
  /\ UNCHANGED <<media, files, episode_id, item_id, is_available, need_save, stop_worker>>

DiskFills ==
  /\ disk = "ok" /\ disk' = "full"
  /\ UNCHANGED <<binocular, files, episode_id, item_id, itemQ, is_available, need_save,
                 stop_worker, worker>>
-----------------------------------------------------------------------------
(* Called by the main loop.                                                *)

CreateFails == ~is_available /\ UNCHANGED writerVars

CreateEpisode ==
  /\ is_available /\ disk = "ok"
  /\ item_id' = -1 /\ episode_id' = episode_id + 1 /\ is_available' = FALSE
  /\ files' = [e \in DOMAIN files \cup {episode_id + 1} |->
                 IF e = episode_id + 1 THEN EmptyFile ELSE files[e]]
  /\ UNCHANGED <<media, itemQ, need_save, stop_worker, worker>>

AddItem ==
  /\ item_id' = item_id + 1 /\ itemQ' = Append(itemQ, item_id + 1)
  /\ files' = [files EXCEPT ![episode_id].recorded = @ + 1]
  /\ UNCHANGED <<media, episode_id, is_available, need_save, stop_worker, worker>>

SaveEpisode ==
  /\ need_save' = TRUE
  /\ UNCHANGED <<media, files, episode_id, item_id, itemQ, is_available, stop_worker, worker>>

AllDone == itemQ = <<>> /\ worker.at # "item"

StopWorker ==
  /\ is_available /\ stop_worker' = TRUE
  /\ UNCHANGED <<media, files, episode_id, item_id, itemQ, is_available, need_save, worker>>
-----------------------------------------------------------------------------
(* The worker thread.                                                      *)

ToWorker(place) == worker' = Idle(place)

WorkerGet ==
  /\ worker.at = "get"
  /\ \/ /\ itemQ # <<>>
        /\ worker' = [at |-> "item", item |-> Head(itemQ)] /\ itemQ' = Tail(itemQ)
     \/ /\ itemQ = <<>> /\ ToWorker(IF stop_worker THEN "ended" ELSE "check")
        /\ UNCHANGED itemQ
  /\ UNCHANGED <<media, files, episode_id, item_id, is_available, need_save, stop_worker>>

\* With one eye the colour image is the TeleImage itself, which cv2.imwrite
\* refuses: the item is reported and lost, as it is when the disk is full.
Written == binocular /\ disk = "ok"

ProcessItem ==
  /\ worker.at = "item" /\ ToWorker("check")
  /\ files' = IF Written THEN [files EXCEPT ![episode_id].items = Append(@, worker.item)] ELSE files
  /\ UNCHANGED <<media, episode_id, item_id, itemQ, is_available, need_save, stop_worker>>

\* The mutant: the file is closed as soon as that is asked for.
SaveAsked == need_save

SaveDue == need_save /\ itemQ = <<>>

CheckSave ==
  /\ worker.at = "check" /\ ToWorker(IF SaveDue THEN "save" ELSE "get")
  /\ UNCHANGED <<media, files, episode_id, item_id, itemQ, is_available, need_save, stop_worker>>

\* An exception here ends the thread.
CloseFile ==
  /\ worker.at = "save"
  /\ \/ disk = "ok" /\ ToWorker("reset") /\ files' = [files EXCEPT ![episode_id].ends = @ + 1]
     \/ disk = "full" /\ ToWorker("died") /\ UNCHANGED files
  /\ UNCHANGED <<media, episode_id, item_id, itemQ, is_available, need_save, stop_worker>>

ResetNeed ==
  /\ worker.at = "reset" /\ ToWorker("free") /\ need_save' = FALSE
  /\ UNCHANGED <<media, files, episode_id, item_id, itemQ, is_available, stop_worker>>

FreeWriter ==
  /\ worker.at = "free" /\ ToWorker("get") /\ is_available' = TRUE
  /\ UNCHANGED <<media, files, episode_id, item_id, itemQ, need_save, stop_worker>>

Worker == WorkerGet \/ ProcessItem \/ CheckSave \/ CloseFile \/ ResetNeed \/ FreeWriter
=============================================================================
