----------------------------- MODULE ImageStream -----------------------------
(***************************************************************************)
(* The way of a camera image from the server's queue to the teleoperation, *)
(* image_client.py: a publisher thread, the wire, a subscriber thread that *)
(* keeps the newest message in a triple ring buffer and hands it to a      *)
(* decoder thread with a ring of its own, and recv() in the main thread.   *)
(* Both ends create their threads when they are first used and stop them   *)
(* when they are closed; the client first asks for the configuration.      *)
(* An image is its number; 0 is None.                                      *)
(***************************************************************************)
EXTENDS Integers, Sequences

CONSTANTS
  MaxImages,      \* bound: images of a run
  QueueSize       \* images waiting for the publisher thread (10 in the code)

ASSUME StreamAssumption == MaxImages \in Nat /\ QueueSize \in Nat \ {0}

VARIABLES
  request_bgr,    \* the client has images decoded
  published,      \* images the server has published
  queue,          \* the publisher's queue
  publisher,      \* "none", "run", "ended", "closed" (the manager is)
  wire,           \* at most one message (RCVHWM 1)
  jpg, bgr,       \* the rings
  decodeQ,        \* _bgr_decode_queue: at most one message or None
  subscriber,     \* "none", "poll", "full" (the decode queue was found full), "dead"
  pending,        \* what the subscriber has for the decoder
  decoder,        \* what the decoder works on, or -1
  reader,         \* recv(): where it is, and the image its locked part chose
  client          \* ImageClient: "request", "subscribe", "run", "closed", "failed"

streamVars == <<client, request_bgr, published, queue, publisher, wire, jpg, bgr, decodeQ,
                subscriber, pending, decoder, reader>>

Slots == 0..2
NewRing == [buffer |-> [s \in Slots |-> 0], write |-> 0, latest |-> -1, read |-> -1]
NextSlot(s) == (s + 1) % 3

\* The mutant: the slot being read is not stepped over.
WriteNext(ring, x) ==
  [ring EXCEPT !.buffer[ring.write] = x, !.latest = ring.write, !.write = NextSlot(ring.write)]

Write(ring, x) ==
  [ring EXCEPT !.buffer[ring.write] = x,
               !.latest = ring.write,
               !.write = IF NextSlot(@) = ring.read THEN NextSlot(NextSlot(@)) ELSE NextSlot(@)]

\* The locked part of read().
Choose(ring) == [ring EXCEPT !.read = ring.latest]

Newest(ring) == IF ring.latest = -1 THEN 0 ELSE ring.buffer[ring.latest]

StreamInit ==
  /\ request_bgr \in BOOLEAN
  /\ published = 0 /\ queue = <<>> /\ publisher = "none" /\ wire = <<>>
  /\ jpg = NewRing /\ bgr = NewRing /\ decodeQ = <<>>
  /\ subscriber = "none" /\ pending = 0 /\ decoder = -1
  /\ client = "request"
  /\ reader = [at |-> "idle", want |-> 0, got |-> 0]

rings == <<jpg, bgr, decodeQ, decoder, reader>>
-----------------------------------------------------------------------------
(* The server's side and the wire.                                         *)

\* The first image finds no thread: it is created and its socket bound, or the
\* caller gets a ConnectionError.
StartPublisher ==
  /\ publisher = "none" /\ publisher' \in {"run", "closed"}
  /\ UNCHANGED <<client, request_bgr, published, queue, wire, subscriber, pending, rings>>

\* The newest image is dropped when the queue is full; the queue of a thread that
\* has ended fills as well.
Publish ==
  /\ publisher \in {"run", "ended"}
  /\ published < MaxImages /\ published' = published + 1
  /\ queue' = IF Len(queue) < QueueSize THEN Append(queue, published + 1) ELSE queue
  /\ UNCHANGED <<client, request_bgr, publisher, wire, jpg, bgr, decodeQ, subscriber, pending, decoder, reader>>

\* The wire takes a message, or drops it (high-water mark, no subscriber).
PublisherSend ==
  /\ publisher = "run" /\ queue # <<>> /\ queue' = Tail(queue)
  /\ \/ wire = <<>> /\ wire' = <<Head(queue)>>
     \/ UNCHANGED wire
  /\ UNCHANGED <<client, request_bgr, published, publisher, jpg, bgr, decodeQ, subscriber, pending, decoder, reader>>

\* An error of the socket ends the thread, which nobody starts again.
PublisherFails ==
  /\ publisher = "run" /\ queue # <<>> /\ queue' = Tail(queue) /\ publisher' = "ended"
  /\ UNCHANGED <<client, request_bgr, published, wire, jpg, bgr, decodeQ, subscriber, pending, decoder, reader>>

\* close(): what waits is dropped, but for a message the thread was about to take;
\* from here on publish() raises.
ClosePublishers ==
  /\ publisher # "closed" /\ publisher' = "closed" /\ queue' = <<>>
  /\ \/ publisher = "run" /\ queue # <<>> /\ wire = <<>> /\ wire' = <<Head(queue)>>
     \/ UNCHANGED wire
  /\ UNCHANGED <<client, request_bgr, published, subscriber, pending, rings>>
-----------------------------------------------------------------------------
(* The client in the main thread.                                          *)

\* An answer is kept on the disk; after a second without one, what was kept is
\* taken, or else the server's own file, if there is one.
RequestConfig ==
  /\ client = "request" /\ client' \in {"subscribe", "failed"}
  /\ UNCHANGED <<request_bgr, published, queue, publisher, wire, subscriber, pending, rings>>

\* The subscriber thread is created, and has a second to connect; one that is
\* late is left behind.
StartClient ==
  /\ client = "subscribe"
  /\ \/ client' = "run" /\ subscriber' = "poll"
     \/ client' = "failed" /\ subscriber' \in {"dead", "poll"}
  /\ UNCHANGED <<request_bgr, published, queue, publisher, wire, pending, rings>>

\* close(): the threads are told to stop, and let go with their rings.
CloseClient ==
  /\ client = "run" /\ reader.at = "idle" /\ client' = "closed"
  /\ subscriber' = "dead" /\ pending' = 0 /\ decodeQ' = <<>> /\ decoder' = -1
  /\ jpg' = NewRing /\ bgr' = NewRing
  /\ UNCHANGED <<request_bgr, published, queue, publisher, wire, reader>>
-----------------------------------------------------------------------------
(* The subscriber thread.                                                  *)

\* A message, or None after 100 ms without one; with decoding, full() comes
\* before get_nowait() and put_nowait().
SubscriberPoll ==
  /\ subscriber = "poll"
  /\ LET x == IF wire # <<>> THEN Head(wire) ELSE 0 IN
       /\ jpg' = Write(jpg, x)
       /\ IF request_bgr /\ decodeQ # <<>>
          THEN subscriber' = "full" /\ pending' = x /\ UNCHANGED decodeQ
          ELSE decodeQ' = (IF request_bgr THEN <<x>> ELSE <<>>) /\ UNCHANGED <<subscriber, pending>>
  /\ wire' = <<>>
  /\ UNCHANGED <<client, request_bgr, published, queue, publisher, bgr, decoder, reader>>

\* queue.Empty, when the decoder was faster, ends the thread for good.
SubscriberReplace ==
  /\ subscriber = "full" /\ pending' = 0
  /\ \/ decodeQ # <<>> /\ decodeQ' = <<pending>> /\ subscriber' = "poll"
     \/ decodeQ = <<>> /\ subscriber' = "dead" /\ UNCHANGED decodeQ
  /\ UNCHANGED <<client, request_bgr, published, queue, publisher, wire, jpg, bgr, decoder, reader>>
-----------------------------------------------------------------------------
(* The decoder thread: None is passed over, so that the ring keeps the     *)
(* last image.                                                             *)

DecoderGet ==
  /\ decoder = -1 /\ decodeQ # <<>> /\ decodeQ' = <<>>
  /\ decoder' = IF Head(decodeQ) = 0 THEN -1 ELSE Head(decodeQ)
  /\ UNCHANGED <<client, request_bgr, published, queue, publisher, wire, jpg, bgr, subscriber, pending, reader>>

\* An image that cannot be decoded is written as None.
DecoderWrite ==
  /\ decoder # -1 /\ decoder' = -1
  /\ \E x \in {decoder, 0} : bgr' = Write(bgr, x)
  /\ UNCHANGED <<client, request_bgr, published, queue, publisher, wire, jpg, decodeQ, subscriber, pending, reader>>
-----------------------------------------------------------------------------
(* recv() in the main thread: each ring's slot is chosen under its lock    *)
(* and read after it.                                                      *)

Chosen(at, ring) == [at |-> at, want |-> Newest(ring), got |-> 0]
Got(at, ring) == [reader EXCEPT !.at = at, !.got = IF ring.read = -1 THEN 0 ELSE ring.buffer[ring.read]]

ChooseJpg ==
  /\ client = "run" /\ reader.at = "idle" /\ jpg' = Choose(jpg) /\ reader' = Chosen("jpg", jpg)
  /\ UNCHANGED <<client, request_bgr, published, queue, publisher, wire, bgr, decodeQ, subscriber, pending, decoder>>

ReadJpg ==
  /\ reader.at = "jpg" /\ reader' = Got("got_jpg", jpg)
  /\ UNCHANGED <<client, request_bgr, published, queue, publisher, wire, jpg, bgr, decodeQ, subscriber, pending, decoder>>

ChooseBgr ==
  /\ reader.at = "got_jpg" /\ request_bgr
  /\ bgr' = Choose(bgr) /\ reader' = Chosen("bgr", bgr)
  /\ UNCHANGED <<client, request_bgr, published, queue, publisher, wire, jpg, decodeQ, subscriber, pending, decoder>>

ReadBgr ==
  /\ reader.at = "bgr" /\ reader' = Got("got_bgr", bgr)
  /\ UNCHANGED <<client, request_bgr, published, queue, publisher, wire, jpg, bgr, decodeQ, subscriber, pending, decoder>>

Recv ==
  /\ reader.at = IF request_bgr THEN "got_bgr" ELSE "got_jpg"
  /\ reader' = [at |-> "idle", want |-> 0, got |-> 0]
  /\ UNCHANGED <<client, request_bgr, published, queue, publisher, wire, jpg, bgr, decodeQ, subscriber, pending, decoder>>

StreamNext ==
  \/ StartPublisher \/ Publish \/ PublisherSend \/ PublisherFails \/ ClosePublishers
  \/ RequestConfig \/ StartClient \/ CloseClient
  \/ SubscriberPoll \/ SubscriberReplace \/ DecoderGet \/ DecoderWrite
  \/ ChooseJpg \/ ReadJpg \/ ChooseBgr \/ ReadBgr \/ Recv
-----------------------------------------------------------------------------
\* The image read from a ring is the one that was the newest when its slot was
\* chosen, however many are written before it is read: the writer never takes the
\* slot being read (TripleRingBuffer).
ReadIsStable == reader.at \in {"got_jpg", "got_bgr"} => reader.got = reader.want
=============================================================================
