---------------------------- MODULE FrameBuffer ----------------------------
(***************************************************************************)
(* The frame path of one screen session: FrameSequenceTracker and          *)
(* FrameStreamBuffer of guardianmesh/screen/frames.py over the             *)
(* BoundedFrameQueue of guardianmesh/screen/models.py.                     *)
(*                                                                         *)
(* Frames are their sequence numbers; the link may lose, repeat and        *)
(* reorder them, so any number may arrive at any time.  The lock of the    *)
(* session makes an ingest one step.  A buffer is cleared once, when its   *)
(* session ends, and the session takes no frame after that.                *)
(***************************************************************************)
EXTENDS Naturals, Sequences, SequencesExt

CONSTANTS
  MaxSequence,   \* bound: sequence numbers that can arrive
  WindowSize,    \* FrameSequenceTracker's window_size (128 in the program)
  MaxSize        \* max_queue_size (30 in the program)

ASSUME BufferAssumption ==
  /\ MaxSequence \in Nat
  /\ WindowSize \in Nat \ {0}
  /\ MaxSize \in Nat \ {0}

BackpressureStrategy == {"DROP_OLDEST", "DROP_NEWEST", "BLOCK"}

VARIABLES
  strategy,    \* the backpressure strategy of this session
  last,        \* tracker: _last_sequence
  seen,        \* tracker: _seen
  queue,       \* queue: _items
  dropped,     \* queue: _dropped
  closed,      \* the session ended and cleared the buffer
  accepted,    \* history: the frames the tracker let through, in order
  delivered    \* history: the frames handed to the viewer, in order

vars == <<strategy, last, seen, queue, dropped, closed, accepted, delivered>>

Frames == 1 .. MaxSequence

TypeOK ==
  /\ strategy \in BackpressureStrategy
  /\ last \in Nat
  /\ seen \subseteq Frames
  /\ queue \in Seq(Frames) /\ Len(queue) <= MaxSize
  /\ dropped \in Nat
  /\ closed \in BOOLEAN
  /\ accepted \in Seq(Frames)
  /\ delivered \in Seq(Frames)

Init ==
  /\ strategy \in BackpressureStrategy
  /\ last = 0
  /\ seen = {}
  /\ queue = <<>>
  /\ dropped = 0
  /\ closed = FALSE
  /\ accepted = <<>>
  /\ delivered = <<>>

\* Mutant: the window alone, without the set of numbers already seen.
AcceptsInWindow(n) == n > 0 /\ n + WindowSize >= last

\* FrameSequenceTracker.accept returns instead of raising.
Accepts(n) == n > 0 /\ n \notin seen /\ n + WindowSize >= last

Room == Len(queue) < MaxSize

\* Mutant: the queue is emptied to make room.
MakeRoomForAll == <<>>

\* What DROP_OLDEST, and BLOCK like it, leave of a full queue.
MakeRoom == Tail(queue)

\* BoundedFrameQueue.push.
Push(n) ==
  \/ /\ Room
     /\ queue' = Append(queue, n)
     /\ UNCHANGED dropped
  \/ /\ ~Room
     /\ queue' = IF strategy = "DROP_NEWEST" THEN queue ELSE Append(MakeRoom, n)
     /\ dropped' = dropped + 1

\* FrameStreamBuffer.ingest of a frame that passes validation.
Ingest(n) ==
  /\ ~closed
  /\ Accepts(n)
  /\ seen' = seen \cup {n}
  /\ last' = IF n > last THEN n ELSE last
  /\ Push(n)
  /\ accepted' = Append(accepted, n)
  /\ UNCHANGED <<strategy, closed, delivered>>

Pop ==
  /\ queue # <<>>
  /\ queue' = Tail(queue)
  /\ delivered' = Append(delivered, Head(queue))
  /\ UNCHANGED <<strategy, last, seen, dropped, closed, accepted>>

Drain ==
  /\ queue # <<>>
  /\ queue' = <<>>
  /\ delivered' = delivered \o queue
  /\ UNCHANGED <<strategy, last, seen, dropped, closed, accepted>>

\* FrameStreamBuffer.clear, from the session's stop, expire or revoke.
Clear ==
  /\ ~closed
  /\ closed' = TRUE
  /\ queue' = <<>>
  /\ last' = 0
  /\ seen' = {}
  /\ UNCHANGED <<strategy, dropped, accepted, delivered>>

Next == (\E n \in 0 .. MaxSequence : Ingest(n)) \/ Pop \/ Drain \/ Clear

Spec == Init /\ [][Next]_vars

-----------------------------------------------------------------------------
\* What the viewer has got or will get.
Outgoing == delivered \o queue

Arrival(n) == CHOOSE i \in DOMAIN accepted : accepted[i] = n

\* The viewer gets each frame at most once and in the order of arrival, whatever
\* was repeated on the link, dropped from the queue or drained in between
\* (frames.py 58-82, 187-207).
EachOnceInOrder ==
  \A i, j \in DOMAIN Outgoing :
    i < j => Arrival(Outgoing[i]) < Arrival(Outgoing[j])

\* Every frame that got past the tracker was delivered, waits, or is counted as
\* dropped (models.py 691-715), until the session's end throws the rest away.
FramesAreAccountedFor ==
  ~closed => Len(accepted) = Len(Outgoing) + dropped

\* A slow viewer loses the oldest frames, never the newest, unless the session
\* asked for DROP_NEWEST (models.py 701-715).
NewestFramesWait ==
  (~closed /\ strategy # "DROP_NEWEST") => IsSuffix(queue, accepted)
=============================================================================
