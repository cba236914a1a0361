------------------------------ MODULE OrionBus ------------------------------
(***************************************************************************)
(* OrionEventBus (guardianmesh/orion/bus.py) under the life cycle that     *)
(* OrionScheduler and OrionCoordinator (orion/scheduler.py,                *)
(* orion/coordinator.py) give it.  Publishing takes the lock of the bus;   *)
(* delivery runs the handlers outside of it, on the worker's thread, on    *)
(* the one that stops the bus and, in deterministic mode, on the           *)
(* publisher's.  The counters of the metrics are not part of the state.    *)
(***************************************************************************)
EXTENDS Naturals, Sequences, FiniteSets, SequencesExt

CONSTANTS
  MaxEvents,      \* bound: events, numbered as they are first published
  MaxDevice,      \* bound: the devices 1, 2, ... in the order of their ids
  Handlers,       \* bound: the handlers that may be registered
  BusWorkers,     \* bound: the worker threads alive at once
  MaxQueueSize,   \* max_queue_size (1024 in the program)
  MaxBusRetries   \* max_retries (3 in the program)

ASSUME BusAssumption ==
  /\ {MaxEvents, MaxDevice, MaxBusRetries} \subseteq Nat
  /\ MaxQueueSize \in Nat \ {0}
  /\ IsFiniteSet(BusWorkers) /\ BusWorkers \cap {"control", "publisher"} = {}

Events  == 1 .. MaxEvents
Devices == 1 .. MaxDevice

BackpressureStrategy == {"DROP_OLDEST", "DROP_NEWEST", "REJECT"}

\* The thread that stops the bus, under the scheduler's lock, and the one that
\* publishes in deterministic mode deliver events like a worker.
Threads == BusWorkers \cup {"control", "publisher"}

VARIABLES
  deterministic,  \* the mode of this bus
  backpressure,   \* its strategy
  queue,          \* _queue
  handlers,       \* _handlers
  seen,           \* _seen_event_ids
  event,          \* device and sequence of each event that was published
  perDevice,      \* _per_device_sequences
  retryCounts,    \* _retry_counts
  busWorker,      \* _worker, "none" unless _worker_alive
  stopping,       \* _stop_event
  wake,           \* _wake_event
  busThread,      \* what each thread is at
  made,           \* history: per event, the copies queued or delivered directly
  rounds,         \* history: per event, the deliveries begun
  lost,           \* history: per event, the copies given up for want of room
  failed,         \* history: events some handler failed on
  order,          \* history: the events in the order of their first delivery
  together        \* history: two threads have been delivering at once

config == <<deterministic, backpressure>>
published == <<seen, event, perDevice>>
lifecycle == <<busWorker, stopping>>
busHistory == <<made, rounds, lost, failed, order, together>>
busVars == <<config, queue, handlers, published, retryCounts, lifecycle, wake, busThread,
             busHistory>>

\* A thread: its place, the rest of its snapshot, the handlers that the head of the
\* snapshot has still to go to, and the attempts it read.
Thread ==
  [at : {"off", "top", "wait", "take", "deliver", "call", "failed", "requeue", "join"},
   batch : Seq(Events), todo : Seq(Handlers), tries : Nat]

BusOff == [at |-> "off", batch |-> <<>>, todo |-> <<>>, tries |-> 0]

Unpublished == [device |-> 0, sequence |-> 0]

BusTypeOK ==
  /\ deterministic \in BOOLEAN
  /\ backpressure \in BackpressureStrategy
  /\ queue \in Seq(Events) /\ Len(queue) <= MaxQueueSize
  /\ handlers \in Seq(Handlers)
  /\ seen \subseteq Events
  /\ event \in [Events -> [device : Devices \cup {0}, sequence : Nat]]
  /\ perDevice \in [Devices -> Nat]
  /\ retryCounts \in [Events -> Nat]
  /\ busWorker \in BusWorkers \cup {"none"}
  /\ stopping \in BOOLEAN /\ wake \in BOOLEAN /\ together \in BOOLEAN
  /\ busThread \in [Threads -> Thread]
  /\ made \in [Events -> Nat] /\ rounds \in [Events -> Nat] /\ lost \in [Events -> Nat]
  /\ failed \subseteq Events
  /\ order \in Seq(Events)

BusInit ==
  /\ deterministic \in BOOLEAN
  /\ backpressure \in BackpressureStrategy
  /\ queue = <<>>
  /\ handlers = <<>>
  /\ seen = {}
  /\ event = [e \in Events |-> Unpublished]
  /\ perDevice = [d \in Devices |-> 0]
  /\ retryCounts = [e \in Events |-> 0]
  /\ busWorker = "none"
  /\ stopping = FALSE
  /\ wake = FALSE
  /\ busThread = [t \in Threads |-> BusOff]
  /\ made = [e \in Events |-> 0]
  /\ rounds = [e \in Events |-> 0]
  /\ lost = [e \in Events |-> 0]
  /\ failed = {}
  /\ order = <<>>
  /\ together = FALSE

-----------------------------------------------------------------------------
At(t, place) == busThread[t].at = place
BusGoto(t, place) == busThread' = [busThread EXCEPT ![t].at = place]
Full == Len(queue) >= MaxQueueSize

\* register_handler.
RegisterHandler(h) ==
  /\ h \notin Range(handlers)
  /\ handlers' = Append(handlers, h)
  /\ UNCHANGED <<config, queue, published, retryCounts, lifecycle, wake, busThread, busHistory>>

\* unregister_handler; clear_handlers is several of them at once.
UnregisterHandler(h) ==
  /\ \E i \in DOMAIN handlers : handlers[i] = h /\ handlers' = RemoveAt(handlers, i)
  /\ UNCHANGED <<config, queue, published, retryCounts, lifecycle, wake, busThread, busHistory>>

-----------------------------------------------------------------------------
\* Thread t takes on the events b, to deliver one after the other.
TakesOn(t, b) ==
  /\ busThread' = [busThread EXCEPT ![t].batch = b, ![t].at = "deliver"]
  /\ together' = (together \/ \E u \in Threads \ {t} : busThread[u].batch # <<>>)

\* publish returns at once: the id is known.
Duplicate(e) == e \in seen

\* Mutant: the number is read, and the lock taken for the increment alone.
SameSequence(d) == perDevice[d]

NextSequence(d) == perDevice[d] + 1

\* What popleft leaves if the queue is full, and what it costs.
Evicted == IF Full THEN Tail(queue) ELSE queue
LostOldest == IF Full THEN [lost EXCEPT ![Head(queue)] = @ + 1] ELSE lost

\* The strategy gives up the new event instead of the oldest.
Refused == Full /\ backpressure # "DROP_OLDEST"

\* publish, for an event of device d: the next number of the device is taken even if
\* the event is refused.  In deterministic mode the caller delivers the event and it
\* stays in the queue all the same.
Publish(e, d) ==
  /\ ~Duplicate(e)
  /\ deterministic => At("publisher", "off")
  /\ seen' = seen \cup {e}
  /\ perDevice' = [perDevice EXCEPT ![d] = NextSequence(d)]
  /\ event' = [event EXCEPT ![e] = [device |-> d, sequence |-> NextSequence(d)]]
  /\ IF Refused
     THEN UNCHANGED <<queue, lost, made, busThread, together, wake>>
     ELSE /\ queue' = Append(Evicted, e)
          /\ lost' = LostOldest
          /\ made' = [made EXCEPT ![e] = @ + IF deterministic THEN 2 ELSE 1]
          /\ IF deterministic
             THEN TakesOn("publisher", <<e>>) /\ UNCHANGED wake
             ELSE wake' = TRUE /\ UNCHANGED <<busThread, together>>
  /\ UNCHANGED <<config, handlers, retryCounts, lifecycle, rounds, failed, order>>

-----------------------------------------------------------------------------
\* Where a thread goes on when it has delivered all it had.
Home(t) == CASE t \in BusWorkers -> "top"
             [] t = "control" -> "join"
             [] t = "publisher" -> "off"

\* Mutant: the queue is copied and not cleared.
CopiedQueue == queue

\* What deliver_pending leaves in the queue.
ClearedQueue == <<>>

\* The order of delivery within one snapshot.
Earlier(e, f) ==
  \/ event[e].device < event[f].device
  \/ event[e].device = event[f].device /\ event[e].sequence < event[f].sequence

\* What the sort makes of the snapshot s: the same events, none before an earlier one.
\* Those that compare equal are copies of one event.
Sorted(s) ==
  {q \in {[i \in DOMAIN s |-> s[p[i]]] : p \in Bijection(DOMAIN s, DOMAIN s)} :
     \A i, j \in DOMAIN s : i < j => ~Earlier(q[j], q[i])}

\* deliver_pending: the snapshot, under the lock.
Take(t) ==
  /\ At(t, "take")
  /\ queue' = ClearedQueue
  /\ IF queue = <<>> THEN BusGoto(t, Home(t)) /\ UNCHANGED together
                     ELSE \E q \in Sorted(queue) : TakesOn(t, q)
  /\ UNCHANGED <<config, handlers, published, retryCounts, lifecycle, wake,
                 made, rounds, lost, failed, order>>

\* The next event of thread t, or its way home.
NextEvent(t) ==
  LET rest == Tail(busThread[t].batch) IN
  [at |-> IF rest = <<>> THEN Home(t) ELSE "deliver", batch |-> rest, todo |-> <<>>, tries |-> 0]

\* The next handler of the event that thread t delivers, or the next event.
NextHandler(t) ==
  IF Len(busThread[t].todo) = 1 THEN NextEvent(t)
  ELSE [busThread[t] EXCEPT !.at = "call", !.todo = Tail(@), !.tries = 0]

\* _deliver_one: the handlers of this moment are called one after the other.
Deliver(t) ==
  LET e == Head(busThread[t].batch) IN
  /\ At(t, "deliver")
  /\ busThread' = [busThread EXCEPT ![t] =
       IF handlers = <<>> THEN NextEvent(t) ELSE [@ EXCEPT !.at = "call", !.todo = handlers]]
  /\ rounds' = [rounds EXCEPT ![e] = @ + 1]
  /\ order' = IF e \in Range(order) THEN order ELSE Append(order, e)
  /\ UNCHANGED <<config, queue, handlers, published, retryCounts, lifecycle, wake,
                 made, lost, failed, together>>

DeliveryReturns(t) ==
  /\ At(t, "call")
  /\ busThread' = [busThread EXCEPT ![t] = NextHandler(t)]
  /\ UNCHANGED <<config, queue, handlers, published, retryCounts, lifecycle, wake, busHistory>>

\* The handler raises, and the attempts are read, without the lock.
DeliveryFails(t) ==
  LET e == Head(busThread[t].batch) IN
  /\ At(t, "call")
  /\ busThread' = [busThread EXCEPT ![t].at = "failed", ![t].tries = retryCounts[e]]
  /\ failed' = failed \cup {e}
  /\ UNCHANGED <<config, queue, handlers, published, retryCounts, lifecycle, wake,
                 made, rounds, lost, order, together>>

\* Mutant: one retry too many.
OneRetryMore(t) == busThread[t].tries <= MaxBusRetries

RetriesLeft(t) == busThread[t].tries < MaxBusRetries

\* The attempts are written back, or the event is given up.
WriteAttempts(t) ==
  LET e == Head(busThread[t].batch) IN
  /\ At(t, "failed")
  /\ IF RetriesLeft(t)
     THEN /\ retryCounts' = [retryCounts EXCEPT ![e] = busThread[t].tries + 1]
          /\ BusGoto(t, "requeue")
     ELSE /\ busThread' = [busThread EXCEPT ![t] = NextHandler(t)]
          /\ UNCHANGED retryCounts
  /\ UNCHANGED <<config, queue, handlers, published, lifecycle, wake, busHistory>>

\* _enqueue_for_retry, under the lock; nothing wakes the worker.
Requeue(t) ==
  LET e == Head(busThread[t].batch) IN
  /\ At(t, "requeue")
  /\ IF Refused THEN UNCHANGED <<queue, made, lost>>
     ELSE /\ queue' = Append(Evicted, e)
          /\ lost' = LostOldest
          /\ made' = [made EXCEPT ![e] = @ + 1]
  /\ busThread' = [busThread EXCEPT ![t] = NextHandler(t)]
  /\ UNCHANGED <<config, handlers, published, retryCounts, lifecycle, wake,
                 rounds, failed, order, together>>

-----------------------------------------------------------------------------
\* The lock that OrionScheduler holds while it starts or stops the bus is free.
LockFree == At("control", "off")

\* OrionEventBus.start: a thread that an earlier stop waited for in vain is told no
\* more to end.
StartBus(w) ==
  /\ At(w, "off")
  /\ busWorker' = w
  /\ stopping' = FALSE
  /\ BusGoto(w, "top")
  /\ UNCHANGED <<config, queue, handlers, published, retryCounts, wake, busHistory>>

\* _run ends its loop.
LoopEnds(w) == stopping

\* _run: the look at the stop event.
LoopTop(w) ==
  /\ At(w, "top")
  /\ BusGoto(w, IF LoopEnds(w) THEN "off" ELSE "wait")
  /\ UNCHANGED <<config, queue, handlers, published, retryCounts, lifecycle, wake, busHistory>>

\* Mutant: the worker sleeps until it is woken.
WaitsForWake == wake

\* _run: the wait for the wake event returns after half a second at the latest.
WaitReturns == TRUE

Wait(w) ==
  /\ At(w, "wait")
  /\ WaitReturns
  /\ wake' = FALSE
  /\ BusGoto(w, "take")
  /\ UNCHANGED <<config, queue, handlers, published, retryCounts, lifecycle, busHistory>>

\* OrionEventBus.stop.
StopBus(drain) ==
  /\ stopping' = TRUE
  /\ wake' = TRUE
  /\ BusGoto("control", IF drain THEN "take" ELSE "join")
  /\ UNCHANGED <<config, queue, handlers, published, retryCounts, busWorker, busHistory>>

\* The join returns when the worker has ended or the time is up.
Join ==
  /\ At("control", "join")
  /\ busWorker' = "none"
  /\ BusGoto("control", "off")
  /\ UNCHANGED <<config, queue, handlers, published, retryCounts, stopping, wake, busHistory>>

\* OrionCoordinator.start and stop look at _running, which says what _worker does.
CoordinatorStart(w) == LockFree /\ busWorker = "none" /\ StartBus(w)
CoordinatorStop(drain) == LockFree /\ busWorker # "none" /\ StopBus(drain)

DeliveryStep(t) ==
  Take(t) \/ Deliver(t) \/ DeliveryReturns(t) \/ DeliveryFails(t) \/ WriteAttempts(t) \/ Requeue(t)

ThreadStep(t) ==
  \/ DeliveryStep(t)
  \/ t \in BusWorkers /\ (LoopTop(t) \/ Wait(t))
  \/ t = "control" /\ Join

BusNext ==
  \/ \E h \in Handlers : RegisterHandler(h) \/ UnregisterHandler(h)
  \/ \E e \in Events, d \in Devices : e <= Cardinality(seen) + 1 /\ Publish(e, d)
  \/ \E t \in Threads : ThreadStep(t)
  \/ \E w \in BusWorkers : CoordinatorStart(w)
  \/ \E drain \in BOOLEAN : CoordinatorStop(drain)

\* The operating system runs the threads, and handlers return.
BusFairness == \A t \in Threads : WF_busVars(ThreadStep(t))

BusSpec == BusInit /\ [][BusNext]_busVars /\ BusFairness

-----------------------------------------------------------------------------
\* Deliveries of e still to begin: in the queue and in the snapshots.
Copies(e, s) == {i \in DOMAIN s : s[i] = e}
Pending(t) == IF busThread[t].todo = <<>> THEN busThread[t].batch ELSE Tail(busThread[t].batch)
InHand(e) == UNION {{t} \X Copies(e, Pending(t)) : t \in Threads}
Outstanding(e) == Cardinality(Copies(e, queue)) + Cardinality(InHand(e))

\* Whatever retries, evictions, stops and a second thread came in between, each copy
\* of an event that entered the queue is delivered once, waits, or was evicted: the
\* snapshot and the clearing of the queue are one (bus.py 148-262).
CopiesAreAccountedFor ==
  \A e \in Events : made[e] = rounds[e] + lost[e] + Outstanding(e)

\* Deliveries of an event that no handler failed on: in deterministic mode the caller
\* makes one and the worker another.
Planned == IF deterministic THEN 2 ELSE 1

\* bus.py 22, 24: an event id is delivered at most once, and one that some handler
\* fails on max_retries times more, by all its handlers together; only two threads that
\* deliver it at once may count one retry for two.
DeliveriesAreBounded ==
  \A e \in Events :
    /\ e \notin failed => rounds[e] <= Planned
    /\ ~together => rounds[e] <= Planned + MaxBusRetries

\* bus.py 26: the events of a device are first delivered in the order of their
\* numbers, as long as no stop, and no worker that outlived one, delivers beside the
\* worker.
FirstDeliveriesInOrder ==
  ~together =>
    \A i, j \in DOMAIN order :
      i < j /\ event[order[i]].device = event[order[j]].device
        => event[order[i]].sequence < event[order[j]].sequence

\* What waits in the queue of a running bus leaves it, also if nothing wakes the
\* worker.
QueueDrains ==
  \A e \in Events : e \in Range(queue) ~> (e \notin Range(queue) \/ busWorker = "none")
=============================================================================
