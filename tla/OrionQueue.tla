----------------------------- MODULE OrionQueue -----------------------------
(***************************************************************************)
(* Orion's persistent action queue and its executor:                       *)
(* guardianmesh/orion/queue.py and executor.py, with the retry and cancel  *)
(* commands of cli/commands.py and the start-up recovery of                *)
(* atlas/recovery.py that write the same table.                            *)
(*                                                                         *)
(* The orion_actions table is shared by processes that submit actions, an  *)
(* operator at the command line and the process that runs the executor.    *)
(* Each database access is a step.  The executor has one worker thread at  *)
(* a time as long as stop() waits for it; stop() gives up after its        *)
(* timeout, and a start() after that adds a thread, which is what a second *)
(* member of Workers stands for.                                           *)
(***************************************************************************)
EXTENDS Naturals, FiniteSets

CONSTANTS
  Actions,           \* actions that can be built, each with its own id
  Resubmitted,       \* those that carry one and the same idempotency key
  Kind,              \* the action_type each is built with
  Malformed,         \* those whose parameters name no target
  Subsystems,        \* the subsystems the host gave OrionActionHandlers
  Submitters,        \* processes that enqueue
  Workers,           \* threads the executor can come to have
  None,              \* no row, no action, no thread
  MaxSize,           \* max_size of the queue (10000 in the program)
  MaxRetries,        \* max_retries of an action (3 in the program)
  FailureCap,        \* max_consecutive_failures (32 in the program)
  MaxInterruptions   \* bound: crashes, stops and failed writes

OrionActionStatus == {"PENDING", "RUNNING", "SUCCEEDED", "FAILED", "EXPIRED", "CANCELLED"}

OrionActionType ==
  {"REFRESH_HEALTH", "REQUEST_HEALTH_SYNC", "ACKNOWLEDGE_ALERT", "RESOLVE_ALERT",
   "RECONNECT_TRANSPORT", "REQUEST_STATUS_SYNC", "REQUEST_SCREEN_SESSION",
   "STOP_SCREEN_SESSION", "REQUEST_AEGIS_CONSENT", "STOP_AEGIS_CAPTURE",
   "RECONCILE_STATE", "REQUEST_CAPABILITIES"}

ASSUME OrionAssumption ==
  /\ IsFiniteSet(Actions) /\ IsFiniteSet(Submitters)
  /\ Resubmitted \subseteq Actions
  /\ Kind \in [Actions -> OrionActionType]
  /\ Malformed \subseteq Actions
  /\ None \notin Actions \cup Workers \cup OrionActionStatus
  /\ MaxSize \in Nat \ {0}
  /\ MaxRetries \in Nat
  /\ FailureCap \in Nat \ {0}
  /\ MaxInterruptions \in Nat

VARIABLES
  row,            \* orion_actions.status, per action
  retries,        \* orion_actions.retry_count
  overdue,        \* actions whose expires_at has passed
  checked,        \* per submitter: the action whose checks went through
  cancelling,     \* the action the cancel command has looked at
  expiring,       \* rows the recovery has read as expired
  worker,         \* per thread: where it is, what it has listed, what it runs
  thread,         \* executor._thread
  stop,           \* executor._stop
  failures,       \* executor._consecutive_failures, counted up to FailureCap
  interruptions,  \* bound: how many interruptions there were
  runs,           \* history: calls of an action's handler
  effect          \* history: calls of it that returned

table == <<row, retries>>
control == <<thread, stop, failures>>
history == <<runs, effect>>
vars == <<table, overdue, checked, cancelling, expiring, worker, control,
          interruptions, history>>

Off == [at |-> "off", todo |-> {}, cur |-> None]
Waiting == [at |-> "idle", todo |-> {}, cur |-> None]

Rows == {a \in Actions : row[a] # None}

TypeOK ==
  /\ row \in [Actions -> OrionActionStatus \cup {None}]
  /\ retries \in [Actions -> 0 .. MaxRetries]
  /\ overdue \subseteq Actions
  /\ checked \in [Submitters -> Actions \cup {None}]
  /\ cancelling \in Actions \cup {None}
  /\ expiring \subseteq Actions
  /\ worker \in [Workers -> [at : {"off", "idle", "sweep", "batch", "run", "returned", "raised"},
                             todo : SUBSET Actions, cur : Actions \cup {None}]]
  /\ thread \in Workers \cup {None}
  /\ stop \in BOOLEAN
  /\ failures \in 0 .. FailureCap
  /\ interruptions \in 0 .. MaxInterruptions
  /\ runs \in [Actions -> Nat]
  /\ effect \in [Actions -> Nat]

Init ==
  /\ row = [a \in Actions |-> None]
  /\ retries = [a \in Actions |-> 0]
  /\ overdue = {}
  /\ checked = [p \in Submitters |-> None]
  /\ cancelling = None
  /\ expiring = {}
  /\ worker = [w \in Workers |-> Off]
  /\ thread = None
  /\ stop = FALSE
  /\ failures = 0
  /\ interruptions = 0
  /\ runs = [a \in Actions |-> 0]
  /\ effect = [a \in Actions |-> 0]

\* One more crash, stop or failed write.
Interrupt ==
  /\ interruptions < MaxInterruptions
  /\ interruptions' = interruptions + 1

\* _update_status: an unconditional write.
SetStatus(a, status) == row' = [row EXCEPT ![a] = status]

-----------------------------------------------------------------------------
(* Submitting: the queue's lock is one process's, the checks are reads.    *)

SameKey(a) == IF a \in Resubmitted THEN Resubmitted ELSE {a}

\* Mutant: off by one at the capacity.
RoomForOneMore == Cardinality(Rows) <= MaxSize

\* _enforce_size_limit does not raise.
Room == Cardinality(Rows) < MaxSize

\* build_action: a new id, PENDING, no retry yet and a deadline ahead; what
\* OrionAction refuses when it is built never reaches the queue.
Built(a) == row[a] = None /\ retries[a] = 0 /\ a \notin overdue

\* submit, up to enqueue's checks: the size limit and the idempotency key.
CheckEnqueue(p, a) ==
  /\ checked[p] = None
  /\ Built(a)
  /\ \A q \in Submitters : checked[q] # a
  /\ Room
  /\ SameKey(a) \cap Rows = {}
  /\ checked' = [checked EXCEPT ![p] = a]
  /\ UNCHANGED <<table, overdue, cancelling, expiring, worker, control, interruptions, history>>

\* The partial unique index on idempotency_key.
KeyIsFree(a) == SameKey(a) \cap Rows = {}

\* The INSERT, which raises when another process won.
Insert(p) ==
  /\ checked[p] # None
  /\ IF KeyIsFree(checked[p])
     THEN SetStatus(checked[p], "PENDING")
     ELSE UNCHANGED row
  /\ checked' = [checked EXCEPT ![p] = None]
  /\ UNCHANGED <<retries, overdue, cancelling, expiring, worker, control, interruptions, history>>

-----------------------------------------------------------------------------
(* The executor's thread.                                                  *)

Goto(w, place) == worker' = [worker EXCEPT ![w] = place]

\* Mutant: a sweep that passes over the rows left RUNNING.
DuePending(a) == row[a] = "PENDING" /\ a \in overdue

\* The rows sweep_expired and recover_orion_actions select.
Due(a) == row[a] \in {"PENDING", "RUNNING"} /\ a \in overdue

\* _drain_once: the SELECT of sweep_expired.
Sweep(w) ==
  /\ worker[w].at = "idle"
  /\ ~stop
  /\ Goto(w, [at |-> "sweep", todo |-> {a \in Actions : Due(a)}, cur |-> None])
  /\ UNCHANGED <<table, overdue, checked, cancelling, expiring, control, interruptions, history>>

SweepExpire(w, a) ==
  /\ worker[w].at = "sweep"
  /\ a \in worker[w].todo
  /\ SetStatus(a, "EXPIRED")
  /\ worker' = [worker EXCEPT ![w].todo = @ \ {a}]
  /\ UNCHANGED <<retries, overdue, checked, cancelling, expiring, control, interruptions, history>>

\* Mutant: what an earlier run left RUNNING is listed again.
RunnableAgain == {a \in Actions : row[a] \in {"PENDING", "RUNNING"}}

\* list_by_status("PENDING"); next_attempt_at plays no part.
Runnable == {a \in Actions : row[a] = "PENDING"}

ListRunnable(w) ==
  /\ worker[w].at = "sweep"
  /\ worker[w].todo = {}
  /\ Goto(w, [at |-> "batch", todo |-> Runnable, cur |-> None])
  /\ UNCHANGED <<table, overdue, checked, cancelling, expiring, control, interruptions, history>>

\* _execute_action starts with mark_running, whatever became of the action
\* since it was listed.
MarkRunning(w, a) ==
  /\ worker[w].at = "batch"
  /\ ~stop
  /\ a \in worker[w].todo
  /\ SetStatus(a, "RUNNING")
  /\ Goto(w, [at |-> "run", todo |-> worker[w].todo \ {a}, cur |-> a])
  /\ UNCHANGED <<retries, overdue, checked, cancelling, expiring, control, interruptions, history>>

EndBatch(w) ==
  /\ worker[w].at = "batch"
  /\ stop \/ worker[w].todo = {}
  /\ Goto(w, Waiting)
  /\ UNCHANGED <<table, overdue, checked, cancelling, expiring, control, interruptions, history>>

\* The subsystem a handler delegates to; None when it needs none.
Delegate(k) ==
  CASE k \in {"REFRESH_HEALTH", "REQUEST_HEALTH_SYNC"} -> "telemetry"
    [] k \in {"ACKNOWLEDGE_ALERT", "RESOLVE_ALERT"} -> "alerts"
    [] k = "RECONNECT_TRANSPORT" -> "transport"
    [] k \in {"REQUEST_SCREEN_SESSION", "STOP_SCREEN_SESSION"} -> "screen"
    [] k \in {"REQUEST_AEGIS_CONSENT", "STOP_AEGIS_CAPTURE"} -> "aegis"
    [] k = "RECONCILE_STATE" -> "reconciler"
    [] k = "REQUEST_CAPABILITIES" -> "capabilities"
    [] k = "REQUEST_STATUS_SYNC" -> None

\* The handlers that act on an alert or a session named in the parameters.
NamesTarget ==
  {"ACKNOWLEDGE_ALERT", "RESOLVE_ALERT", "STOP_SCREEN_SESSION",
   "REQUEST_AEGIS_CONSENT", "STOP_AEGIS_CAPTURE"}

\* The handler gets as far as its subsystem.  RECONNECT_TRANSPORT does not: it
\* asks for a method `reconnect`, which no transport client has.
Reaches(a) ==
  /\ Delegate(Kind[a]) \in Subsystems \cup {None}
  /\ Kind[a] # "RECONNECT_TRANSPORT"
  /\ Kind[a] \in NamesTarget => a \notin Malformed

\* The handlers that answer without calling the subsystem, so cannot fail then.
Answers(a) ==
  Kind[a] \in {"REFRESH_HEALTH", "REQUEST_HEALTH_SYNC", "REQUEST_STATUS_SYNC",
              "REQUEST_CAPABILITIES"}

\* Mutant: the handler is called without a look at the deadline.
AnyDeadline(a) == TRUE

\* not is_expired, asked by OrionActionHandlers.execute.
WithinDeadline(a) == a \notin overdue

\* The call came back, and execute recorded it (a failing audit is swallowed).
HandlerReturns(w) ==
  /\ Reaches(worker[w].cur)
  /\ effect' = [effect EXCEPT ![worker[w].cur] = @ + 1]
  /\ worker' = [worker EXCEPT ![w].at = "returned"]

\* The handler refused, or the subsystem raised.
HandlerRaises(w) ==
  /\ Reaches(worker[w].cur) => ~Answers(worker[w].cur)
  /\ worker' = [worker EXCEPT ![w].at = "raised"]
  /\ UNCHANGED effect

\* OrionActionHandlers.execute: the deadline, then the handler of the kind.
Execute(w) ==
  /\ worker[w].at = "run"
  /\ LET a == worker[w].cur IN
       \/ /\ WithinDeadline(a)
          /\ runs' = [runs EXCEPT ![a] = @ + 1]
          /\ HandlerReturns(w) \/ HandlerRaises(w)
       \/ /\ ~WithinDeadline(a)
          /\ worker' = [worker EXCEPT ![w].at = "raised"]
          /\ UNCHANGED history
  /\ UNCHANGED <<table, overdue, checked, cancelling, expiring, control, interruptions>>

MarkSucceeded(w) ==
  /\ worker[w].at = "returned"
  /\ SetStatus(worker[w].cur, "SUCCEEDED")
  /\ failures' = 0
  /\ Goto(w, [worker[w] EXCEPT !.at = "batch", !.cur = None])
  /\ UNCHANGED <<retries, overdue, checked, cancelling, expiring, thread, stop, interruptions, history>>

\* Mutant: a retry that is not counted.
Counted(n) == n

\* What mark_failed writes as retry_count.
CountedOnce(n) == n + 1

CanRetry(a) == retries[a] < MaxRetries

\* mark_failed.  It looks at retry_count alone, never at the status.
MarkFailed(w) ==
  /\ worker[w].at = "raised"
  /\ LET a == worker[w].cur IN
       IF CanRetry(a) /\ failures < FailureCap
       THEN /\ SetStatus(a, "PENDING")
            /\ retries' = [retries EXCEPT ![a] = CountedOnce(@)]
       ELSE SetStatus(a, "FAILED") /\ UNCHANGED retries
  /\ failures' = IF failures < FailureCap THEN failures + 1 ELSE failures
  /\ Goto(w, [worker[w] EXCEPT !.at = "batch", !.cur = None])
  /\ UNCHANGED <<overdue, checked, cancelling, expiring, thread, stop, interruptions, history>>

\* A write of the thread raises: mark_running's skips the action,
\* mark_succeeded's is swallowed, any other ends the drain.
WriteFails(w) ==
  /\ Interrupt
  /\ \/ /\ worker[w].at = "batch" /\ ~stop
        /\ \E a \in worker[w].todo : worker' = [worker EXCEPT ![w].todo = @ \ {a}]
        /\ UNCHANGED failures
     \/ /\ worker[w].at = "returned"
        /\ Goto(w, [worker[w] EXCEPT !.at = "batch", !.cur = None])
        /\ failures' = 0
     \/ /\ worker[w].at \in {"sweep", "raised"}
        /\ Goto(w, Waiting)
        /\ UNCHANGED failures
  /\ UNCHANGED <<table, overdue, checked, cancelling, expiring, thread, stop, history>>

\* _run leaves its loop.
ThreadEnds(w) ==
  /\ worker[w].at = "idle"
  /\ stop
  /\ Goto(w, Off)
  /\ UNCHANGED <<table, overdue, checked, cancelling, expiring, control, interruptions, history>>

-----------------------------------------------------------------------------
(* Starting and stopping.                                                  *)

Start ==
  /\ thread = None
  /\ \E w \in Workers :
       /\ worker[w] = Off
       /\ thread' = w
       /\ Goto(w, Waiting)
  /\ stop' = FALSE
  /\ UNCHANGED <<table, overdue, checked, cancelling, expiring, failures, interruptions, history>>

\* stop() up to the join.  With drain=True it lists the queue once more, but the
\* event is set by then and nothing is executed.
Stop ==
  /\ Interrupt
  /\ thread # None
  /\ ~stop
  /\ stop' = TRUE
  /\ UNCHANGED <<table, overdue, checked, cancelling, expiring, worker, thread, failures, history>>

\* The join returns because the thread ended, or gives up after its timeout; the
\* executor forgets the thread either way.
StopReturns ==
  /\ thread # None
  /\ stop
  /\ thread' = None
  /\ UNCHANGED <<table, overdue, checked, cancelling, expiring, worker, stop, failures,
                 interruptions, history>>

\* The executor's process dies.
Crash ==
  /\ Interrupt
  /\ worker' = [w \in Workers |-> Off]
  /\ thread' = None
  /\ stop' = FALSE
  /\ failures' = 0
  /\ UNCHANGED <<table, overdue, checked, cancelling, expiring, history>>

-----------------------------------------------------------------------------
(* The operator, the recovery, and time.                                   *)

\* cmd_orchestrate "cancel" reads the status, then writes.
CheckCancel(a) ==
  /\ cancelling = None
  /\ row[a] \in {"PENDING", "RUNNING", "FAILED"}
  /\ cancelling' = a
  /\ UNCHANGED <<table, overdue, checked, expiring, worker, control, interruptions, history>>

MarkCancelled ==
  /\ cancelling # None
  /\ SetStatus(cancelling, "CANCELLED")
  /\ cancelling' = None
  /\ UNCHANGED <<retries, overdue, checked, expiring, worker, control, interruptions, history>>

\* cmd_orchestrate "retry" marks any action RUNNING.
Retry(a) ==
  /\ row[a] # None
  /\ SetStatus(a, "RUNNING")
  /\ UNCHANGED <<retries, overdue, checked, cancelling, expiring, worker, control,
                 interruptions, history>>

\* recover_orion_actions, and stop(drain=True): the rows that are due.
RecoverSelect ==
  /\ expiring = {}
  /\ expiring' = {a \in Actions : Due(a)}
  /\ UNCHANGED <<table, overdue, checked, cancelling, worker, control, interruptions, history>>

RecoverExpire(a) ==
  /\ a \in expiring
  /\ SetStatus(a, "EXPIRED")
  /\ expiring' = expiring \ {a}
  /\ UNCHANGED <<retries, overdue, checked, cancelling, worker, control, interruptions, history>>

Deadline(a) ==
  /\ row[a] # None
  /\ a \notin overdue
  /\ overdue' = overdue \cup {a}
  /\ UNCHANGED <<table, checked, cancelling, expiring, worker, control, interruptions, history>>

-----------------------------------------------------------------------------
WorkerStep(w) ==
  \/ Sweep(w)
  \/ ListRunnable(w)
  \/ EndBatch(w)
  \/ Execute(w)
  \/ MarkSucceeded(w)
  \/ MarkFailed(w)
  \/ ThreadEnds(w)
  \/ \E a \in Actions : SweepExpire(w, a) \/ MarkRunning(w, a)

\* What the processes that submit, the executor and the clock do.
ExecutorNext ==
  \/ \E p \in Submitters, a \in Actions : CheckEnqueue(p, a)
  \/ \E p \in Submitters : Insert(p)
  \/ \E w \in Workers : WorkerStep(w) \/ WriteFails(w)
  \/ Start \/ Stop \/ StopReturns \/ Crash
  \/ \E a \in Actions : Deadline(a)

\* What the command line and the recovery do.
CommandNext ==
  \/ \E a \in Actions : CheckCancel(a) \/ Retry(a) \/ RecoverExpire(a)
  \/ MarkCancelled \/ RecoverSelect

Next == ExecutorNext \/ CommandNext

Spec == Init /\ [][Next]_vars

\* The executor left to itself: no command, no recovery.
Unattended == Init /\ [][ExecutorNext]_vars

\* The host keeps the executor started, the operating system runs its thread,
\* handlers return, and the clock advances.
Fairness ==
  /\ WF_vars(Start)
  /\ WF_vars(StopReturns)
  /\ \A w \in Workers : WF_vars(WorkerStep(w))
  /\ \A a \in Actions : WF_vars(Deadline(a))

FairSpec == Unattended /\ Fairness

-----------------------------------------------------------------------------
(* Properties of an executor whose stop() outlasts its thread.             *)

\* docs/ACTIONS.md 76: a logical action is executed at most once even if it is
\* submitted several times.  With one thread this survives crashes at any point,
\* lost status writes, racing submitters, and cancels, retries and recoveries in
\* between (queue.py 68-110, executor.py 95-135).
ExecutedAtMostOnce ==
  /\ \A a \in Actions : effect[a] <= 1
  /\ Cardinality({a \in Resubmitted : effect[a] > 0}) <= 1

\* max_retries bounds the calls of a handler: a crash, a retry command or a
\* cancel never buys an action another attempt (queue.py 187-219).
RunsAreBounded == \A a \in Actions : runs[a] <= MaxRetries + 1

\* An action whose row says EXPIRED is never executed, although the thread may
\* have listed it before it expired and a command may have moved it since
\* (queue.py 269-284, handlers.py 68).
ExpiredNeverRuns ==
  [][\A a \in Actions : row[a] = "EXPIRED" => runs'[a] = runs[a]]_vars

\* The size limit is checked before and apart from the INSERT; each process that
\* submits can overshoot it by no more than one row (queue.py 68, 121-127).
QueueIsBounded == Cardinality(Rows) <= MaxSize + Cardinality(Submitters) - 1

\* Every accepted action is settled in the end: what a crash or a lost write leaves
\* RUNNING is not executed again, but it expires.
Settled == {"SUCCEEDED", "FAILED", "EXPIRED", "CANCELLED"}

EverythingSettles == \A a \in Actions : row[a] # None ~> row[a] \in Settled

-----------------------------------------------------------------------------
(* Left to itself the executor keeps the promise of OrionPromise.          *)

Promise == INSTANCE OrionPromise WITH
  phase <- [a \in Actions |->
              IF row[a] = None THEN "none" ELSE IF row[a] \in Settled THEN "settled" ELSE "open"],
  effect <- effect

\* An action takes effect once at most, only while it is open, and never
\* reopens: one thread, its sweeps, retries, crashes and lost writes.
KeepsOrionPromise == Promise!Spec

=============================================================================
