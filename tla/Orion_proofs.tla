---------------------------- MODULE Orion_proofs ----------------------------
(***************************************************************************)
(* Proofs about OrionQueue, for any number of actions, submitters, retries *)
(* and interruptions, and about OrionBus, for any number of events,        *)
(* devices, handlers, workers and retries and any capacity.  The types of  *)
(* the executor, its expired actions and the size limit of its queue are   *)
(* safe with any number of threads; the rest holds as long as it has one,  *)
(* that is, as long as stop() outlasts it.                                 *)
(*                                                                         *)
(* IInv: what a thread of the executor has listed it has not run yet.      *)
(* SharedInv: the part of IInv that no second thread can disturb.          *)
(* Far: how far an action is, which only a counted retry takes back.       *)
(* Accounted: the copies of an event are delivered, lost or outstanding.   *)
(* OrderInv: what waits for its first delivery comes after all that was    *)
(*   delivered, and what was taken for it before what came since.          *)
(* MadeInv: with one thread delivering, the retry count pays for every     *)
(*   copy of an event after the first.                                     *)
(* PlaceRank: what a thread has left of a delivery, which every step makes *)
(*   less.                                                                 *)
(***************************************************************************)
EXTENDS OrionQueue, OrionBus, FiniteSetTheorems, SequenceTheorems, WellFoundedInduction, TLAPS

OneThread == \A v, w \in Workers : v = w

WorkerType ==
  [at : {"off", "idle", "sweep", "batch", "run", "returned", "raised"},
   todo : SUBSET Actions, cur : Actions \cup {None}]

\* An action whose handler has not come back yet, and has been called once at most per
\* retry so far.
Untaken(a) == effect[a] = 0 /\ runs[a] <= retries[a]

Counts ==
  \A a \in Actions :
    /\ effect[a] <= 1
    /\ runs[a] <= retries[a] + 1
    /\ row[a] \in {None, "PENDING"} => Untaken(a)
    /\ row[a] = "EXPIRED" => a \in overdue

\* Of the actions that share a key one is accepted.
OneOfAKey ==
  \A a, b \in Resubmitted : row[a] # None /\ row[b] # None => a = b

Busy(w) == worker[w].at \in {"run", "returned", "raised"}

\* What the thread has listed it has not run yet, and what it runs it has not recorded.
ListInv ==
  \A w \in Workers :
    /\ worker[w].at = "sweep" => worker[w].todo \subseteq overdue
    /\ worker[w].at = "batch" \/ Busy(w) => \A a \in worker[w].todo : Untaken(a)
    /\ worker[w].at # "idle" => \A a \in worker[w].todo : row[a] # None
    /\ Busy(w) => /\ worker[w].cur \in Actions \ worker[w].todo
                  /\ row[worker[w].cur] \notin {None, "PENDING"}
    /\ worker[w].at = "run" => Untaken(worker[w].cur)
    /\ worker[w].at = "raised" => effect[worker[w].cur] = 0

Commands ==
  /\ cancelling # None => row[cancelling] # None
  /\ \A a \in expiring : row[a] # None /\ a \in overdue

IInv == TypeOK /\ Counts /\ OneOfAKey /\ ListInv /\ Commands

-----------------------------------------------------------------------------
LEMMA OffIsTyped == Off \in WorkerType /\ Off.at = "off" /\ Off.todo = {}
BY DEF Off, WorkerType

LEMMA WaitingIsTyped == Waiting \in WorkerType /\ Waiting.at = "idle" /\ Waiting.todo = {}
BY DEF Waiting, WorkerType

LEMMA NoneIsNoStatus ==
  /\ None \notin OrionActionStatus /\ None \notin Actions
  /\ None \notin {"PENDING", "RUNNING", "SUCCEEDED", "FAILED", "EXPIRED", "CANCELLED"}
BY OrionAssumption DEF OrionActionStatus

LEMMA InitHolds == Init => IInv
<1> SUFFICES ASSUME Init PROVE IInv
  OBVIOUS
<1>1. worker \in [Workers -> WorkerType]
      /\ \A w \in Workers : worker[w].at = "off" /\ worker[w].todo = {}
  BY OffIsTyped, Zenon DEF Init
<1>2. TypeOK
  <2>1. /\ row \in [Actions -> OrionActionStatus \cup {None}]
        /\ retries \in [Actions -> 0 .. MaxRetries]
        /\ checked \in [Submitters -> Actions \cup {None}]
        /\ runs \in [Actions -> Nat] /\ effect \in [Actions -> Nat]
    BY OrionAssumption DEF Init
  <2>2. failures \in 0 .. FailureCap /\ interruptions \in 0 .. MaxInterruptions
    BY OrionAssumption DEF Init
  <2>3. /\ overdue \subseteq Actions /\ expiring \subseteq Actions /\ stop \in BOOLEAN
        /\ cancelling \in Actions \cup {None} /\ thread \in Workers \cup {None}
    BY DEF Init
  <2> QED BY <1>1, <2>1, <2>2, <2>3, Zenon DEF TypeOK, WorkerType
<1>3. Counts /\ OneOfAKey /\ ListInv /\ Commands
  BY <1>1, NoneIsNoStatus, OrionAssumption DEF Init, Counts, OneOfAKey, ListInv, Commands, Busy, Untaken
<1> QED BY <1>2, <1>3 DEF IInv

-----------------------------------------------------------------------------
(* Writes of the status and steps of the thread that have the same form.   *)

\* A write of the status of a row that is there, to anything but PENDING.
LEMMA StatusKeeps ==
  ASSUME TypeOK, Counts, OneOfAKey, NEW a \in Actions, NEW st \in OrionActionStatus \ {"PENDING"},
         row[a] # None, st = "EXPIRED" => a \in overdue,
         SetStatus(a, st), UNCHANGED <<retries, overdue, history>>
  PROVE  /\ row' \in [Actions -> OrionActionStatus \cup {None}]
         /\ Counts' /\ OneOfAKey'
         /\ \A b \in Actions : row[b] # None <=> row'[b] # None
         /\ \A b \in Actions : row'[b] \in {None, "PENDING"} => row'[b] = row[b]
         /\ \A b \in Actions : Untaken(b)' <=> Untaken(b)
<1>1. /\ row' \in [Actions -> OrionActionStatus \cup {None}]
      /\ row'[a] = st /\ \A b \in Actions \ {a} : row'[b] = row[b]
  BY DEF TypeOK, SetStatus
<1>2. \A b \in Actions : Untaken(b)' <=> Untaken(b)
  BY DEF Untaken, history
<1>3. Counts'
  BY <1>1, <1>2, NoneIsNoStatus DEF Counts, history
<1>4. OneOfAKey'
  BY <1>1, OrionAssumption DEF OneOfAKey
<1> QED BY <1>1, <1>2, <1>3, <1>4, NoneIsNoStatus

LEMMA SweepKeeps ==
  ASSUME OneThread, IInv, NEW w \in Workers, Sweep(w)
  PROVE  IInv'
<1> DEFINE due == {a \in Actions : Due(a)}
<1>1. /\ worker' \in [Workers -> WorkerType]
      /\ worker'[w].at = "sweep" /\ worker'[w].todo = due
  BY OrionAssumption DEF IInv, TypeOK, Sweep, Goto, WorkerType
<1>2. \A a \in due : row[a] # None /\ a \in overdue
  BY OrionAssumption DEF Due, OrionActionStatus
<1> HIDE DEF due
<1>3. TypeOK'
  BY <1>1 DEF IInv, TypeOK, Sweep, WorkerType, table, control, history
<1>4. Counts' /\ OneOfAKey' /\ Commands'
  BY DEF IInv, Counts, OneOfAKey, Commands, Untaken, Sweep, table, history
<1>5. ListInv'
  BY <1>1, <1>2 DEF OneThread, ListInv, Busy, Sweep, table
<1> QED BY <1>3, <1>4, <1>5 DEF IInv

LEMMA SweepExpireKeeps ==
  ASSUME OneThread, IInv, NEW w \in Workers, NEW a \in Actions, SweepExpire(w, a)
  PROVE  IInv'
<1>1. row[a] # None /\ a \in overdue
  BY DEF IInv, ListInv, SweepExpire
<1>2. /\ worker' \in [Workers -> WorkerType]
      /\ worker'[w].at = "sweep" /\ worker'[w].todo \subseteq worker[w].todo
  BY DEF IInv, TypeOK, SweepExpire, WorkerType
<1>3. /\ row' \in [Actions -> OrionActionStatus \cup {None}]
      /\ Counts' /\ OneOfAKey'
      /\ \A b \in Actions : row[b] # None <=> row'[b] # None
  BY <1>1, StatusKeeps DEF IInv, SweepExpire, OrionActionStatus
<1>4. TypeOK'
  BY <1>2, <1>3 DEF IInv, TypeOK, SweepExpire, WorkerType, control, history
<1>5. ListInv' /\ Commands'
  BY <1>2, <1>3 DEF IInv, TypeOK, OneThread, ListInv, Commands, Busy, SweepExpire
<1> QED BY <1>3, <1>4, <1>5 DEF IInv

LEMMA ListKeeps ==
  ASSUME OneThread, IInv, NEW w \in Workers, ListRunnable(w)
  PROVE  IInv'
<1>1. /\ worker' \in [Workers -> WorkerType]
      /\ worker'[w].at = "batch" /\ worker'[w].todo = Runnable
  BY OrionAssumption DEF IInv, TypeOK, ListRunnable, Goto, WorkerType, Runnable
<1>2. \A a \in Runnable : a \in Actions /\ row[a] # None /\ Untaken(a)
  BY NoneIsNoStatus DEF IInv, Counts, Runnable
<1>3. TypeOK'
  BY <1>1 DEF IInv, TypeOK, ListRunnable, WorkerType, table, control, history
<1>4. Counts' /\ OneOfAKey' /\ Commands'
  BY DEF IInv, Counts, OneOfAKey, Commands, Untaken, ListRunnable, table, history
<1>5. ListInv'
  BY <1>1, <1>2 DEF OneThread, ListInv, Busy, Untaken, ListRunnable, table, history
<1> QED BY <1>3, <1>4, <1>5 DEF IInv

LEMMA MarkRunningKeeps ==
  ASSUME OneThread, IInv, NEW w \in Workers, NEW a \in Actions, MarkRunning(w, a)
  PROVE  IInv'
<1>1. row[a] # None /\ Untaken(a) /\ a \in worker[w].todo
  BY DEF IInv, ListInv, MarkRunning
<1>2. /\ worker' \in [Workers -> WorkerType]
      /\ worker'[w].at = "run" /\ worker'[w].todo = worker[w].todo \ {a}
      /\ worker'[w].cur = a
  BY DEF IInv, TypeOK, MarkRunning, Goto, WorkerType
<1>3. /\ row' \in [Actions -> OrionActionStatus \cup {None}]
      /\ Counts' /\ OneOfAKey'
      /\ \A b \in Actions : row[b] # None <=> row'[b] # None
      /\ \A b \in Actions : Untaken(b)' <=> Untaken(b)
  BY <1>1, StatusKeeps DEF IInv, MarkRunning, OrionActionStatus
<1>4. row'[a] = "RUNNING"
  BY DEF IInv, TypeOK, MarkRunning, SetStatus
<1>5. TypeOK'
  BY <1>2, <1>3 DEF IInv, TypeOK, MarkRunning, WorkerType, control, history
<1>6. worker[w].todo \subseteq Actions /\ \A b \in worker[w].todo : Untaken(b) /\ row[b] # None
  BY DEF IInv, ListInv, TypeOK, MarkRunning
<1>7. ListInv'
  BY <1>1, <1>2, <1>3, <1>4, <1>6, NoneIsNoStatus DEF OneThread, ListInv, Busy
<1>8. Commands'
  BY <1>3 DEF IInv, TypeOK, Commands, MarkRunning
<1> QED BY <1>3, <1>5, <1>7, <1>8 DEF IInv

\* A step of the thread to a place where it has nothing listed or keeps its list.
LEMMA MoveKeeps ==
  ASSUME OneThread, IInv, NEW w \in Workers, NEW r \in WorkerType,
         worker' = [worker EXCEPT ![w] = r],
         r.at = "idle" \/ (r.at = "off" /\ r.todo = {}),
         UNCHANGED <<table, overdue, checked, cancelling, expiring, control, interruptions,
                     history>>
  PROVE  IInv'
<1>1. worker' \in [Workers -> WorkerType] /\ worker'[w] = r
  BY DEF IInv, TypeOK, WorkerType
<1>2. TypeOK'
  BY <1>1 DEF IInv, TypeOK, WorkerType, table, control, history
<1>3. Counts' /\ OneOfAKey' /\ Commands'
  BY DEF IInv, Counts, OneOfAKey, Commands, Untaken, table, history
<1>4. ListInv'
  BY <1>1 DEF OneThread, ListInv, Busy, table
<1> QED BY <1>2, <1>3, <1>4 DEF IInv

LEMMA EndBatchKeeps ==
  ASSUME OneThread, IInv, NEW w \in Workers, EndBatch(w)
  PROVE  IInv'
BY WaitingIsTyped, MoveKeeps DEF EndBatch, Goto

LEMMA ThreadEndsKeeps ==
  ASSUME OneThread, IInv, NEW w \in Workers, ThreadEnds(w)
  PROVE  IInv'
BY OffIsTyped, MoveKeeps DEF ThreadEnds, Goto

LEMMA ExecuteKeeps ==
  ASSUME OneThread, IInv, NEW w \in Workers, Execute(w)
  PROVE  IInv'
<1> DEFINE a == worker[w].cur
<1>1. /\ a \in Actions \ worker[w].todo
      /\ row[a] \notin {None, "PENDING"} /\ Untaken(a)
      /\ worker[w].at = "run" /\ worker[w].todo \subseteq Actions
      /\ \A b \in worker[w].todo : Untaken(b) /\ row[b] # None
  BY DEF IInv, TypeOK, ListInv, Busy, Execute
<1>2. /\ worker' \in [Workers -> WorkerType]
      /\ worker'[w].at \in {"returned", "raised"}
      /\ worker'[w].todo = worker[w].todo /\ worker'[w].cur = a
  BY DEF IInv, TypeOK, Execute, HandlerReturns, HandlerRaises, WorkerType
<1>3. /\ \/ runs' = [runs EXCEPT ![a] = @ + 1]
         \/ runs' = runs
      /\ \/ effect' = [effect EXCEPT ![a] = @ + 1] /\ worker'[w].at = "returned"
         \/ effect' = effect
  BY DEF IInv, TypeOK, WorkerType, Execute, HandlerReturns, HandlerRaises, history
<1>4. /\ runs' \in [Actions -> Nat] /\ runs'[a] <= runs[a] + 1
      /\ effect' \in [Actions -> Nat] /\ effect'[a] <= effect[a] + 1
      /\ worker'[w].at = "raised" => effect'[a] = effect[a]
      /\ \A b \in Actions \ {a} : runs'[b] = runs[b] /\ effect'[b] = effect[b]
  BY <1>1, <1>3 DEF IInv, TypeOK
<1>5. UNCHANGED <<row, retries, overdue, cancelling, expiring>>
  BY DEF Execute, table
<1> HIDE DEF a
<1>6. TypeOK'
  BY <1>2, <1>4 DEF IInv, TypeOK, Execute, WorkerType, table, control
<1>7. Counts'
  BY <1>1, <1>4, <1>5 DEF IInv, TypeOK, Counts, Untaken
<1>8. OneOfAKey' /\ Commands'
  BY <1>5 DEF IInv, OneOfAKey, Commands
<1>9. ListInv'
  BY <1>1, <1>2, <1>4, <1>5 DEF OneThread, ListInv, Busy, Untaken
<1> QED BY <1>6, <1>7, <1>8, <1>9 DEF IInv

LEMMA BackToBatch ==
  ASSUME NEW r \in WorkerType
  PROVE  /\ [r EXCEPT !.at = "batch", !.cur = None] \in WorkerType
         /\ [r EXCEPT !.at = "batch", !.cur = None].at = "batch"
         /\ [r EXCEPT !.at = "batch", !.cur = None].todo = r.todo
         /\ [r EXCEPT !.at = "batch", !.cur = None].cur = None
BY DEF WorkerType

LEMMA MarkSucceededKeeps ==
  ASSUME OneThread, IInv, NEW w \in Workers, MarkSucceeded(w)
  PROVE  IInv'
<1> DEFINE a == worker[w].cur
<1>1. a \in Actions /\ row[a] # None
  BY DEF IInv, ListInv, Busy, MarkSucceeded
<1>2. /\ worker' \in [Workers -> WorkerType]
      /\ worker'[w].at = "batch" /\ worker'[w].todo = worker[w].todo
  <2>1. worker \in [Workers -> WorkerType]
    BY DEF IInv, TypeOK, WorkerType
  <2> QED BY <2>1, BackToBatch DEF MarkSucceeded, Goto
<1>3. /\ row' \in [Actions -> OrionActionStatus \cup {None}]
      /\ Counts' /\ OneOfAKey'
      /\ \A b \in Actions : row[b] # None <=> row'[b] # None
      /\ \A b \in Actions : Untaken(b)' <=> Untaken(b)
  BY <1>1, StatusKeeps DEF IInv, MarkSucceeded, OrionActionStatus
<1>4. TypeOK'
  BY <1>2, <1>3, OrionAssumption DEF IInv, TypeOK, MarkSucceeded, WorkerType, history
<1>5. worker[w].todo \subseteq Actions /\ \A b \in worker[w].todo : Untaken(b) /\ row[b] # None
  BY DEF IInv, ListInv, TypeOK, Busy, MarkSucceeded
<1>6. ListInv'
  BY <1>2, <1>3, <1>5 DEF OneThread, ListInv, Busy
<1>7. Commands'
  BY <1>3 DEF IInv, TypeOK, Commands, MarkSucceeded
<1> QED BY <1>3, <1>4, <1>6, <1>7 DEF IInv

LEMMA MarkFailedKeeps ==
  ASSUME OneThread, IInv, NEW w \in Workers, MarkFailed(w)
  PROVE  IInv'
<1> DEFINE a == worker[w].cur
<1>1. /\ a \in Actions \ worker[w].todo /\ row[a] # None /\ effect[a] = 0
      /\ runs[a] <= retries[a] + 1 /\ worker[w].todo \subseteq Actions
      /\ \A b \in worker[w].todo : Untaken(b) /\ row[b] # None
  BY DEF IInv, TypeOK, Counts, ListInv, Busy, MarkFailed
<1>2. /\ worker' \in [Workers -> WorkerType]
      /\ worker'[w].at = "batch" /\ worker'[w].todo = worker[w].todo
  <2>1. worker \in [Workers -> WorkerType]
    BY DEF IInv, TypeOK, WorkerType
  <2> QED BY <2>1, BackToBatch DEF MarkFailed, Goto
<1>3. /\ row' \in [Actions -> OrionActionStatus \cup {None}]
      /\ retries' \in [Actions -> 0 .. MaxRetries]
      /\ \A b \in Actions \ {a} : row'[b] = row[b] /\ retries'[b] = retries[b]
      /\ \/ row'[a] = "PENDING" /\ retries'[a] = retries[a] + 1
         \/ row'[a] = "FAILED" /\ retries'[a] = retries[a]
  BY <1>1, OrionAssumption
     DEF IInv, TypeOK, MarkFailed, SetStatus, CanRetry, CountedOnce, OrionActionStatus
<1>4. failures' \in 0 .. FailureCap
  BY OrionAssumption DEF IInv, TypeOK, MarkFailed
<1>5. UNCHANGED <<runs, effect, overdue, cancelling, expiring>>
  BY DEF MarkFailed, history
<1> HIDE DEF a
<1>6. TypeOK'
  BY <1>2, <1>3, <1>4 DEF IInv, TypeOK, MarkFailed, WorkerType, history
<1>7. Counts'
  BY <1>1, <1>3, <1>5, NoneIsNoStatus DEF IInv, TypeOK, Counts, Untaken
<1>8. OneOfAKey'
  BY <1>1, <1>3, OrionAssumption DEF IInv, OneOfAKey
<1>9. ListInv'
  BY <1>1, <1>2, <1>3, <1>5 DEF OneThread, ListInv, Busy, Untaken
<1>10. Commands'
  BY <1>3, <1>5, NoneIsNoStatus DEF IInv, TypeOK, Commands
<1> QED BY <1>6, <1>7, <1>8, <1>9, <1>10 DEF IInv

LEMMA WriteFailsKeeps ==
  ASSUME OneThread, IInv, NEW w \in Workers, WriteFails(w)
  PROVE  IInv'
<1>1. interruptions' \in 0 .. MaxInterruptions
  BY OrionAssumption DEF IInv, TypeOK, WriteFails, Interrupt
<1>2. failures' \in 0 .. FailureCap
  BY OrionAssumption DEF IInv, TypeOK, WriteFails
<1>3. worker \in [Workers -> WorkerType]
  BY DEF IInv, TypeOK, WorkerType
<1>4. /\ worker' \in [Workers -> WorkerType]
      /\ \/ worker'[w].at = "idle"
         \/ /\ worker'[w].at = "batch" /\ worker'[w].todo \subseteq worker[w].todo
            /\ worker[w].at \in {"batch", "returned"}
  <2>1. CASE worker[w].at = "batch"
    <3>1. PICK a \in worker[w].todo : worker' = [worker EXCEPT ![w].todo = @ \ {a}]
      BY <2>1 DEF WriteFails
    <3> QED BY <1>3, <2>1, <3>1 DEF WorkerType
  <2>2. CASE worker[w].at = "returned"
    <3> DEFINE r == [worker[w] EXCEPT !.at = "batch", !.cur = None]
    <3>1. r \in WorkerType /\ r.at = "batch" /\ r.todo = worker[w].todo
      BY <1>3, BackToBatch
    <3>2. worker' = [worker EXCEPT ![w] = r]
      BY <2>2 DEF WriteFails, Goto
    <3> HIDE DEF r
    <3> QED BY <1>3, <2>2, <3>1, <3>2
  <2>3. CASE worker[w].at \in {"sweep", "raised"}
    BY <1>3, <2>3, WaitingIsTyped DEF WriteFails, Goto
  <2> QED BY <2>1, <2>2, <2>3 DEF WriteFails
<1>5. TypeOK'
  BY <1>1, <1>2, <1>4 DEF IInv, TypeOK, WriteFails, WorkerType, table, history
<1>6. Counts' /\ OneOfAKey' /\ Commands'
  BY DEF IInv, Counts, OneOfAKey, Commands, Untaken, WriteFails, table, history
<1>7. ListInv'
  BY <1>4 DEF IInv, OneThread, ListInv, Busy, Untaken, WriteFails, table, history
<1> QED BY <1>5, <1>6, <1>7 DEF IInv

-----------------------------------------------------------------------------
(* The other processes.                                                    *)

LEMMA CheckEnqueueKeeps ==
  ASSUME IInv, NEW p \in Submitters, NEW a \in Actions, CheckEnqueue(p, a)
  PROVE  IInv'
<1>1. TypeOK'
  BY DEF IInv, TypeOK, CheckEnqueue, table, control, history
<1>2. Counts' /\ OneOfAKey' /\ Commands' /\ ListInv'
  BY DEF IInv, Counts, OneOfAKey, Commands, ListInv, Busy, Untaken, CheckEnqueue, table, history
<1> QED BY <1>1, <1>2 DEF IInv

LEMMA InsertKeeps ==
  ASSUME IInv, NEW p \in Submitters, Insert(p)
  PROVE  IInv'
<1> DEFINE a == checked[p]
<1>1. a \in Actions
  BY DEF IInv, TypeOK, Insert
<1>2. /\ row' \in [Actions -> OrionActionStatus \cup {None}]
      /\ \A b \in Actions \ {a} : row'[b] = row[b]
      /\ \/ row'[a] = row[a]
         \/ row'[a] = "PENDING" /\ \A b \in SameKey(a) : row[b] = None
  BY <1>1, OrionAssumption
     DEF IInv, TypeOK, Insert, SetStatus, OrionActionStatus, KeyIsFree, Rows, SameKey
<1>3. a \in SameKey(a)
  BY DEF SameKey
<1> HIDE DEF a
<1>4. TypeOK'
  BY <1>2, OrionAssumption DEF IInv, TypeOK, Insert, control, history
<1>5. Counts' /\ Commands' /\ ListInv'
  BY <1>1, <1>2, <1>3, NoneIsNoStatus
     DEF IInv, TypeOK, Counts, Commands, ListInv, Busy, Untaken, Insert, history
<1>6. OneOfAKey'
  BY <1>1, <1>2, <1>3, OrionAssumption DEF IInv, OneOfAKey, SameKey
<1> QED BY <1>4, <1>5, <1>6 DEF IInv

\* Start and Crash leave no thread with anything listed or at work.
LEMMA RestKeeps ==
  ASSUME IInv, TypeOK', UNCHANGED <<table, overdue, cancelling, expiring, history>>,
         \A w \in Workers : worker'[w] = worker[w]
                            \/ (worker'[w].at \in {"off", "idle"} /\ worker'[w].todo = {})
  PROVE  IInv'
<1>1. Counts' /\ OneOfAKey' /\ Commands'
  BY DEF IInv, Counts, OneOfAKey, Commands, Untaken, table, history
<1>2. ListInv'
  BY DEF IInv, ListInv, Busy, Untaken, table, history
<1> QED BY <1>1, <1>2 DEF IInv

LEMMA StartKeeps == ASSUME IInv, Start PROVE IInv'
<1>1. PICK w \in Workers : thread' = w /\ worker' = [worker EXCEPT ![w] = Waiting]
  BY DEF Start, Goto
<1>2. TypeOK'
  BY <1>1, WaitingIsTyped DEF IInv, TypeOK, Start, WorkerType, table, history
<1>3. \A v \in Workers : worker'[v] = worker[v]
                          \/ (worker'[v].at \in {"off", "idle"} /\ worker'[v].todo = {})
  BY <1>1, WaitingIsTyped DEF IInv, TypeOK
<1> QED BY <1>2, <1>3, RestKeeps DEF Start, table, history

LEMMA StopKeeps == ASSUME IInv, Stop \/ StopReturns PROVE IInv'
<1>1. interruptions' \in 0 .. MaxInterruptions
  BY OrionAssumption DEF IInv, TypeOK, Stop, StopReturns, Interrupt
<1>2. TypeOK'
  BY <1>1 DEF IInv, TypeOK, Stop, StopReturns, table, history
<1>3. UNCHANGED <<table, overdue, cancelling, expiring, history, worker>>
  BY DEF Stop, StopReturns, table, history
<1> QED BY <1>2, <1>3, RestKeeps

LEMMA CrashKeeps == ASSUME IInv, Crash PROVE IInv'
<1>1. interruptions' \in 0 .. MaxInterruptions
  BY OrionAssumption DEF IInv, TypeOK, Crash, Interrupt
<1>2. worker' \in [Workers -> WorkerType]
      /\ \A w \in Workers : worker'[w].at = "off" /\ worker'[w].todo = {}
  BY OffIsTyped, Zenon DEF Crash
<1>3. TypeOK'
  <2>1. failures' \in 0 .. FailureCap
    BY OrionAssumption DEF Crash
  <2> QED BY <1>1, <1>2, <2>1 DEF IInv, TypeOK, WorkerType, Crash, table, history
<1> QED BY <1>2, <1>3, RestKeeps DEF Crash, table, history

LEMMA ReadsKeep ==
  ASSUME IInv, NEW a \in Actions, CheckCancel(a) \/ RecoverSelect \/ Deadline(a)
  PROVE  IInv'
<1>1. TypeOK'
  BY DEF IInv, TypeOK, CheckCancel, RecoverSelect, Deadline, table, control, history
<1>2. Counts' /\ OneOfAKey' /\ ListInv'
  BY DEF IInv, Counts, OneOfAKey, ListInv, Busy, Untaken, CheckCancel, RecoverSelect, Deadline,
         table, history
<1>3. Commands'
  BY NoneIsNoStatus DEF IInv, Commands, CheckCancel, RecoverSelect, Deadline, Due, table
<1> QED BY <1>1, <1>2, <1>3 DEF IInv

LEMMA CommandsKeep ==
  ASSUME IInv, NEW a \in Actions, MarkCancelled \/ Retry(a) \/ RecoverExpire(a)
  PROVE  IInv'
<1>1. PICK b \in Actions, st \in OrionActionStatus \ {"PENDING"} :
        /\ row[b] # None
        /\ st = "EXPIRED" => b \in overdue
        /\ SetStatus(b, st)
  BY DEF IInv, TypeOK, Commands, MarkCancelled, Retry, RecoverExpire, OrionActionStatus
<1>2. UNCHANGED <<retries, overdue, history, worker>>
  BY DEF MarkCancelled, Retry, RecoverExpire
<1>3. /\ row' \in [Actions -> OrionActionStatus \cup {None}]
      /\ Counts' /\ OneOfAKey'
      /\ \A c \in Actions : row[c] # None <=> row'[c] # None
      /\ \A c \in Actions : row'[c] \in {None, "PENDING"} => row'[c] = row[c]
      /\ \A c \in Actions : Untaken(c)' <=> Untaken(c)
  BY <1>1, <1>2, StatusKeeps DEF IInv
<1>4. TypeOK'
  BY <1>3 DEF IInv, TypeOK, MarkCancelled, Retry, RecoverExpire, control, history
<1>5. ListInv'
  BY <1>2, <1>3, NoneIsNoStatus DEF IInv, TypeOK, ListInv, Busy, history
<1>6. Commands'
  BY <1>2, <1>3 DEF IInv, TypeOK, Commands, MarkCancelled, Retry, RecoverExpire
<1> QED BY <1>3, <1>4, <1>5, <1>6 DEF IInv

-----------------------------------------------------------------------------
(* Any number of threads: what stays true when stop() gave up on one.      *)

\* What a thread has listed or runs has a row, and only what is overdue is swept.
Listed(r) ==
  /\ \A a \in r.todo : row[a] # None /\ (r.at = "sweep" => a \in overdue)
  /\ r.at \in {"run", "returned", "raised"} => r.cur \in Actions /\ row[r.cur] # None

SharedInv ==
  /\ TypeOK
  /\ \A a \in Actions : row[a] = "EXPIRED" => a \in overdue
  /\ \A w \in Workers : Listed(worker[w])
  /\ Commands

LEMMA RestIsListed == Listed(Off) /\ Listed(Waiting)
BY DEF Listed, Off, Waiting

LEMMA SharedInit == Init => SharedInv
<1> SUFFICES ASSUME Init PROVE SharedInv
  OBVIOUS
<1>1. TypeOK /\ Commands
  BY InitHolds DEF IInv
<1>2. \A w \in Workers : Listed(worker[w])
  BY RestIsListed DEF Init
<1>3. \A a \in Actions : row[a] # "EXPIRED"
  BY NoneIsNoStatus DEF Init
<1> QED BY <1>1, <1>2, <1>3 DEF SharedInv

\* The threads that a step leaves alone keep what they have, whoever writes a row.
LEMMA SharedKept ==
  ASSUME SharedInv, TypeOK', Commands', overdue \subseteq overdue',
         \A a \in Actions : /\ row[a] # None => row'[a] # None
                            /\ row'[a] = "EXPIRED" => a \in overdue',
         \A w \in Workers : worker'[w] = worker[w] \/ Listed(worker[w])'
  PROVE  SharedInv'
<1>1. ASSUME NEW w \in Workers, worker'[w] = worker[w] PROVE Listed(worker[w])'
  <2>1. worker[w].todo \subseteq Actions /\ Listed(worker[w])
    BY DEF SharedInv, TypeOK
  <2> QED BY <1>1, <2>1 DEF Listed
<1> QED BY <1>1 DEF SharedInv

\* A step of a thread that writes no row.
LEMMA NoRowKept ==
  ASSUME SharedInv, NEW w \in Workers, NEW r \in WorkerType, Listed(r),
         worker' = [worker EXCEPT ![w] = r],
         thread' \in Workers \cup {None}, stop' \in BOOLEAN, failures' \in 0 .. FailureCap,
         interruptions' \in 0 .. MaxInterruptions,
         runs' \in [Actions -> Nat], effect' \in [Actions -> Nat],
         UNCHANGED <<table, overdue, checked, cancelling, expiring>>
  PROVE  SharedInv'
<1>1. worker' \in [Workers -> WorkerType] /\ worker'[w] = r
      /\ \A v \in Workers \ {w} : worker'[v] = worker[v]
  BY DEF SharedInv, TypeOK, WorkerType
<1>2. row' = row /\ retries' = retries
  BY DEF table
<1>3. TypeOK'
  BY <1>1, <1>2 DEF SharedInv, TypeOK, WorkerType
<1>4. Commands'
  BY <1>2 DEF SharedInv, Commands
<1>5. \A v \in Workers : worker'[v] = worker[v] \/ Listed(worker[v])'
  BY <1>1, <1>2 DEF Listed
<1> QED BY <1>2, <1>3, <1>4, <1>5, SharedKept DEF SharedInv

\* A step of a thread or of a command that writes the row of an action that has one.
LEMMA RowKept ==
  ASSUME SharedInv, NEW a \in Actions, row[a] # None, NEW st \in OrionActionStatus,
         st = "EXPIRED" => a \in overdue, SetStatus(a, st),
         \/ worker' = worker
         \/ \E w \in Workers, r \in WorkerType :
              Listed(r) /\ worker' = [worker EXCEPT ![w] = r],
         retries' \in [Actions -> 0 .. MaxRetries], failures' \in 0 .. FailureCap,
         cancelling' \in {cancelling, None}, expiring' \subseteq expiring,
         UNCHANGED <<overdue, checked, thread, stop, interruptions, history>>
  PROVE  SharedInv'
<1>1. worker' \in [Workers -> WorkerType]
  BY DEF SharedInv, TypeOK, WorkerType
<1>2. /\ row' \in [Actions -> OrionActionStatus \cup {None}]
      /\ row'[a] = st /\ \A b \in Actions \ {a} : row'[b] = row[b]
  BY DEF SharedInv, TypeOK, SetStatus
<1>3. \A b \in Actions : row[b] # None => row'[b] # None
  BY <1>2, NoneIsNoStatus
<1>4. TypeOK'
  BY <1>1, <1>2 DEF SharedInv, TypeOK, WorkerType, history
<1>5. Commands'
  BY <1>3 DEF SharedInv, TypeOK, Commands
<1>6. \A v \in Workers : worker'[v] = worker[v] \/ Listed(worker[v])'
  <2>1. ASSUME NEW w \in Workers, NEW r \in WorkerType, Listed(r), worker' = [worker EXCEPT ![w] = r]
        PROVE  \A v \in Workers : worker'[v] = worker[v] \/ Listed(worker[v])'
    <3>1. worker'[w] = r /\ \A v \in Workers \ {w} : worker'[v] = worker[v]
      BY <2>1 DEF SharedInv, TypeOK, WorkerType
    <3>2. r.todo \subseteq Actions
      BY DEF WorkerType
    <3>3. Listed(worker[w])'
      BY <1>3, <2>1, <3>1, <3>2 DEF Listed
    <3> QED BY <3>1, <3>3
  <2> QED BY <2>1
<1>7. \A b \in Actions : row'[b] = "EXPIRED" => b \in overdue'
  BY <1>2 DEF SharedInv
<1> QED BY <1>3, <1>4, <1>5, <1>6, <1>7, SharedKept

\* The steps of a thread, beside others.
LEMMA ThreadSharedKept ==
  ASSUME SharedInv, NEW w \in Workers, WorkerStep(w) \/ WriteFails(w)
  PROVE  SharedInv'
<1> DEFINE r == worker[w]
           back == [r EXCEPT !.at = "batch", !.cur = None]
<1>0. /\ r \in WorkerType /\ Listed(r) /\ worker \in [Workers -> WorkerType]
      /\ thread \in Workers \cup {None} /\ stop \in BOOLEAN /\ failures \in 0 .. FailureCap
      /\ interruptions \in 0 .. MaxInterruptions /\ retries \in [Actions -> 0 .. MaxRetries]
      /\ runs \in [Actions -> Nat] /\ effect \in [Actions -> Nat]
      /\ 0 \in 0 .. FailureCap
  BY OrionAssumption DEF SharedInv, TypeOK, WorkerType
<1>00. r.todo \subseteq Actions /\ Listed(Waiting) /\ Listed(Off)
  BY <1>0, RestIsListed DEF WorkerType
<1>back. back \in WorkerType /\ (r.at # "sweep" => Listed(back))
  <2>1. back \in WorkerType /\ back.at = "batch" /\ back.todo = r.todo /\ back.cur = None
    BY <1>0, BackToBatch, Zenon
  <2> HIDE DEF back
  <2> QED BY <1>0, <2>1 DEF Listed
<1>1. CASE Sweep(w)
  <2> DEFINE due == {a \in Actions : Due(a)}
             q == [at |-> "sweep", todo |-> due, cur |-> None]
  <2>1. q \in WorkerType /\ Listed(q)
    BY NoneIsNoStatus DEF WorkerType, Listed, Due
  <2>2. worker' = [worker EXCEPT ![w] = q]
    BY <1>1 DEF Sweep, Goto
  <2> HIDE DEF q, r
  <2> QED BY <1>0, <1>1, <2>1, <2>2, NoRowKept DEF Sweep, control, history
<1>2. CASE ListRunnable(w)
  <2> DEFINE q == [at |-> "batch", todo |-> Runnable, cur |-> None]
  <2>1. q \in WorkerType /\ Listed(q)
    BY NoneIsNoStatus DEF WorkerType, Listed, Runnable
  <2>2. worker' = [worker EXCEPT ![w] = q]
    BY <1>2 DEF ListRunnable, Goto
  <2> HIDE DEF q, r
  <2> QED BY <1>0, <1>2, <2>1, <2>2, NoRowKept DEF ListRunnable, control, history
<1>3. CASE EndBatch(w) \/ ThreadEnds(w)
  <2>1. PICK q \in {Waiting, Off} : worker' = [worker EXCEPT ![w] = q]
    BY <1>3 DEF EndBatch, ThreadEnds, Goto
  <2>2. q \in WorkerType /\ Listed(q)
    BY <1>00, <2>1, WaitingIsTyped, OffIsTyped
  <2> HIDE DEF r
  <2> QED BY <1>0, <1>3, <2>1, <2>2, NoRowKept DEF EndBatch, ThreadEnds, control, history
<1>4. CASE Execute(w)
  <2>1. PICK at \in {"returned", "raised"} : worker' = [worker EXCEPT ![w].at = at]
    BY <1>4 DEF Execute, HandlerReturns, HandlerRaises
  <2> DEFINE q == [r EXCEPT !.at = at]
  <2>2. /\ q \in WorkerType /\ q.at = at /\ q.todo = r.todo /\ q.cur = r.cur
        /\ worker' = [worker EXCEPT ![w] = q]
    BY <1>0, <2>1 DEF WorkerType
  <2>3. r.at = "run" /\ r.cur \in Actions
    BY <1>0, <1>4 DEF Execute, Listed
  <2>4. runs' \in [Actions -> Nat] /\ effect' \in [Actions -> Nat]
    BY <1>0, <1>4, <2>3 DEF Execute, HandlerReturns, HandlerRaises, history
  <2> HIDE DEF q, r
  <2>5. Listed(q)
    BY <1>0, <2>1, <2>2, <2>3 DEF Listed
  <2> QED BY <1>0, <1>4, <2>2, <2>4, <2>5, NoRowKept DEF Execute, control
<1>5. ASSUME NEW a \in Actions, SweepExpire(w, a) PROVE SharedInv'
  <2> DEFINE q == [r EXCEPT !.todo = @ \ {a}]
  <2>1. /\ q \in WorkerType /\ q.at = r.at /\ q.todo = r.todo \ {a} /\ q.cur = r.cur
        /\ worker' = [worker EXCEPT ![w] = q]
    BY <1>0, <1>5 DEF SweepExpire, WorkerType
  <2>2. r.at = "sweep" /\ a \in r.todo
    BY <1>5 DEF SweepExpire
  <2> HIDE DEF q, r
  <2>3. Listed(q) /\ row[a] # None /\ a \in overdue
    BY <1>0, <2>1, <2>2 DEF Listed
  <2>4. "EXPIRED" \in OrionActionStatus /\ SetStatus(a, "EXPIRED")
    BY <1>5 DEF SweepExpire, OrionActionStatus
  <2> QED BY <1>0, <1>5, <2>1, <2>3, <2>4, RowKept DEF SweepExpire, control
<1>6. ASSUME NEW a \in Actions, MarkRunning(w, a) PROVE SharedInv'
  <2> DEFINE q == [at |-> "run", todo |-> r.todo \ {a}, cur |-> a]
  <2>1. /\ q \in WorkerType /\ q.at = "run" /\ q.todo = r.todo \ {a} /\ q.cur = a
    BY <1>00 DEF WorkerType
  <2>2. a \in r.todo /\ worker' = [worker EXCEPT ![w] = q]
    BY <1>6 DEF MarkRunning, Goto
  <2> HIDE DEF q, r
  <2>3. Listed(q) /\ row[a] # None
    BY <1>0, <2>1, <2>2 DEF Listed
  <2>4. "RUNNING" \in OrionActionStatus /\ SetStatus(a, "RUNNING")
    BY <1>6 DEF MarkRunning, OrionActionStatus
  <2> QED BY <1>0, <1>6, <2>1, <2>2, <2>3, <2>4, RowKept DEF MarkRunning, control
<1>7. CASE MarkSucceeded(w) \/ MarkFailed(w)
  <2>1. r.at \in {"returned", "raised"} /\ worker' = [worker EXCEPT ![w] = back]
    BY <1>7 DEF MarkSucceeded, MarkFailed, Goto
  <2>2. r.cur \in Actions /\ row[r.cur] # None /\ Listed(back)
    BY <1>0, <1>back, <2>1 DEF Listed
  <2>3. PICK st \in OrionActionStatus : st # "EXPIRED" /\ SetStatus(r.cur, st)
    BY <1>7 DEF MarkSucceeded, MarkFailed, OrionActionStatus
  <2>4. retries' \in [Actions -> 0 .. MaxRetries]
    BY <1>0, <1>7, <2>2, OrionAssumption DEF MarkSucceeded, MarkFailed, CanRetry, CountedOnce
  <2>5. failures' \in 0 .. FailureCap
    BY <1>0, <1>7, OrionAssumption DEF MarkSucceeded, MarkFailed
  <2>6. UNCHANGED <<overdue, checked, cancelling, expiring, thread, stop, interruptions, history>>
    BY <1>7 DEF MarkSucceeded, MarkFailed
  <2> HIDE DEF back, r
  <2> QED BY <1>0, <1>back, <2>1, <2>2, <2>3, <2>4, <2>5, <2>6, RowKept
<1>8. CASE WriteFails(w)
  <2>1. PICK q \in WorkerType : Listed(q) /\ worker' = [worker EXCEPT ![w] = q]
    <3>1. ASSUME r.at = "batch", NEW a \in r.todo, worker' = [worker EXCEPT ![w].todo = @ \ {a}]
          PROVE  \E q \in WorkerType : Listed(q) /\ worker' = [worker EXCEPT ![w] = q]
      <4> DEFINE q == [r EXCEPT !.todo = @ \ {a}]
      <4>1. /\ q \in WorkerType /\ q.at = r.at /\ q.todo = r.todo \ {a} /\ q.cur = r.cur
            /\ worker' = [worker EXCEPT ![w] = q]
        BY <1>0, <3>1 DEF WorkerType
      <4> HIDE DEF q, r
      <4> QED BY <1>0, <3>1, <4>1 DEF Listed
    <3>2. CASE r.at = "returned"
      BY <1>8, <1>back, <3>2 DEF WriteFails, Goto
    <3>3. CASE r.at \in {"sweep", "raised"}
      BY <1>8, <1>00, <3>3, WaitingIsTyped DEF WriteFails, Goto
    <3> QED BY <1>8, <3>1, <3>2, <3>3 DEF WriteFails
  <2>2. interruptions' \in 0 .. MaxInterruptions
    BY <1>0, <1>8, OrionAssumption DEF WriteFails, Interrupt
  <2>3. failures' \in 0 .. FailureCap
    BY <1>0, <1>8 DEF WriteFails
  <2> HIDE DEF r
  <2> QED BY <1>0, <1>8, <2>1, <2>2, <2>3, NoRowKept DEF WriteFails, history
<1> QED BY <1>1, <1>2, <1>3, <1>4, <1>5, <1>6, <1>7, <1>8 DEF WorkerStep

\* The steps of the others.
LEMMA SharedStep == SharedInv /\ [Next]_vars => SharedInv'
<1> SUFFICES ASSUME SharedInv, [Next]_vars PROVE SharedInv'
  OBVIOUS
<1>1. ASSUME NEW w \in Workers, WorkerStep(w) \/ WriteFails(w) PROVE SharedInv'
  BY <1>1, ThreadSharedKept
<1>2. ASSUME NEW a \in Actions, Retry(a) \/ RecoverExpire(a) \/ MarkCancelled PROVE SharedInv'
  <2>1. PICK b \in Actions, st \in OrionActionStatus :
          /\ row[b] # None
          /\ st = "EXPIRED" => b \in overdue
          /\ SetStatus(b, st)
    BY <1>2 DEF SharedInv, TypeOK, Commands, MarkCancelled, Retry, RecoverExpire, OrionActionStatus
  <2>2. /\ worker' = worker /\ cancelling' \in {cancelling, None} /\ expiring' \subseteq expiring
        /\ UNCHANGED <<retries, failures, overdue, checked, thread, stop, interruptions, history>>
    BY <1>2 DEF MarkCancelled, Retry, RecoverExpire, control
  <2>3. retries' \in [Actions -> 0 .. MaxRetries] /\ failures' \in 0 .. FailureCap
    BY <2>2 DEF SharedInv, TypeOK
  <2> QED BY <2>1, <2>2, <2>3, RowKept
<1>3. ASSUME NEW p \in Submitters, Insert(p) PROVE SharedInv'
  <2>1. /\ row' \in [Actions -> OrionActionStatus \cup {None}]
        /\ \A a \in Actions : row'[a] = row[a] \/ (row'[a] = "PENDING" /\ row[a] = None)
    BY <1>3 DEF SharedInv, TypeOK, Insert, SetStatus, OrionActionStatus, KeyIsFree, Rows, SameKey
  <2>2. TypeOK'
    BY <1>3, <2>1 DEF SharedInv, TypeOK, Insert, control, history
  <2>3. \A a \in Actions : /\ row[a] # None => row'[a] # None
                           /\ row'[a] = "EXPIRED" => a \in overdue
    BY <2>1 DEF SharedInv
  <2>4. Commands'
    BY <1>3, <2>3 DEF SharedInv, TypeOK, Commands, Insert
  <2> QED BY <1>3, <2>2, <2>3, <2>4, SharedKept DEF Insert
<1>4. ASSUME row' = row, overdue \subseteq overdue', TypeOK', Commands',
             \A w \in Workers : worker'[w] \in {worker[w], Off, Waiting}
      PROVE  SharedInv'
  <2>1. \A w \in Workers : worker'[w] = worker[w] \/ Listed(worker[w])'
    BY <1>4, RestIsListed DEF Listed, Off, Waiting
  <2> QED BY <1>4, <2>1, SharedKept DEF SharedInv
<1>5. CASE Start \/ Crash
  <2>1. /\ worker' \in [Workers -> WorkerType]
        /\ \A w \in Workers : worker'[w] \in {worker[w], Off, Waiting}
    BY <1>5, OffIsTyped, WaitingIsTyped DEF SharedInv, TypeOK, WorkerType, Start, Crash, Goto
  <2>2. interruptions' \in 0 .. MaxInterruptions /\ failures' \in 0 .. FailureCap
    BY <1>5, OrionAssumption DEF SharedInv, TypeOK, Start, Crash, Interrupt
  <2>3. TypeOK'
    BY <1>5, <2>1, <2>2 DEF SharedInv, TypeOK, WorkerType, Start, Crash, table, history
  <2>4. Commands'
    BY <1>5 DEF SharedInv, Commands, Start, Crash, table
  <2> QED BY <1>4, <1>5, <2>1, <2>3, <2>4 DEF Start, Crash, table
<1>6. CASE Stop \/ StopReturns \/ UNCHANGED vars
  <2>1. interruptions' \in 0 .. MaxInterruptions
    BY <1>6, OrionAssumption DEF SharedInv, TypeOK, Stop, StopReturns, Interrupt, vars
  <2>2. TypeOK' /\ Commands'
    BY <1>6, <2>1
       DEF SharedInv, TypeOK, Commands, Stop, StopReturns, vars, table, control, history
  <2> QED BY <1>4, <1>6, <2>2 DEF Stop, StopReturns, vars, table
<1>7. ASSUME NEW a \in Actions, CheckCancel(a) \/ Deadline(a) PROVE SharedInv'
  <2>1. TypeOK' /\ Commands'
    BY <1>7, NoneIsNoStatus
       DEF SharedInv, TypeOK, Commands, CheckCancel, Deadline, table, control, history
  <2> QED BY <1>4, <1>7, <2>1 DEF CheckCancel, Deadline, table
<1>8. ASSUME NEW p \in Submitters, NEW a \in Actions, CheckEnqueue(p, a) PROVE SharedInv'
  <2>1. TypeOK' /\ Commands'
    BY <1>8 DEF SharedInv, TypeOK, Commands, CheckEnqueue, table, control, history
  <2> QED BY <1>4, <1>8, <2>1 DEF CheckEnqueue, table
<1>9. CASE MarkCancelled
  <2>1. cancelling \in Actions
    BY <1>9 DEF SharedInv, TypeOK, MarkCancelled
  <2> QED BY <1>2, <1>9, <2>1
<1>10. CASE RecoverSelect
  <2>1. TypeOK' /\ Commands'
    BY <1>10, NoneIsNoStatus
       DEF SharedInv, TypeOK, Commands, RecoverSelect, Due, table, control, history
  <2> QED BY <1>4, <1>10, <2>1 DEF RecoverSelect, table
<1> QED BY <1>1, <1>2, <1>3, <1>5, <1>6, <1>7, <1>8, <1>9, <1>10
        DEF Next, ExecutorNext, CommandNext

-----------------------------------------------------------------------------
LEMMA StepKeeps == OneThread /\ IInv /\ [Next]_vars => IInv'
<1> SUFFICES ASSUME OneThread, IInv, [Next]_vars PROVE IInv'
  OBVIOUS
<1>1. ASSUME NEW p \in Submitters, Insert(p) \/ \E a \in Actions : CheckEnqueue(p, a)
      PROVE  IInv'
  BY <1>1, InsertKeeps, CheckEnqueueKeeps
<1>2. ASSUME NEW w \in Workers, WorkerStep(w) \/ WriteFails(w)
      PROVE  IInv'
  BY <1>2, SweepKeeps, SweepExpireKeeps, ListKeeps, MarkRunningKeeps, EndBatchKeeps,
     ThreadEndsKeeps, ExecuteKeeps, MarkSucceededKeeps, MarkFailedKeeps, WriteFailsKeeps
     DEF WorkerStep
<1>3. CASE Start \/ Stop \/ StopReturns \/ Crash
  BY <1>3, StartKeeps, StopKeeps, CrashKeeps
<1>4. ASSUME NEW a \in Actions, CheckCancel(a) \/ Retry(a) \/ RecoverExpire(a) \/ Deadline(a)
      PROVE  IInv'
  BY <1>4, ReadsKeep, CommandsKeep
<1>5. CASE MarkCancelled
  <2>1. \E a \in Actions : TRUE
    BY <1>5 DEF IInv, TypeOK, MarkCancelled
  <2> QED BY <1>5, <2>1, CommandsKeep
<1>6. CASE RecoverSelect
  <2>1. TypeOK' /\ Commands'
    BY <1>6, NoneIsNoStatus DEF IInv, TypeOK, Commands, RecoverSelect, Due, table, control, history
  <2> QED BY <1>6, <2>1
          DEF IInv, Counts, OneOfAKey, ListInv, Busy, Untaken, RecoverSelect, table, history
<1>7. CASE UNCHANGED vars
  <2>1. TypeOK' /\ Commands'
    BY <1>7 DEF IInv, TypeOK, Commands, vars, table, control, history
  <2> QED BY <1>7, <2>1 DEF IInv, Counts, OneOfAKey, ListInv, Busy, Untaken, vars, table, history
<1> QED BY <1>1, <1>2, <1>3, <1>4, <1>5, <1>6, <1>7 DEF Next, ExecutorNext, CommandNext

\* Every variable keeps its type, however many threads a stop() that gave up leaves
\* beside a new one (executor.py 60-93).
THEOREM OrionTypeCorrect == Spec => []TypeOK
<1>1. SharedInv => TypeOK
  BY DEF SharedInv
<1> QED BY <1>1, SharedInit, SharedStep, PTL DEF Spec

\* A set whose members are all the same has one member at most.
LEMMA OneAtMost ==
  ASSUME NEW S, IsFiniteSet(S), \A x, y \in S : x = y
  PROVE  Cardinality(S) <= 1
<1>1. CASE S = {}
  BY <1>1, FS_EmptySet
<1>2. CASE S # {}
  <2>1. PICK x : S = {x}
    BY <1>2
  <2> QED BY <2>1, FS_Singleton
<1> QED BY <1>1, <1>2

\* A logical action is executed once at most, however often it is submitted and
\* whatever crashes, lost writes, commands and recoveries come in between (queue.py
\* 68-110, executor.py 95-135).
THEOREM AtMostOnce == ASSUME OneThread PROVE Spec => []ExecutedAtMostOnce
<1>1. IInv => ExecutedAtMostOnce
  <2> SUFFICES ASSUME IInv PROVE ExecutedAtMostOnce
    OBVIOUS
  <2> DEFINE S == {a \in Resubmitted : effect[a] > 0}
  <2>1. \A a \in Actions : effect[a] <= 1 /\ (effect[a] > 0 => row[a] # None)
    BY NoneIsNoStatus DEF IInv, TypeOK, Counts, Untaken
  <2>2. \A a, b \in S : a = b
    BY <2>1, OrionAssumption DEF IInv, OneOfAKey
  <2>3. IsFiniteSet(S)
    BY OrionAssumption, FS_Subset
  <2> QED BY <2>1, <2>2, <2>3, OneAtMost DEF ExecutedAtMostOnce
<1> QED BY <1>1, InitHolds, StepKeeps, PTL DEF Spec

\* max_retries bounds the calls of a handler (queue.py 187-219).
THEOREM BoundedRuns == ASSUME OneThread PROVE Spec => []RunsAreBounded
<1>1. IInv => RunsAreBounded
  BY OrionAssumption DEF IInv, TypeOK, Counts, RunsAreBounded
<1> QED BY <1>1, InitHolds, StepKeeps, PTL DEF Spec

\* An action whose row says EXPIRED is never executed, by whichever of any number of
\* threads has listed it (queue.py 269-284, handlers.py 68).
THEOREM ExpiredStaysUnrun == Spec => ExpiredNeverRuns
<1> DEFINE Unrun == \A a \in Actions : row[a] = "EXPIRED" => runs'[a] = runs[a]
<1>1. SharedInv /\ [Next]_vars => [Unrun]_vars
  <2> SUFFICES ASSUME SharedInv, Next PROVE Unrun
    BY DEF vars
  <2>1. ASSUME NEW w \in Workers, Execute(w) PROVE Unrun
    <3>1. worker[w].cur \in Actions
      BY <2>1 DEF SharedInv, Listed, Execute
    <3> QED BY <2>1, <3>1 DEF SharedInv, TypeOK, Execute, WithinDeadline, history
  <2>2. CASE UNCHANGED runs
    BY <2>2
  <2>3. ASSUME NEW w \in Workers, NEW a \in Actions,
               \/ Sweep(w) \/ ListRunnable(w) \/ EndBatch(w) \/ MarkSucceeded(w)
               \/ MarkFailed(w) \/ ThreadEnds(w) \/ SweepExpire(w, a) \/ MarkRunning(w, a)
               \/ WriteFails(w)
        PROVE  UNCHANGED runs
    BY <2>3 DEF Sweep, ListRunnable, EndBatch, MarkSucceeded, MarkFailed, ThreadEnds, SweepExpire,
                MarkRunning, WriteFails, history
  <2>4. ASSUME NEW w \in Workers, WorkerStep(w) \/ WriteFails(w) PROVE Unrun
    <3>1. CASE Actions = {}
      BY <3>1
    <3>2. ASSUME NEW a \in Actions PROVE Unrun
      BY <2>1, <2>2, <2>3, <2>4 DEF WorkerStep
    <3> QED BY <3>1, <3>2
  <2>5. CASE \/ \E p \in Submitters : Insert(p) \/ \E a \in Actions : CheckEnqueue(p, a)
             \/ Start \/ Stop \/ StopReturns \/ Crash
             \/ \E a \in Actions : Deadline(a)
    BY <2>2, <2>5 DEF CheckEnqueue, Insert, Start, Stop, StopReturns, Crash, Deadline, history
  <2>6. CASE CommandNext
    BY <2>2, <2>6 DEF CommandNext, CheckCancel, MarkCancelled, Retry, RecoverSelect, RecoverExpire,
                      history
  <2> QED BY <2>4, <2>5, <2>6 DEF Next, ExecutorNext
<1> QED BY <1>1, SharedInit, SharedStep, PTL DEF Spec, ExpiredNeverRuns

-----------------------------------------------------------------------------
(* The size of the queue.                                                  *)

Waiters == {p \in Submitters : checked[p] # None}

\* There is room for what was let in and for one more row of every other process.
Headroom == Cardinality(Rows) + Cardinality(Waiters) <= MaxSize + Cardinality(Submitters) - 1

LEMMA Finite ==
  /\ IsFiniteSet(Rows) /\ Cardinality(Rows) \in Nat
  /\ IsFiniteSet(Waiters) /\ Cardinality(Waiters) \in Nat
  /\ Cardinality(Waiters) <= Cardinality(Submitters) /\ Cardinality(Submitters) \in Nat
BY OrionAssumption, FS_Subset, FS_CardinalityType DEF Rows, Waiters

LEMMA HeadroomKept == SharedInv /\ Headroom /\ [Next]_vars => Headroom'
<1> SUFFICES ASSUME SharedInv, Headroom, [Next]_vars PROVE Headroom'
  OBVIOUS
<1>1. ASSUME NEW p \in Submitters, NEW a \in Actions, CheckEnqueue(p, a) PROVE Headroom'
  <2>1. Waiters' = Waiters \cup {p} /\ p \notin Waiters
    BY <1>1, NoneIsNoStatus DEF SharedInv, TypeOK, CheckEnqueue, Waiters
  <2>2. Cardinality(Waiters') = Cardinality(Waiters) + 1
    BY <2>1, Finite, FS_AddElement
  <2>3. Waiters' \in SUBSET Submitters
    BY DEF Waiters
  <2>4. Cardinality(Waiters') <= Cardinality(Submitters)
    BY <2>3, OrionAssumption, FS_Subset
  <2>5. Rows' = Rows /\ Cardinality(Rows) < MaxSize
    BY <1>1 DEF CheckEnqueue, Rows, table, Room
  <2> QED BY <2>2, <2>4, <2>5, Finite, OrionAssumption DEF Headroom
<1>2. ASSUME NEW p \in Submitters, Insert(p) PROVE Headroom'
  <2>1. Waiters' = Waiters \ {p} /\ p \in Waiters
    BY <1>2 DEF SharedInv, TypeOK, Insert, Waiters
  <2>2. Cardinality(Waiters') = Cardinality(Waiters) - 1
    BY <2>1, Finite, FS_RemoveElement
  <2>3. checked[p] \in Actions
    BY <1>2 DEF SharedInv, TypeOK, Insert
  <2>4. Rows' = Rows \/ Rows' = Rows \cup {checked[p]}
    BY <1>2, <2>3, NoneIsNoStatus DEF SharedInv, TypeOK, Insert, SetStatus, Rows
  <2>7. /\ IsFiniteSet(Rows \cup {checked[p]})
        /\ \/ Cardinality(Rows \cup {checked[p]}) = Cardinality(Rows)
           \/ Cardinality(Rows \cup {checked[p]}) = Cardinality(Rows) + 1
    BY Finite, FS_AddElement
  <2>8. Cardinality(Rows) \in Nat
    BY Finite
  <2>5. Cardinality(Rows') <= Cardinality(Rows) + 1
    <3> DEFINE old == Cardinality(Rows)
               new == Cardinality(Rows')
    <3>1. old \in Nat /\ (new = old \/ new = old + 1)
      BY <2>4, <2>7, <2>8
    <3> HIDE DEF old, new
    <3>2. new <= old + 1
      BY <3>1
    <3> QED BY <3>2 DEF old, new
  <2>6. IsFiniteSet(Rows') /\ Cardinality(Rows') \in Nat
    <3>1. IsFiniteSet(Rows')
      BY <2>4, <2>7, Finite
    <3> QED BY <3>1, FS_CardinalityType
  <2> QED BY <2>2, <2>5, <2>6, Finite, OrionAssumption DEF Headroom
<1>3. CASE UNCHANGED checked /\ \A a \in Actions : row[a] # None <=> row'[a] # None
  <2>1. Waiters' = Waiters /\ Rows' = Rows
    BY <1>3 DEF Waiters, Rows
  <2> QED BY <2>1 DEF Headroom
<1>4. ASSUME NEW a \in Actions, row[a] # None, NEW st \in OrionActionStatus, SetStatus(a, st),
             UNCHANGED checked
      PROVE  Headroom'
  <2>1. \A b \in Actions : row[b] # None <=> row'[b] # None
    BY <1>4, NoneIsNoStatus DEF SharedInv, TypeOK, SetStatus
  <2> QED BY <1>3, <1>4, <2>1
<1>5. ASSUME NEW w \in Workers, WorkerStep(w) \/ WriteFails(w) PROVE Headroom'
  <2>1. CASE Sweep(w) \/ ListRunnable(w) \/ EndBatch(w) \/ Execute(w) \/ ThreadEnds(w)
             \/ WriteFails(w)
    BY <1>3, <2>1 DEF Sweep, ListRunnable, EndBatch, Execute, ThreadEnds, WriteFails, table
  <2>2. ASSUME NEW a \in Actions, SweepExpire(w, a) \/ MarkRunning(w, a) PROVE Headroom'
    <3>1. row[a] # None
      BY <2>2 DEF SharedInv, Listed, SweepExpire, MarkRunning
    <3> QED BY <1>4, <2>2, <3>1 DEF SweepExpire, MarkRunning, OrionActionStatus
  <2>3. CASE MarkSucceeded(w) \/ MarkFailed(w)
    <3>1. worker[w].cur \in Actions /\ row[worker[w].cur] # None
      BY <2>3 DEF SharedInv, Listed, MarkSucceeded, MarkFailed
    <3>2. UNCHANGED checked
      BY <2>3 DEF MarkSucceeded, MarkFailed
    <3>3. \E st \in OrionActionStatus : SetStatus(worker[w].cur, st)
      BY <2>3 DEF MarkSucceeded, MarkFailed, OrionActionStatus
    <3> QED BY <1>4, <3>1, <3>2, <3>3
  <2> QED BY <1>5, <2>1, <2>2, <2>3 DEF WorkerStep
<1>6. CASE \/ Start \/ Stop \/ StopReturns \/ Crash \/ RecoverSelect \/ UNCHANGED vars
           \/ \E a \in Actions : CheckCancel(a) \/ Deadline(a)
  BY <1>3, <1>6 DEF Start, Stop, StopReturns, Crash, RecoverSelect, CheckCancel, Deadline, vars, table
<1>7. ASSUME NEW a \in Actions, Retry(a) \/ RecoverExpire(a) PROVE Headroom'
  <2>1. row[a] # None
    BY <1>7 DEF SharedInv, Commands, Retry, RecoverExpire
  <2> QED BY <1>4, <1>7, <2>1 DEF Retry, RecoverExpire, OrionActionStatus
<1>8. CASE MarkCancelled
  <2>1. cancelling \in Actions /\ row[cancelling] # None
    BY <1>8 DEF SharedInv, TypeOK, Commands, MarkCancelled
  <2> QED BY <1>4, <1>8, <2>1 DEF MarkCancelled, OrionActionStatus
<1> QED BY <1>1, <1>2, <1>5, <1>6, <1>7, <1>8 DEF Next, ExecutorNext, CommandNext

\* Each process that submits overshoots the size limit by one row at most (queue.py 68,
\* 121-127), if there is one at all.
THEOREM BoundedQueue ==
  ASSUME Submitters # {} PROVE Spec => []QueueIsBounded
<1>1. Init => Headroom
  <2> SUFFICES ASSUME Init PROVE Headroom
    OBVIOUS
  <2>1. Rows = {} /\ Waiters = {}
    BY DEF Init, Rows, Waiters
  <2>2. Cardinality(Submitters) # 0
    BY OrionAssumption, FS_EmptySet
  <2> QED BY <2>1, <2>2, Finite, FS_EmptySet, OrionAssumption DEF Headroom
<1>2. Headroom => QueueIsBounded
  BY Finite, OrionAssumption DEF Headroom, QueueIsBounded
<1> QED BY <1>1, <1>2, SharedInit, SharedStep, HeadroomKept, PTL DEF Spec

-----------------------------------------------------------------------------
(* The promise to the submitter.                                           *)

\* Left alone by operators, the thread finds every row as it listed it.
Alone ==
  /\ cancelling = None /\ expiring = {}
  /\ \A w \in Workers :
       /\ worker[w].at = "sweep" =>
            \A a \in worker[w].todo : row[a] \in {"PENDING", "RUNNING"}
       /\ worker[w].at = "batch" \/ Busy(w) => \A a \in worker[w].todo : row[a] = "PENDING"
       /\ Busy(w) => row[worker[w].cur] = "RUNNING"

\* What the submitter sees of a row.
Seen(st) == IF st = None THEN "none" ELSE IF st \in Settled THEN "settled" ELSE "open"

Phases == [a \in Actions |-> Seen(row[a])]

LEMMA PhasesAreMapped ==
  /\ Phases = [a \in Actions |->
       IF row[a] = None THEN "none" ELSE IF row[a] \in Settled THEN "settled" ELSE "open"]
  /\ Phases' = [a \in Actions |->
       IF row'[a] = None THEN "none" ELSE IF row'[a] \in Settled THEN "settled" ELSE "open"]
BY Zenon DEF Phases, Seen

\* A write of one row changes what is seen of that row.
LEMMA SeenChanges ==
  ASSUME TypeOK, NEW a \in Actions, NEW st, SetStatus(a, st)
  PROVE  Phases' = [Phases EXCEPT ![a] = Seen(st)]
BY DEF TypeOK, SetStatus, Phases

LEMMA SeenAs ==
  /\ Seen("PENDING") = "open" /\ Seen("RUNNING") = "open" /\ Seen(None) = "none"
  /\ \A st \in Settled : Seen(st) = "settled"
BY NoneIsNoStatus DEF Seen, Settled

\* A step of the queue as a step of the promise.
PromiseStep ==
  \/ Phases' = Phases /\ effect' = effect
  \/ \E a \in Actions :
       \/ /\ Phases[a] = "none" /\ Phases' = [Phases EXCEPT ![a] = "open"] /\ effect' = effect
       \/ /\ Phases[a] = "open" /\ Phases' = [Phases EXCEPT ![a] = "settled"] /\ effect' = effect
       \/ /\ Phases[a] = "open" /\ effect[a] = 0 /\ effect' = [effect EXCEPT ![a] = 1]
          /\ Phases' = Phases

\* A write of an open row settles it or leaves it open.
LEMMA OpenRowWritten ==
  ASSUME TypeOK, NEW a \in Actions, row[a] \in {"PENDING", "RUNNING"},
         NEW st \in {"PENDING", "RUNNING"} \cup Settled, SetStatus(a, st), UNCHANGED effect
  PROVE  PromiseStep
<1>1. Phases[a] = "open" /\ Phases' = [Phases EXCEPT ![a] = Seen(st)]
  BY SeenAs, SeenChanges DEF Phases
<1>2. CASE st \in Settled
  BY <1>1, <1>2, SeenAs DEF PromiseStep
<1>3. CASE st \in {"PENDING", "RUNNING"}
  <2>1. Phases' = Phases
    BY <1>1, <1>3, SeenAs DEF Phases
  <2> QED BY <2>1 DEF PromiseStep
<1> QED BY <1>2, <1>3

LEMMA NothingSeen ==
  ASSUME UNCHANGED <<row, effect>>
  PROVE  PromiseStep
BY DEF PromiseStep, Phases, Seen

LEMMA StepRefines ==
  ASSUME OneThread, IInv, Alone, [ExecutorNext]_vars
  PROVE  PromiseStep
<1>1. ASSUME NEW w \in Workers, NEW a \in Actions, SweepExpire(w, a) PROVE PromiseStep
  <2>1. row[a] \in {"PENDING", "RUNNING"}
    BY <1>1 DEF SweepExpire, Alone
  <2> QED BY <1>1, <2>1, OpenRowWritten DEF SweepExpire, IInv, Settled, history
<1>2. ASSUME NEW w \in Workers, NEW a \in Actions, MarkRunning(w, a) PROVE PromiseStep
  <2>1. row[a] \in {"PENDING", "RUNNING"}
    BY <1>2 DEF MarkRunning, Alone
  <2> QED BY <1>2, <2>1, OpenRowWritten DEF MarkRunning, IInv, history
<1>3. ASSUME NEW w \in Workers, MarkSucceeded(w) PROVE PromiseStep
  <2>1. worker[w].cur \in Actions /\ row[worker[w].cur] \in {"PENDING", "RUNNING"}
    BY <1>3 DEF MarkSucceeded, Alone, Busy, IInv, ListInv
  <2> QED BY <1>3, <2>1, OpenRowWritten DEF MarkSucceeded, IInv, Settled, history
<1>4. ASSUME NEW w \in Workers, MarkFailed(w) PROVE PromiseStep
  <2>1. worker[w].cur \in Actions /\ row[worker[w].cur] \in {"PENDING", "RUNNING"}
    BY <1>4 DEF MarkFailed, Alone, Busy, IInv, ListInv
  <2>2. SetStatus(worker[w].cur, "PENDING") \/ SetStatus(worker[w].cur, "FAILED")
    BY <1>4 DEF MarkFailed
  <2> QED BY <1>4, <2>1, <2>2, OpenRowWritten DEF MarkFailed, IInv, Settled, history
<1>5. ASSUME NEW w \in Workers, Execute(w) PROVE PromiseStep
  <2> DEFINE a == worker[w].cur
  <2>1. a \in Actions /\ row[a] = "RUNNING" /\ effect[a] = 0
    BY <1>5 DEF Execute, Alone, Busy, IInv, ListInv, Untaken
  <2>2. row' = row /\ (effect' = effect \/ effect' = [effect EXCEPT ![a] = effect[a] + 1])
    BY <1>5 DEF Execute, HandlerReturns, HandlerRaises, table, history
  <2>3. Phases[a] = "open" /\ Phases' = Phases
    BY <2>1, <2>2, SeenAs DEF Phases
  <2> HIDE DEF a
  <2>4. effect' = effect \/ effect' = [effect EXCEPT ![a] = 1]
    BY <2>1, <2>2
  <2> QED BY <2>1, <2>3, <2>4 DEF PromiseStep
<1>6. ASSUME NEW p \in Submitters, Insert(p) PROVE PromiseStep
  <2>1. checked[p] \in Actions
    BY <1>6 DEF Insert, IInv, TypeOK
  <2>2. CASE KeyIsFree(checked[p])
    <3>1. SetStatus(checked[p], "PENDING") /\ effect' = effect
      BY <1>6, <2>2 DEF Insert, history
    <3>2. row[checked[p]] = None
      BY <2>1, <2>2 DEF KeyIsFree, SameKey, Rows
    <3>3. Phases' = [Phases EXCEPT ![checked[p]] = "open"]
      BY <2>1, <3>1, SeenAs, SeenChanges DEF IInv
    <3>4. Phases[checked[p]] = "none"
      BY <2>1, <3>2, SeenAs DEF Phases
    <3> QED BY <2>1, <3>1, <3>3, <3>4 DEF PromiseStep
  <2>3. CASE ~KeyIsFree(checked[p])
    BY <1>6, <2>3, NothingSeen DEF Insert, history
  <2> QED BY <2>2, <2>3
<1>7. ASSUME NEW w \in Workers,
             Sweep(w) \/ ListRunnable(w) \/ EndBatch(w) \/ ThreadEnds(w) \/ WriteFails(w)
      PROVE  PromiseStep
  BY <1>7, NothingSeen DEF Sweep, ListRunnable, EndBatch, ThreadEnds, WriteFails, table, history
<1>8. ASSUME NEW a \in Actions, NEW p \in Submitters, CheckEnqueue(p, a)
      PROVE  PromiseStep
  BY <1>8, NothingSeen DEF CheckEnqueue, table, history
<1>9. CASE Start \/ Stop \/ StopReturns \/ Crash \/ UNCHANGED vars
  BY <1>9, NothingSeen DEF Start, Stop, StopReturns, Crash, vars, table, history
<1>10. ASSUME NEW a \in Actions, Deadline(a) PROVE PromiseStep
  BY <1>10, NothingSeen DEF Deadline, table, history
<1> QED BY <1>1, <1>2, <1>3, <1>4, <1>5, <1>6, <1>7, <1>8, <1>9, <1>10
        DEF ExecutorNext, WorkerStep

\* A step that writes no row and lists nothing new.
LEMMA AloneStands ==
  ASSUME Alone, UNCHANGED <<row, cancelling, expiring>>,
         \A w \in Workers :
           \/ worker'[w].at \in {"off", "idle"}
           \/ worker'[w] = worker[w]
           \/ /\ worker'[w].at \in {"batch", "sweep"} /\ worker'[w].at = worker[w].at
              /\ worker'[w].todo \subseteq worker[w].todo
           \/ /\ worker'[w].at = "batch" /\ Busy(w)
              /\ worker'[w].todo = worker[w].todo
           \/ /\ Busy(w) /\ Busy(w)'
              /\ worker'[w].todo = worker[w].todo /\ worker'[w].cur = worker[w].cur
  PROVE  Alone'
<1> SUFFICES ASSUME NEW w \in Workers
             PROVE  /\ worker'[w].at = "sweep" =>
                         \A a \in worker'[w].todo : row[a] \in {"PENDING", "RUNNING"}
                    /\ worker'[w].at = "batch" \/ Busy(w)' =>
                         \A a \in worker'[w].todo : row[a] = "PENDING"
                    /\ Busy(w)' => row[worker'[w].cur] = "RUNNING"
  BY DEF Alone
<1>1. CASE worker'[w].at \in {"off", "idle"}
  BY <1>1 DEF Busy
<1>2. CASE worker'[w] = worker[w]
  BY <1>2 DEF Alone, Busy
<1>3. CASE /\ worker'[w].at \in {"batch", "sweep"} /\ worker'[w].at = worker[w].at
           /\ worker'[w].todo \subseteq worker[w].todo
  BY <1>3 DEF Alone, Busy
<1>4. CASE /\ worker'[w].at = "batch" /\ Busy(w)
           /\ worker'[w].todo = worker[w].todo
  BY <1>4 DEF Alone, Busy
<1>5. CASE /\ Busy(w) /\ Busy(w)'
           /\ worker'[w].todo = worker[w].todo /\ worker'[w].cur = worker[w].cur
  BY <1>5 DEF Alone, Busy
<1> QED BY <1>1, <1>2, <1>3, <1>4, <1>5

LEMMA StepAlone ==
  ASSUME OneThread, IInv, Alone, [ExecutorNext]_vars
  PROVE  Alone'
<1> USE DEF IInv
<1>0. ASSUME NEW w \in Workers PROVE worker[w] \in WorkerType /\ \A v \in Workers : v = w
  BY DEF TypeOK, OneThread, WorkerType
<1>1. ASSUME NEW w \in Workers, Sweep(w) PROVE Alone'
  <2>1. worker'[w].at = "sweep" /\ worker'[w].todo = {a \in Actions : Due(a)}
    BY <1>1 DEF Sweep, Goto, TypeOK
  <2>2. \A a \in worker'[w].todo : row[a] \in {"PENDING", "RUNNING"}
    BY <2>1 DEF Due
  <2> QED BY <1>0, <1>1, <2>1, <2>2 DEF Sweep, Alone, Busy, table
<1>2. ASSUME NEW w \in Workers, NEW a \in Actions, SweepExpire(w, a) PROVE Alone'
  <2>1. /\ worker'[w].at = "sweep" /\ worker'[w].todo = worker[w].todo \ {a}
        /\ \A b \in Actions \ {a} : row'[b] = row[b]
        /\ worker[w].todo \subseteq Actions
    BY <1>0, <1>2 DEF SweepExpire, SetStatus, TypeOK, WorkerType
  <2> QED BY <1>0, <1>2, <2>1 DEF SweepExpire, Alone, Busy
<1>3. ASSUME NEW w \in Workers, ListRunnable(w) PROVE Alone'
  <2>1. worker'[w].at = "batch" /\ worker'[w].todo = Runnable
    BY <1>3 DEF ListRunnable, Goto, TypeOK
  <2> QED BY <1>0, <1>3, <2>1 DEF ListRunnable, Alone, Busy, Runnable, table
<1>4. ASSUME NEW w \in Workers, NEW a \in Actions, MarkRunning(w, a) PROVE Alone'
  <2>1. /\ worker'[w].at = "run" /\ worker'[w].todo = worker[w].todo \ {a}
        /\ worker'[w].cur = a /\ row'[a] = "RUNNING"
        /\ \A b \in Actions \ {a} : row'[b] = row[b]
        /\ worker[w].todo \subseteq Actions
    BY <1>0, <1>4 DEF MarkRunning, Goto, SetStatus, TypeOK, WorkerType
  <2> QED BY <1>0, <1>4, <2>1 DEF MarkRunning, Alone, Busy
<1>5. ASSUME NEW w \in Workers, EndBatch(w) \/ ThreadEnds(w) PROVE Alone'
  <2>1. worker'[w].at \in {"off", "idle"}
    BY <1>5, OffIsTyped, WaitingIsTyped DEF EndBatch, ThreadEnds, Goto, TypeOK
  <2> QED BY <1>0, <1>5, <2>1, AloneStands DEF EndBatch, ThreadEnds, table
<1>6. ASSUME NEW w \in Workers, Execute(w) PROVE Alone'
  <2>1. /\ worker[w].at = "run" /\ worker'[w].at \in {"returned", "raised"}
        /\ worker'[w].todo = worker[w].todo /\ worker'[w].cur = worker[w].cur
    BY <1>0, <1>6 DEF Execute, HandlerReturns, HandlerRaises, TypeOK, WorkerType
  <2> QED BY <1>0, <1>6, <2>1, AloneStands DEF Execute, Busy, table
<1>7. ASSUME NEW w \in Workers, MarkSucceeded(w) \/ MarkFailed(w) PROVE Alone'
  <2>1. /\ Busy(w) /\ worker'[w].at = "batch" /\ worker'[w].todo = worker[w].todo
        /\ worker[w].todo \subseteq Actions /\ worker[w].cur \in Actions \ worker[w].todo
        /\ \A b \in Actions \ {worker[w].cur} : row'[b] = row[b]
    <3>1. /\ Busy(w) /\ worker'[w] = [worker[w] EXCEPT !.at = "batch", !.cur = None]
      BY <1>7 DEF MarkSucceeded, MarkFailed, Goto, Busy, TypeOK
    <3>2. worker'[w].at = "batch" /\ worker'[w].todo = worker[w].todo
      BY <1>0, <3>1 DEF WorkerType
    <3>3. worker[w].todo \subseteq Actions /\ worker[w].cur \in Actions \ worker[w].todo
      BY <1>0, <3>1 DEF ListInv, WorkerType
    <3>4. \A b \in Actions \ {worker[w].cur} : row'[b] = row[b]
      BY <1>7 DEF MarkSucceeded, MarkFailed, SetStatus, TypeOK
    <3> QED BY <3>1, <3>2, <3>3, <3>4
  <2> QED BY <1>0, <1>7, <2>1 DEF MarkSucceeded, MarkFailed, Alone, Busy
<1>8. ASSUME NEW w \in Workers, WriteFails(w) PROVE Alone'
  <2>1. \/ worker'[w].at \in {"off", "idle"}
        \/ /\ worker'[w].at = "batch" /\ worker'[w].at = worker[w].at
           /\ worker'[w].todo \subseteq worker[w].todo
        \/ worker'[w].at = "batch" /\ Busy(w) /\ worker'[w].todo = worker[w].todo
    <3>1. CASE worker[w].at = "batch"
      <4>1. PICK a \in worker[w].todo : worker' = [worker EXCEPT ![w].todo = @ \ {a}]
        BY <1>8, <3>1 DEF WriteFails
      <4> QED BY <1>0, <3>1, <4>1 DEF TypeOK, WorkerType
    <3>2. CASE worker[w].at = "returned"
      <4>1. worker'[w] = [worker[w] EXCEPT !.at = "batch", !.cur = None]
        BY <1>8, <3>2 DEF WriteFails, Goto, TypeOK
      <4> QED BY <1>0, <3>2, <4>1 DEF Busy, WorkerType
    <3>3. CASE worker[w].at \in {"sweep", "raised"}
      <4>1. worker'[w] = Waiting
        BY <1>8, <3>3 DEF WriteFails, Goto, TypeOK
      <4> QED BY <4>1, WaitingIsTyped
    <3> QED BY <1>8, <3>1, <3>2, <3>3 DEF WriteFails
  <2> QED BY <1>0, <1>8, <2>1, AloneStands DEF WriteFails, table
<1>9. ASSUME NEW p \in Submitters, Insert(p) PROVE Alone'
  <2>1. \A b \in Actions : row[b] # None => row'[b] = row[b]
    BY <1>9 DEF Insert, KeyIsFree, SameKey, Rows, SetStatus, TypeOK
  <2>2. \A w \in Workers : worker[w].todo \subseteq Actions
    BY <1>0 DEF WorkerType
  <2> QED BY <1>9, <2>1, <2>2, NoneIsNoStatus DEF Insert, Alone, Busy, ListInv
<1>10. CASE Start \/ Crash
  <2>1. \A w \in Workers : worker'[w].at \in {"off", "idle"} \/ worker'[w] = worker[w]
    BY <1>10, OffIsTyped, WaitingIsTyped DEF Start, Crash, Goto, TypeOK
  <2> QED BY <1>10, <2>1, AloneStands DEF Start, Crash, table
<1>11. UNCHANGED <<row, worker, cancelling, expiring>> => Alone'
  BY AloneStands
<1>12. ASSUME NEW a \in Actions, NEW p \in Submitters, CheckEnqueue(p, a) PROVE Alone'
  BY <1>11, <1>12 DEF CheckEnqueue, table
<1>13. ASSUME NEW a \in Actions, Deadline(a) PROVE Alone'
  BY <1>11, <1>13 DEF Deadline, table
<1>14. CASE Stop \/ StopReturns \/ UNCHANGED vars
  BY <1>11, <1>14 DEF Stop, StopReturns, vars, table
<1> QED BY <1>1, <1>2, <1>3, <1>4, <1>5, <1>6, <1>7, <1>8, <1>9, <1>10, <1>12, <1>13, <1>14
        DEF ExecutorNext, WorkerStep

LEMMA AloneInit == Init => IInv /\ Alone
<1>1. ASSUME Init PROVE Alone
  <2>1. \A w \in Workers : worker[w].at = "off"
    BY <1>1, OffIsTyped DEF Init
  <2> QED BY <1>1, <2>1 DEF Init, Alone, Busy
<1> QED BY <1>1, InitHolds

\* Left to itself and with one thread the executor implements OrionPromise: for
\* any number of actions, an accepted one takes effect once at most, only while it
\* is open, and a settled one never reopens, whatever crashes, lost writes and
\* retries there are (queue.py 187-219, executor.py 95-135).
THEOREM PromiseKept ==
  ASSUME OneThread PROVE Unattended => KeepsOrionPromise
<1>1. Init => IInv /\ Alone
  BY AloneInit
<1>2. Init => Promise!Init
  BY NoneIsNoStatus DEF Init, Promise!Init
<1>3. IInv /\ Alone /\ [ExecutorNext]_vars => (IInv /\ Alone)'
  BY StepKeeps, StepAlone DEF Next
<1>4. IInv /\ Alone /\ [ExecutorNext]_vars => [Promise!Next]_(Promise!vars)
  <2> SUFFICES ASSUME IInv, Alone, [ExecutorNext]_vars PROVE [Promise!Next]_(Promise!vars)
    OBVIOUS
  <2>1. PromiseStep
    BY StepRefines
  <2> QED BY <2>1, PhasesAreMapped DEF PromiseStep, Promise!Next, Promise!Submit,
      Promise!TakeEffect, Promise!Settle, Promise!vars
<1> QED BY <1>1, <1>2, <1>3, <1>4, PTL DEF Unattended, KeepsOrionPromise, Promise!Spec

-----------------------------------------------------------------------------
(* What EverythingSettles rests on: an action goes on or spends a retry.   *)

\* How far a row is; a settled one is at the end.
Far(st) == CASE st = None -> 0 [] st = "PENDING" -> 1 [] st = "RUNNING" -> 2 [] OTHER -> 3

Advances(a) ==
  \/ row'[a] = row[a] /\ retries'[a] = retries[a]
  \/ row[a] = "RUNNING" /\ row'[a] = "PENDING" /\ retries'[a] = retries[a] + 1
  \/ Far(row[a]) < Far(row'[a]) /\ retries'[a] = retries[a]

AllAdvance == \A a \in Actions : Advances(a)

ActionsAdvance == [][AllAdvance]_vars

LEMMA FarIs ==
  /\ Far(None) = 0 /\ Far("PENDING") = 1 /\ Far("RUNNING") = 2
  /\ \A st \in Settled : Far(st) = 3
BY NoneIsNoStatus DEF Far, Settled

LEMMA RowAdvances ==
  ASSUME TypeOK, NEW a \in Actions, NEW st \in OrionActionStatus, SetStatus(a, st),
         Far(row[a]) < Far(st), UNCHANGED retries
  PROVE  AllAdvance
<1>1. row'[a] = st /\ \A b \in Actions \ {a} : row'[b] = row[b]
  BY DEF TypeOK, SetStatus
<1> QED BY <1>1 DEF AllAdvance, Advances

LEMMA NothingAdvances ==
  ASSUME UNCHANGED table
  PROVE  AllAdvance
BY DEF AllAdvance, Advances, table

LEMMA StepAdvances ==
  ASSUME OneThread, IInv, Alone, [ExecutorNext]_vars
  PROVE  AllAdvance
<1>0. TypeOK /\ {"PENDING", "RUNNING", "SUCCEEDED", "FAILED", "EXPIRED"} \subseteq OrionActionStatus
      /\ {"SUCCEEDED", "FAILED", "EXPIRED"} \subseteq Settled
  BY DEF IInv, OrionActionStatus, Settled
<1>1. ASSUME NEW w \in Workers, NEW a \in Actions, SweepExpire(w, a) PROVE AllAdvance
  <2>1. SetStatus(a, "EXPIRED") /\ UNCHANGED retries
    BY <1>1 DEF SweepExpire
  <2>2. row[a] \in {"PENDING", "RUNNING"}
    BY <1>1 DEF SweepExpire, Alone
  <2>3. Far(row[a]) < Far("EXPIRED")
    BY <1>0, <2>2, FarIs
  <2> QED BY <1>0, <2>1, <2>3, RowAdvances
<1>2. ASSUME NEW w \in Workers, NEW a \in Actions, MarkRunning(w, a) PROVE AllAdvance
  <2>1. SetStatus(a, "RUNNING") /\ UNCHANGED retries
    BY <1>2 DEF MarkRunning
  <2>2. row[a] = "PENDING"
    BY <1>2 DEF MarkRunning, Alone
  <2>3. Far(row[a]) < Far("RUNNING")
    BY <2>2, FarIs
  <2> QED BY <1>0, <2>1, <2>3, RowAdvances
<1>3. ASSUME NEW w \in Workers, MarkSucceeded(w) \/ MarkFailed(w)
      PROVE  worker[w].cur \in Actions /\ row[worker[w].cur] = "RUNNING"
  BY <1>3 DEF MarkSucceeded, MarkFailed, Alone, Busy, IInv, ListInv
<1>4. ASSUME NEW w \in Workers, NEW st \in {"SUCCEEDED", "FAILED"},
             SetStatus(worker[w].cur, st), UNCHANGED retries, MarkSucceeded(w) \/ MarkFailed(w)
      PROVE  AllAdvance
  <2>1. worker[w].cur \in Actions /\ row[worker[w].cur] = "RUNNING"
    BY <1>3, <1>4
  <2>2. Far(row[worker[w].cur]) < Far(st)
    BY <1>0, <2>1, FarIs
  <2> QED BY <1>0, <1>4, <2>1, <2>2, RowAdvances
<1>5. ASSUME NEW w \in Workers, MarkSucceeded(w) PROVE AllAdvance
  BY <1>4, <1>5, Zenon DEF MarkSucceeded
<1>6. ASSUME NEW w \in Workers, MarkFailed(w) PROVE AllAdvance
  <2> DEFINE a == worker[w].cur
  <2>1. a \in Actions /\ row[a] = "RUNNING"
    BY <1>3, <1>6
  <2>2. CASE CanRetry(a) /\ failures < FailureCap
    <3>1. SetStatus(a, "PENDING") /\ retries' = [retries EXCEPT ![a] = CountedOnce(@)]
      BY <1>6, <2>2 DEF MarkFailed
    <3> HIDE DEF a
    <3>2. row'[a] = "PENDING" /\ retries'[a] = retries[a] + 1
          /\ \A b \in Actions \ {a} : row'[b] = row[b] /\ retries'[b] = retries[b]
      BY <1>0, <2>1, <3>1 DEF TypeOK, SetStatus, CountedOnce
    <3> QED BY <2>1, <3>2 DEF AllAdvance, Advances
  <2>3. CASE ~(CanRetry(a) /\ failures < FailureCap)
    <3>1. SetStatus(a, "FAILED") /\ UNCHANGED retries
      BY <1>6, <2>3 DEF MarkFailed
    <3> QED BY <1>4, <1>6, <3>1
  <2> QED BY <2>2, <2>3
<1>7. ASSUME NEW p \in Submitters, Insert(p) PROVE AllAdvance
  <2>1. CASE KeyIsFree(checked[p])
    <3>1. checked[p] \in Actions /\ SetStatus(checked[p], "PENDING") /\ UNCHANGED retries
      BY <1>7, <2>1, <1>0 DEF Insert, TypeOK
    <3>2. row[checked[p]] = None
      BY <2>1, <3>1 DEF KeyIsFree, SameKey, Rows
    <3>3. Far(row[checked[p]]) < Far("PENDING")
      BY <3>2, FarIs
    <3> QED BY <1>0, <3>1, <3>3, RowAdvances
  <2>2. CASE ~KeyIsFree(checked[p])
    <3>1. UNCHANGED table
      BY <1>7, <2>2 DEF Insert, table
    <3> QED BY <3>1, NothingAdvances
  <2> QED BY <2>1, <2>2
<1>8. ASSUME NEW w \in Workers,
             \/ Sweep(w) \/ ListRunnable(w) \/ EndBatch(w) \/ ThreadEnds(w) \/ WriteFails(w)
             \/ Execute(w)
      PROVE  AllAdvance
  BY <1>8, NothingAdvances DEF Sweep, ListRunnable, EndBatch, ThreadEnds, WriteFails, Execute
<1>9. ASSUME NEW a \in Actions, NEW p \in Submitters, CheckEnqueue(p, a) PROVE AllAdvance
  BY <1>9, NothingAdvances DEF CheckEnqueue
<1>10. CASE Start \/ Stop \/ StopReturns \/ Crash \/ UNCHANGED vars
  BY <1>10, NothingAdvances DEF Start, Stop, StopReturns, Crash, vars
<1>11. ASSUME NEW a \in Actions, Deadline(a) PROVE AllAdvance
  BY <1>11, NothingAdvances DEF Deadline
<1>12. ASSUME NEW w \in Workers, WorkerStep(w) \/ WriteFails(w) PROVE AllAdvance
  BY <1>1, <1>2, <1>5, <1>6, <1>8, <1>12, Zenon DEF WorkerStep
<1>13. CASE ExecutorNext
  BY <1>7, <1>9, <1>10, <1>11, <1>12, <1>13, Zenon DEF ExecutorNext
<1> QED BY <1>10, <1>13

\* Left to itself and with one thread the executor takes no action back, except that a
\* failed attempt makes it PENDING again for a retry, of which there are max_retries: no
\* crash, lost write or sweep undoes what a row says (queue.py 150-219, executor.py
\* 95-135).  So each action comes to its end after a bounded number of writes.
THEOREM ActionsComeToAnEnd ==
  ASSUME OneThread PROVE Unattended => ActionsAdvance
<1>1. Init => IInv /\ Alone
  BY AloneInit
<1>2. IInv /\ Alone /\ [ExecutorNext]_vars => (IInv /\ Alone)'
  BY StepKeeps, StepAlone DEF Next
<1>3. IInv /\ Alone /\ [ExecutorNext]_vars => [AllAdvance]_vars
  BY StepAdvances
<1> QED BY <1>1, <1>2, <1>3, PTL DEF Unattended, ActionsAdvance

-----------------------------------------------------------------------------
\* The places a thread goes through with a snapshot in hand.
Calling == {"call", "failed", "requeue"}
Delivering == Calling \cup {"deliver"}

\* A thread has a snapshot exactly while it delivers, and handlers to call exactly
\* while it calls them; the publisher only delivers.
WellPlaced(t, r) ==
  /\ r.at \in Delivering <=> r.batch # <<>>
  /\ r.at \in Calling <=> r.todo # <<>>
  /\ t = "publisher" => r.at \in Delivering \cup {"off"}

ThreadsTyped ==
  /\ busThread \in [Threads -> Thread]
  /\ \A t \in Threads : WellPlaced(t, busThread[t])

BusTyped == BusTypeOK /\ ThreadsTyped

LEMMA BusInitTyped == BusInit => BusTyped
<1> SUFFICES ASSUME BusInit PROVE BusTyped
  OBVIOUS
<1>1. BusOff \in Thread
  BY EmptySeq DEF BusOff, Thread
<1>2. Unpublished \in [device : Devices \cup {0}, sequence : Nat]
  BY DEF Unpublished
<1>3. queue \in Seq(Events) /\ Len(queue) <= MaxQueueSize
  BY BusAssumption, EmptySeq DEF BusInit, BusAssumption
<1>4. order \in Seq(Events) /\ handlers \in Seq(Handlers)
  BY EmptySeq DEF BusInit
<1>5. BusTypeOK
  <2>1. /\ event \in [Events -> [device : Devices \cup {0}, sequence : Nat]]
        /\ busThread \in [Threads -> Thread]
    BY <1>1, <1>2 DEF BusInit
  <2>2. /\ perDevice \in [Devices -> Nat] /\ retryCounts \in [Events -> Nat]
        /\ made \in [Events -> Nat] /\ rounds \in [Events -> Nat] /\ lost \in [Events -> Nat]
    BY DEF BusInit
  <2> QED BY <1>3, <1>4, <2>1, <2>2 DEF BusInit, BusTypeOK
<1>6. ASSUME NEW t \in Threads PROVE WellPlaced(t, busThread[t])
  <2>1. busThread[t] = BusOff
    BY DEF BusInit
  <2> QED BY <2>1 DEF WellPlaced, BusOff, Calling, Delivering
<1> QED BY <1>5, <1>6 DEF ThreadsTyped, BusTyped, BusTypeOK

-----------------------------------------------------------------------------
\* The sequences a step makes.
LEMMA SortedKeeps ==
  ASSUME NEW S, NEW s \in Seq(S), NEW q \in Sorted(s)
  PROVE  /\ q \in Seq(S)
         /\ Len(q) = Len(s)
         /\ \E p \in Bijection(DOMAIN s, DOMAIN s) : \A i \in DOMAIN s : q[i] = s[p[i]]
         /\ \A i, j \in DOMAIN s : i < j => ~Earlier(q[j], q[i])
<1>1. PICK p \in Bijection(DOMAIN s, DOMAIN s) : q = [i \in DOMAIN s |-> s[p[i]]]
  BY DEF Sorted
<1>2. DOMAIN s = 1 .. Len(s) /\ Len(s) \in Nat
  BY LenProperties
<1>3. p \in [DOMAIN s -> DOMAIN s]
  BY DEF Bijection, Surjection
<1>4. \A i \in 1 .. Len(s) : s[p[i]] \in S
  BY <1>2, <1>3, ElementOfSeq
<1>5. q \in [1 .. Len(s) -> S]
  BY <1>1, <1>2, <1>4
<1>6. q \in Seq(S)
  BY <1>2, <1>5, SeqDef
<1>7. Len(q) = Len(s)
  BY <1>2, <1>5, <1>6, LenProperties
<1>8. \A i, j \in DOMAIN s : i < j => ~Earlier(q[j], q[i])
  BY DEF Sorted
<1> QED BY <1>1, <1>6, <1>7, <1>8

\* A set of numbers that is not empty has a least one.
LEMMA LeastOf ==
  ASSUME NEW T, T \subseteq Nat, T # {}
  PROVE  \E x \in T : \A y \in T : x <= y
<1>1. PICK x \in T : \A y \in T : <<y, x>> \notin OpToRel(<, Nat)
  BY NatLessThanWellFounded, WFMin
<1>2. \A y \in T : ~(y < x)
  BY <1>1 DEF OpToRel
<1>3. ASSUME NEW y \in T PROVE x <= y
  <2>1. x \in Nat /\ y \in Nat /\ ~(y < x)
    BY <1>2
  <2> QED BY <2>1
<1> QED BY <1>3

LEMMA EarlierIsAnOrder ==
  ASSUME event \in [Events -> [device : Devices \cup {0}, sequence : Nat]],
         NEW e \in Events, NEW f \in Events, NEW g \in Events
  PROVE  /\ ~Earlier(e, e)
         /\ Earlier(e, f) /\ Earlier(f, g) => Earlier(e, g)
<1>1. /\ event[e].device \in Nat /\ event[f].device \in Nat /\ event[g].device \in Nat
      /\ event[e].sequence \in Nat /\ event[f].sequence \in Nat /\ event[g].sequence \in Nat
  BY BusAssumption DEF Devices, BusAssumption
<1> QED BY <1>1 DEF Earlier

\* Into a sorted sequence one more event can be inserted.
LEMMA InsertSorts ==
  ASSUME event \in [Events -> [device : Devices \cup {0}, sequence : Nat]],
         NEW n \in Nat, NEW s \in Seq(Events), Len(s) = n + 1,
         NEW r \in Seq(Events), Len(r) = n, \A i \in 1 .. n : r[i] = s[i],
         NEW q \in Sorted(r)
  PROVE  Sorted(s) # {}
<1>0. DOMAIN s = 1 .. n + 1 /\ DOMAIN r = 1 .. n /\ \A i \in 1 .. n + 1 : s[i] \in Events
  BY LenProperties, ElementOfSeq
<1>1. /\ q \in Seq(Events) /\ Len(q) = n
      /\ \A i, j \in 1 .. n : i < j => ~Earlier(q[j], q[i])
  BY <1>0, SortedKeeps
<1>2. PICK p \in Bijection(1 .. n, 1 .. n) : \A i \in 1 .. n : q[i] = s[p[i]]
  <2>1. PICK p \in Bijection(1 .. n, 1 .. n) : \A i \in 1 .. n : q[i] = r[p[i]]
    BY <1>0, SortedKeeps
  <2>2. \A i \in 1 .. n : p[i] \in 1 .. n
    <3>1. p \in [1 .. n -> 1 .. n]
      BY Zenon DEF Bijection, Surjection
    <3> QED BY <3>1
  <2>3. \A i \in 1 .. n : q[i] = s[p[i]]
    BY <2>1, <2>2
  <2> QED BY <2>3
<1>3. /\ \A i \in 1 .. n : p[i] \in 1 .. n
      /\ \A i, j \in 1 .. n : p[i] = p[j] => i = j
      /\ \A j \in 1 .. n : \E i \in 1 .. n : p[i] = j
  BY DEF Bijection, Surjection, Injection, IsInjective
<1>4. PICK x \in Events : x = s[n + 1]
  BY <1>0
<1>5. \A i \in 1 .. n : q[i] \in Events
  BY <1>1, ElementOfSeq
\* The place for it: before the first event it is earlier than.
<1>6. PICK k \in 1 .. n + 1 :
        /\ \A i \in 1 .. n : i < k => ~Earlier(x, q[i])
        /\ k \in 1 .. n => Earlier(x, q[k])
  <2> DEFINE T == {i \in 1 .. n : Earlier(x, q[i])} \cup {n + 1}
  <2>1. T \subseteq Nat /\ T # {}
    OBVIOUS
  <2>2. PICK k \in T : \A y \in T : k <= y
    BY <2>1, LeastOf
  <2>3. k \in 1 .. n + 1 /\ (k \in 1 .. n => Earlier(x, q[k]))
    BY <2>2
  <2>4. ASSUME NEW i \in 1 .. n, i < k PROVE ~Earlier(x, q[i])
    BY <2>2, <2>3, <2>4
  <2> QED BY <2>3, <2>4
<1>7. k \in Nat
  OBVIOUS
<1> DEFINE P(i) == IF i < k THEN p[i] ELSE IF i = k THEN n + 1 ELSE p[i - 1]
           pp == [i \in 1 .. n + 1 |-> P(i)]
           qq == [i \in 1 .. n + 1 |-> s[pp[i]]]
<1>8. ASSUME NEW i \in 1 .. n + 1
      PROVE  \/ i < k /\ i \in 1 .. n
             \/ i = k
             \/ k < i /\ i - 1 \in 1 .. n
  OBVIOUS
<1>9. ASSUME NEW i \in 1 .. n + 1
      PROVE  /\ pp[i] = P(i) /\ qq[i] = s[pp[i]]
             /\ i < k => pp[i] = p[i] /\ pp[i] \in 1 .. n /\ qq[i] = q[i] /\ qq[i] \in Events
             /\ i = k => pp[i] = n + 1 /\ qq[i] = x
             /\ k < i => /\ pp[i] = p[i - 1] /\ pp[i] \in 1 .. n
                         /\ qq[i] = q[i - 1] /\ qq[i] \in Events
  <2>1. pp[i] = P(i) /\ qq[i] = s[pp[i]]
    OBVIOUS
  <2> HIDE DEF pp, qq
  <2>2. CASE i < k /\ i \in 1 .. n
    <3>1. pp[i] = p[i] /\ ~(i = k) /\ ~(k < i)
      BY <1>7, <2>1, <2>2
    <3>2. p[i] \in 1 .. n /\ q[i] = s[p[i]] /\ q[i] \in Events
      BY <1>2, <1>3, <1>5, <2>2
    <3> QED BY <2>1, <3>1, <3>2, Zenon
  <2>3. CASE i = k
    BY <1>4, <1>7, <2>1, <2>3
  <2>4. CASE k < i /\ i - 1 \in 1 .. n
    <3>1. pp[i] = p[i - 1] /\ ~(i = k) /\ ~(i < k)
      BY <1>7, <2>1, <2>4
    <3>2. p[i - 1] \in 1 .. n /\ q[i - 1] = s[p[i - 1]] /\ q[i - 1] \in Events
      BY <1>2, <1>3, <1>5, <2>4
    <3> QED BY <2>1, <3>1, <3>2, Zenon
  <2> QED BY <1>7, <1>8, <2>2, <2>3, <2>4
<1> HIDE DEF P
<1>10. pp \in Bijection(1 .. n + 1, 1 .. n + 1)
  <2>1. pp \in [1 .. n + 1 -> 1 .. n + 1]
    <3>1. \A i \in 1 .. n + 1 : pp[i] \in 1 .. n + 1
      <4> HIDE DEF pp
      <4> QED BY <1>8, <1>9
    <3>2. \A i \in 1 .. n + 1 : pp[i] = P(i)
      OBVIOUS
    <3> QED BY <3>1, <3>2
  <2> HIDE DEF pp
  <2>2. ASSUME NEW i \in 1 .. n + 1, NEW j \in 1 .. n + 1, pp[i] = pp[j] PROVE i = j
    <3>0. ASSUME NEW m \in 1 .. n + 1
          PROVE  (m = k => pp[m] = n + 1) /\ (m # k => pp[m] \in 1 .. n)
      <4>1. m < k \/ m = k \/ k < m
        BY <1>7
      <4>2. /\ m < k => pp[m] \in 1 .. n
            /\ m = k => pp[m] = n + 1
            /\ k < m => pp[m] \in 1 .. n
        BY <1>9
      <4>3. m = k => pp[m] = n + 1
        BY <4>2
      <4>4. m # k => pp[m] \in 1 .. n
        BY <4>1, <4>2
      <4> QED BY <4>3, <4>4
    <3>1. i = k <=> j = k
      <4>1. n + 1 \notin 1 .. n
        OBVIOUS
      <4>2. (i = k => pp[i] = n + 1) /\ (i # k => pp[i] \in 1 .. n)
        BY <3>0
      <4>3. (j = k => pp[j] = n + 1) /\ (j # k => pp[j] \in 1 .. n)
        BY <3>0
      <4> QED BY <2>2, <4>1, <4>2, <4>3, Zenon
    <3>2. CASE i # k /\ j # k
      <4>1. PICK a \in 1 .. n : pp[i] = p[a] /\ a = IF i < k THEN i ELSE i - 1
        BY <1>7, <1>8, <1>9, <3>2
      <4>2. PICK b \in 1 .. n : pp[j] = p[b] /\ b = IF j < k THEN j ELSE j - 1
        BY <1>7, <1>8, <1>9, <3>2
      <4>3. p[a] = p[b]
        BY <2>2, <4>1, <4>2
      <4>4. a = b
        BY <1>3, <4>3
      <4>5. i \in Int /\ j \in Int /\ k \in Int /\ a \in Int /\ b \in Int
        BY <1>7
      <4>6. (i < k => a = i) /\ (k < i => i = a + 1)
        BY <4>1, <4>5
      <4>7. (j < k => b = j) /\ (k < j => j = b + 1)
        BY <4>2, <4>5
      <4>8. (i < k \/ k < i) /\ (j < k \/ k < j)
        BY <3>2, <4>5
      <4> HIDE DEF qq
      <4> QED BY <4>4, <4>5, <4>6, <4>7, <4>8
    <3> QED BY <3>1, <3>2
  <2>3. ASSUME NEW j \in 1 .. n + 1 PROVE \E i \in 1 .. n + 1 : pp[i] = j
    <3>1. CASE j = n + 1
      BY <1>9, <3>1
    <3>2. CASE j \in 1 .. n
      <4>1. PICK a \in 1 .. n : p[a] = j
        BY <1>3, <3>2
      <4>2. CASE a < k
        <5>1. a \in 1 .. n + 1
          OBVIOUS
        <5> QED BY <1>9, <4>1, <4>2, <5>1
      <4>3. CASE ~(a < k)
        <5>1. a + 1 \in 1 .. n + 1 /\ k < a + 1 /\ (a + 1) - 1 = a
          BY <1>7, <4>3
        <5>2. pp[a + 1] = p[(a + 1) - 1]
          BY <1>9, <5>1
        <5> QED BY <4>1, <5>1, <5>2
      <4> QED BY <4>2, <4>3
    <3> QED BY <3>1, <3>2
  <2>4. pp \in Injection(1 .. n + 1, 1 .. n + 1)
    BY <2>1, <2>2, Zenon DEF Injection, IsInjective
  <2>5. pp \in Surjection(1 .. n + 1, 1 .. n + 1)
    BY <2>1, <2>3, Zenon DEF Surjection
  <2> QED BY <2>4, <2>5, Zenon DEF Bijection
<1>11. ASSUME NEW i \in 1 .. n + 1, NEW j \in 1 .. n + 1, i < j PROVE ~Earlier(qq[j], qq[i])
  <2> HIDE DEF pp, qq
  <2>1. CASE j < k
    <3>1. i < k /\ i \in 1 .. n /\ j \in 1 .. n
      BY <1>7, <1>11, <2>1
    <3> QED BY <1>1, <1>9, <1>11, <2>1, <3>1
  <2>2. CASE j = k
    <3>1. i < k /\ i \in 1 .. n
      BY <1>7, <1>11, <2>2
    <3> QED BY <1>6, <1>9, <2>2, <3>1
  <2>3. CASE k < j /\ i < k
    <3>1. i \in 1 .. n /\ j - 1 \in 1 .. n /\ i < j - 1
      BY <1>7, <1>11, <2>3
    <3> QED BY <1>1, <1>9, <2>3, <3>1
  <2>4. CASE k < j /\ i = k
    <3>1. k \in 1 .. n /\ j - 1 \in 1 .. n /\ (k = j - 1 \/ k < j - 1)
      BY <1>7, <2>4
    <3>2. Earlier(x, q[k]) /\ qq[i] = x /\ qq[j] = q[j - 1]
      BY <1>6, <1>9, <2>4, <3>1
    <3>3. k # j - 1 => ~Earlier(q[j - 1], q[k])
      BY <1>1, <3>1
    <3>4. q[k] \in Events /\ q[j - 1] \in Events
      BY <1>5, <3>1
    <3>5. ~Earlier(q[j - 1], q[k])
      BY <3>1, <3>3, <3>4, EarlierIsAnOrder
    <3>6. Earlier(q[j - 1], x) => Earlier(q[j - 1], q[k])
      BY <3>2, <3>4, EarlierIsAnOrder
    <3> QED BY <3>2, <3>5, <3>6
  <2>5. CASE k < j /\ k < i
    <3>1. i - 1 \in 1 .. n /\ j - 1 \in 1 .. n /\ i - 1 < j - 1
      BY <1>7, <1>11, <2>5
    <3>2. qq[i] = q[i - 1] /\ qq[j] = q[j - 1]
      BY <1>9, <2>5
    <3> QED BY <1>1, <3>1, <3>2
  <2>6. i \in Int /\ j \in Int /\ k \in Int
    BY <1>7
  <2>7. \/ j < k \/ j = k
        \/ k < j /\ (i < k \/ i = k \/ k < i)
    BY <2>6
  <2> QED BY <2>1, <2>2, <2>3, <2>4, <2>5, <2>7
<1>12. qq \in Sorted(s)
  <2> HIDE DEF pp
  <2>1. qq = [i \in DOMAIN s |-> s[pp[i]]] /\ pp \in Bijection(DOMAIN s, DOMAIN s)
    BY <1>0, <1>10
  <2> HIDE DEF qq
  <2> QED BY <1>0, <1>11, <2>1 DEF Sorted
<1> QED BY <1>12

\* There is always an order that the sort can make of a snapshot, so that a thread that
\* holds the lock in deliver_pending can go on.  (No counterexample is shortest.)
THEOREM SnapshotCanBeSorted ==
  ASSUME BusTypeOK, NEW s \in Seq(Events)
  PROVE  Sorted(s) # {}
<1>0. event \in [Events -> [device : Devices \cup {0}, sequence : Nat]]
  BY DEF BusTypeOK
<1> DEFINE Bad == {n \in Nat : \E r \in Seq(Events) : Len(r) = n /\ Sorted(r) = {}}
<1>1. SUFFICES ASSUME Bad # {} PROVE FALSE
  BY LenProperties
<1>2. PICK n \in Bad : \A m \in Bad : n <= m
  BY <1>1, LeastOf
<1>3. PICK r \in Seq(Events) : Len(r) = n /\ Sorted(r) = {} /\ n \in Nat
  BY <1>2
<1>4. CASE n = 0
  <2>1. DOMAIN r = {}
    BY <1>3, <1>4, LenProperties
  <2>2. PICK p : p = [i \in {} |-> i]
    OBVIOUS
  <2>3. p \in Bijection({}, {})
    BY <2>2 DEF Bijection, Injection, IsInjective, Surjection
  <2>4. [i \in DOMAIN r |-> r[p[i]]] \in Sorted(r)
    BY <2>1, <2>3 DEF Sorted
  <2> QED BY <1>3, <2>4
<1>5. CASE n # 0
  <2>1. PICK m \in Nat : n = m + 1
    <3>1. n - 1 \in Nat /\ n = (n - 1) + 1
      BY <1>3, <1>5
    <3> QED BY <3>1
  <2>2. \A i \in 1 .. m : r[i] \in Events
    <3>1. DOMAIN r = 1 .. m + 1
      BY <1>3, <2>1, LenProperties
    <3> QED BY <1>3, <2>1, <3>1, ElementOfSeq
  <2>3. PICK f \in Seq(Events) : Len(f) = m /\ \A i \in 1 .. m : f[i] = r[i]
    <3> DEFINE f == SubSeq(r, 1, m)
    <3>1. /\ f \in Seq(Events) /\ Len(f) = IF 1 <= m THEN m - 1 + 1 ELSE 0
          /\ \A i \in 1 .. m - 1 + 1 : f[i] = r[1 + i - 1]
      BY <2>2, SubSeqProperties
    <3> HIDE DEF f
    <3> QED BY <3>1
  <2>4. m \notin Bad
    BY <1>2, <1>3, <2>1
  <2>5. PICK q : q \in Sorted(f)
    BY <2>3, <2>4
  <2> HIDE DEF Bad
  <2> QED BY <1>0, <1>3, <2>1, <2>3, <2>5, InsertSorts
<1> QED BY <1>4, <1>5

LEMMA Removed ==
  ASSUME NEW S, NEW s \in Seq(S), NEW i \in DOMAIN s
  PROVE  RemoveAt(s, i) \in Seq(S)
<1>1. DOMAIN s = 1 .. Len(s) /\ Len(s) \in Nat /\ i \in Nat /\ \A k \in 1 .. Len(s) : s[k] \in S
  BY LenProperties, ElementOfSeq
<1>2. SubSeq(s, 1, i - 1) \in Seq(S)
  BY <1>1, SubSeqProperties
<1>3. SubSeq(s, i + 1, Len(s)) \in Seq(S)
  BY <1>1, SubSeqProperties
<1> QED BY <1>2, <1>3, ConcatProperties DEF RemoveAt

-----------------------------------------------------------------------------
\* What becomes of a thread.
LEMMA HomeIs ==
  ASSUME NEW t \in Threads
  PROVE  /\ Home(t) \in {"top", "join", "off"}
         /\ t = "publisher" => Home(t) = "off"
BY BusAssumption DEF BusAssumption, Home, Threads

LEMMA TailIs ==
  ASSUME NEW S, NEW s \in Seq(S), s # <<>>
  PROVE  /\ Tail(s) \in Seq(S)
         /\ Tail(s) = <<>> <=> Len(s) = 1
<1> DEFINE r == Tail(s)
<1>1. r \in Seq(S) /\ Len(r) = Len(s) - 1 /\ Len(s) \in Nat
  BY HeadTailProperties, LenProperties
<1> HIDE DEF r
<1>2. r # <<>> => Len(r) # 0
  BY <1>1, EmptySeq
<1>3. r = <<>> => Len(r) = 0
  BY EmptySeq
<1>4. r = <<>> <=> Len(s) = 1
  BY <1>1, <1>2, <1>3
<1> QED BY <1>1, <1>4 DEF r

LEMMA NextEventIs ==
  ASSUME BusTyped, NEW t \in Threads, busThread[t].batch # <<>>
  PROVE  /\ NextEvent(t) \in Thread
         /\ WellPlaced(t, NextEvent(t))
         /\ NextEvent(t).batch = Tail(busThread[t].batch)
         /\ NextEvent(t).todo = <<>>
<1> DEFINE rest == Tail(busThread[t].batch)
           n == [at |-> IF rest = <<>> THEN Home(t) ELSE "deliver", batch |-> rest,
                 todo |-> <<>>, tries |-> 0]
<1>1. busThread[t].batch \in Seq(Events)
  BY DEF ThreadsTyped, BusTyped, BusTypeOK, Thread
<1>2. rest \in Seq(Events) /\ <<>> \in Seq(Handlers)
  BY <1>1, HeadTailProperties, EmptySeq
<1>3. NextEvent(t) = n
  BY DEF NextEvent
<1> HIDE DEF rest
<1>4. n \in Thread
  BY <1>2, HomeIs DEF Thread
<1>5. WellPlaced(t, n)
  BY HomeIs DEF WellPlaced, Delivering, Calling
<1>6. n.batch = rest /\ n.todo = <<>>
  OBVIOUS
<1> HIDE DEF n
<1> QED BY <1>3, <1>4, <1>5, <1>6 DEF rest

LEMMA NextHandlerIs ==
  ASSUME BusTyped, NEW t \in Threads, busThread[t].at \in Calling
  PROVE  \/ NextHandler(t) = NextEvent(t)
         \/ /\ NextHandler(t) \in Thread
            /\ WellPlaced(t, NextHandler(t))
            /\ NextHandler(t).batch = busThread[t].batch
            /\ NextHandler(t).todo # <<>>
            /\ NextHandler(t).at = "call"
<1>1. CASE Len(busThread[t].todo) = 1
  BY <1>1 DEF NextHandler
<1>2. CASE Len(busThread[t].todo) # 1
  <2> DEFINE rest == Tail(busThread[t].todo)
             n == [busThread[t] EXCEPT !.at = "call", !.todo = rest, !.tries = 0]
  <2>0. busThread[t] \in Thread /\ WellPlaced(t, busThread[t])
    BY DEF ThreadsTyped, BusTyped, BusTypeOK
  <2>1. busThread[t].todo \in Seq(Handlers) /\ busThread[t].todo # <<>> /\ busThread[t].batch # <<>>
    BY <2>0 DEF WellPlaced, Thread, Delivering
  <2>2. rest \in Seq(Handlers) /\ rest # <<>>
    BY <1>2, <2>1, TailIs
  <2>3. NextHandler(t) = n
    BY <1>2 DEF NextHandler
  <2> HIDE DEF rest
  <2>4. n \in Thread /\ n.batch = busThread[t].batch /\ n.todo = rest /\ n.at = "call"
    BY <2>0, <2>2 DEF Thread
  <2>5. WellPlaced(t, n)
    <3> HIDE DEF n
    <3> QED BY <2>1, <2>2, <2>4 DEF WellPlaced, Delivering, Calling
  <2> HIDE DEF n
  <2> QED BY <2>2, <2>3, <2>4, <2>5
<1> QED BY <1>1, <1>2

\* Thread t becomes n and the others stay what they are.
Becomes(t, n) ==
  /\ n \in Thread /\ WellPlaced(t, n)
  /\ busThread'[t] = n
  /\ \A u \in Threads \ {t} : busThread'[u] = busThread[u]
  /\ ThreadsTyped'

LEMMA BecomesSo ==
  ASSUME BusTyped, NEW t \in Threads, NEW n \in Thread, WellPlaced(t, n),
         busThread' = [busThread EXCEPT ![t] = n]
  PROVE  Becomes(t, n)
<1>1. busThread \in [Threads -> Thread] /\ \A u \in Threads : WellPlaced(u, busThread[u])
  BY DEF BusTyped, ThreadsTyped
<1>2. /\ busThread' \in [Threads -> Thread] /\ busThread'[t] = n
      /\ \A u \in Threads \ {t} : busThread'[u] = busThread[u]
  BY <1>1
<1>3. \A u \in Threads : WellPlaced(u, busThread'[u])
  BY <1>1, <1>2
<1>4. ThreadsTyped'
  BY <1>2, <1>3 DEF ThreadsTyped, WellPlaced
<1> QED BY <1>2, <1>4 DEF Becomes

\* A thread without a snapshot moves on without one.
LEMMA GotoIs ==
  ASSUME BusTyped, NEW t \in Threads, NEW place \in {"off", "top", "wait", "take", "join"},
         busThread[t].at \notin Delivering, t = "publisher" => place = "off",
         BusGoto(t, place)
  PROVE  \E n : /\ Becomes(t, n) /\ n.at = place
                /\ n.batch = <<>> /\ n.todo = <<>>
                /\ busThread[t].batch = <<>> /\ busThread[t].todo = <<>>
<1> DEFINE old == busThread[t]
           n == [old EXCEPT !.at = place]
<1>1. old \in Thread /\ WellPlaced(t, old)
  BY DEF BusTyped, ThreadsTyped
<1>2. n \in Thread /\ n.at = place /\ n.batch = old.batch /\ n.todo = old.todo
  BY <1>1 DEF Thread
<1>3. busThread' = [busThread EXCEPT ![t] = n]
  BY DEF BusGoto
<1> HIDE DEF n
<1>4. old.batch = <<>> /\ old.todo = <<>>
  BY <1>1 DEF WellPlaced, Delivering
<1>5. WellPlaced(t, n)
  BY <1>2, <1>4 DEF WellPlaced, Delivering, Calling
<1>6. Becomes(t, n)
  BY <1>2, <1>3, <1>5, BecomesSo
<1> QED BY <1>2, <1>4, <1>6

LEMMA TakesOnIs ==
  ASSUME BusTyped, NEW t \in Threads, NEW b \in Seq(Events), b # <<>>,
         busThread[t].at \notin Delivering, TakesOn(t, b)
  PROVE  /\ \E n : /\ Becomes(t, n) /\ n.at = "deliver"
                   /\ n.batch = b /\ n.todo = <<>>
                   /\ busThread[t].batch = <<>> /\ busThread[t].todo = <<>>
         /\ together' \in BOOLEAN
         /\ ~together' => ~together /\ \A u \in Threads \ {t} : busThread[u].batch = <<>>
<1> DEFINE old == busThread[t]
           n == [old EXCEPT !.batch = b, !.at = "deliver"]
<1>1. old \in Thread /\ WellPlaced(t, old) /\ together \in BOOLEAN
  BY DEF BusTyped, ThreadsTyped, BusTypeOK
<1>2. n \in Thread /\ n.at = "deliver" /\ n.batch = b /\ n.todo = old.todo
  BY <1>1 DEF Thread
<1>3. busThread' = [busThread EXCEPT ![t] = n]
  BY DEF TakesOn
<1> HIDE DEF n
<1>4. old.batch = <<>> /\ old.todo = <<>>
  BY <1>1 DEF WellPlaced, Delivering
<1>5. WellPlaced(t, n)
  BY <1>2, <1>4 DEF WellPlaced, Delivering, Calling
<1>6. Becomes(t, n)
  BY <1>2, <1>3, <1>5, BecomesSo
<1>7. /\ together' \in BOOLEAN
      /\ ~together' => ~together /\ \A u \in Threads \ {t} : busThread[u].batch = <<>>
  BY <1>1 DEF TakesOn
<1> QED BY <1>2, <1>4, <1>6, <1>7

-----------------------------------------------------------------------------
\* Counting the copies of an event in a sequence.
Count(e, s) == Cardinality(Copies(e, s))
One(b) == IF b THEN 1 ELSE 0

LEMMA CopiesFinite ==
  ASSUME NEW S, NEW s \in Seq(S), NEW e
  PROVE  IsFiniteSet(Copies(e, s)) /\ Count(e, s) \in Nat
<1>1. DOMAIN s = 1 .. Len(s) /\ Len(s) \in Int
  BY LenProperties
<1>2. IsFiniteSet(1 .. Len(s))
  BY <1>1, FS_Interval
<1>3. Copies(e, s) \in SUBSET (1 .. Len(s))
  BY <1>1 DEF Copies
<1>4. IsFiniteSet(Copies(e, s))
  BY <1>2, <1>3, FS_Subset
<1> QED BY <1>4, FS_CardinalityType DEF Count

LEMMA CountEmpty == \A e : Copies(e, <<>>) = {} /\ Count(e, <<>>) = 0
<1>1. \A e : Copies(e, <<>>) = {}
  BY DEF Copies
<1> QED BY <1>1, FS_EmptySet DEF Count

LEMMA CountAppend ==
  ASSUME NEW S, NEW s \in Seq(S), NEW x \in S, NEW e
  PROVE  Count(e, Append(s, x)) = Count(e, s) + One(e = x)
<1> DEFINE r == Append(s, x)
           n == Len(s) + 1
<1>1. /\ DOMAIN s = 1 .. Len(s) /\ Len(s) \in Nat
      /\ r \in Seq(S) /\ Len(r) = n /\ r[n] = x /\ \A i \in 1 .. Len(s) : r[i] = s[i]
  BY LenProperties, AppendProperties
<1>2. DOMAIN r = 1 .. n
  BY <1>1, LenProperties
<1> HIDE DEF r
<1>3. IsFiniteSet(Copies(e, s)) /\ Count(e, s) \in Nat
  BY CopiesFinite
<1>4. n \notin Copies(e, s)
  BY <1>1 DEF Copies
<1>5. CASE e = x
  <2>1. Copies(e, r) = Copies(e, s) \cup {n}
    BY <1>1, <1>2, <1>5 DEF Copies
  <2> QED BY <1>3, <1>4, <1>5, <2>1, FS_AddElement DEF Count, One, r
<1>6. CASE e # x
  <2>1. Copies(e, r) = Copies(e, s)
    BY <1>1, <1>2, <1>6 DEF Copies
  <2> QED BY <1>3, <1>6, <2>1 DEF Count, One, r
<1> QED BY <1>5, <1>6

LEMMA CountTail ==
  ASSUME NEW S, NEW s \in Seq(S), s # <<>>, NEW e
  PROVE  Count(e, s) = Count(e, Tail(s)) + One(e = Head(s))
<1> DEFINE r == Tail(s)
           C == Copies(e, r)
           D == Copies(e, s) \ {1}
           f == [i \in C |-> i + 1]
<1>1. /\ DOMAIN s = 1 .. Len(s) /\ Len(s) \in Nat /\ Len(s) # 0 /\ s[1] = Head(s)
  BY LenProperties, EmptySeq
<1>2. r \in Seq(S) /\ Len(r) = Len(s) - 1 /\ \A i \in 1 .. Len(r) : r[i] = s[i + 1]
  BY HeadTailProperties
<1>3. DOMAIN r = 1 .. Len(r) /\ Len(r) \in Nat
  BY <1>2, LenProperties
<1> HIDE DEF r
<1>4. \A i \in C : i \in Nat /\ i + 1 \in D
  BY <1>1, <1>2, <1>3 DEF Copies
<1>5. \A j \in D : j \in Nat /\ j - 1 \in C /\ (j - 1) + 1 = j
  BY <1>1, <1>2, <1>3 DEF Copies
<1> HIDE DEF C, D
<1>6. f \in [C -> D]
  BY <1>4
<1>7. \A i, j \in C : f[i] = f[j] => i = j
  BY <1>4
<1>8. \A j \in D : \E i \in C : f[i] = j
  BY <1>5
<1>9. f \in Bijection(C, D)
  <2>1. f \in Injection(C, D)
    BY <1>6, <1>7 DEF Injection, IsInjective
  <2>2. f \in Surjection(C, D)
    BY <1>6, <1>8 DEF Surjection
  <2> QED BY <2>1, <2>2 DEF Bijection
<1>10. IsFiniteSet(C) /\ IsFiniteSet(Copies(e, s))
  BY <1>2, CopiesFinite DEF C
<1>11. Cardinality(D) = Cardinality(C)
  BY <1>9, <1>10, FS_Bijection DEF ExistsBijection
<1>12. 1 \in Copies(e, s) <=> e = Head(s)
  BY <1>1 DEF Copies
<1>13. /\ Cardinality(Copies(e, s)) \in Nat
       /\ Cardinality(D) = IF 1 \in Copies(e, s) THEN Cardinality(Copies(e, s)) - 1
                           ELSE Cardinality(Copies(e, s))
  BY <1>10, FS_RemoveElement, FS_CardinalityType DEF D
<1>14. Count(e, s) = Cardinality(C) + One(e = Head(s))
  BY <1>11, <1>12, <1>13 DEF Count, One
<1> QED BY <1>14 DEF Count, C, r

LEMMA CountSorted ==
  ASSUME NEW S, NEW s \in Seq(S), NEW q \in Sorted(s), NEW e
  PROVE  Count(e, q) = Count(e, s)
<1>1. PICK p \in Bijection(DOMAIN s, DOMAIN s) : \A i \in DOMAIN s : q[i] = s[p[i]]
  BY SortedKeeps
<1>2. DOMAIN q = DOMAIN s
  BY SortedKeeps, LenProperties
<1> DEFINE C == Copies(e, q)
           D == Copies(e, s)
           f == [i \in C |-> p[i]]
<1>3. /\ p \in [DOMAIN s -> DOMAIN s]
      /\ \A i, j \in DOMAIN s : p[i] = p[j] => i = j
      /\ \A j \in DOMAIN s : \E i \in DOMAIN s : p[i] = j
  BY DEF Bijection, Surjection, Injection, IsInjective
<1>4. \A i \in C : i \in DOMAIN s /\ p[i] \in D
  BY <1>1, <1>2, <1>3 DEF Copies
<1>5. \A j \in D : \E i \in C : p[i] = j
  BY <1>1, <1>2, <1>3 DEF Copies
<1> HIDE DEF C, D
<1>6. f \in [C -> D]
  BY <1>4
<1>7. \A i, j \in C : f[i] = f[j] => i = j
  BY <1>3, <1>4
<1>8. \A j \in D : \E i \in C : f[i] = j
  BY <1>5
<1>9. f \in Bijection(C, D)
  <2>1. f \in Injection(C, D)
    BY <1>6, <1>7 DEF Injection, IsInjective
  <2>2. f \in Surjection(C, D)
    BY <1>6, <1>8 DEF Surjection
  <2> QED BY <2>1, <2>2 DEF Bijection
<1>10. IsFiniteSet(C)
  BY SortedKeeps, CopiesFinite DEF C
<1>11. Cardinality(D) = Cardinality(C)
  BY <1>9, <1>10, FS_Bijection DEF ExistsBijection
<1> QED BY <1>11 DEF C, D, Count

\* The pairs of an index and a member of its set: changing the set of one index changes
\* their number as it changes the number of its members.
Pairs(T, A) == UNION {{u} \X A[u] : u \in T}

LEMMA PairsFinite ==
  ASSUME NEW T, IsFiniteSet(T), NEW A, \A u \in T : IsFiniteSet(A[u])
  PROVE  IsFiniteSet(Pairs(T, A))
<1> DEFINE R == {{u} \X A[u] : u \in T}
           f == [u \in T |-> {u} \X A[u]]
<1>1. f \in Surjection(T, R)
  BY DEF Surjection
<1>2. IsFiniteSet(R)
  BY <1>1, FS_Surjection
<1>3. \A r \in R : IsFiniteSet(r)
  <2> SUFFICES ASSUME NEW u \in T PROVE IsFiniteSet({u} \X A[u])
    OBVIOUS
  <2> QED BY FS_Singleton, FS_Product
<1> QED BY <1>2, <1>3, FS_UNION DEF Pairs

LEMMA PairsMove ==
  ASSUME NEW T, IsFiniteSet(T), NEW t \in T, NEW A, NEW B,
         \A u \in T : IsFiniteSet(A[u]) /\ IsFiniteSet(B[u]),
         \A u \in T \ {t} : A[u] = B[u]
  PROVE  /\ Cardinality(Pairs(T, A)) \in Nat /\ Cardinality(Pairs(T, B)) \in Nat
         /\ Cardinality(Pairs(T, B)) + Cardinality(A[t])
              = Cardinality(Pairs(T, A)) + Cardinality(B[t])
<1> DEFINE rest == Pairs(T \ {t}, A)
<1>1. IsFiniteSet(T \ {t})
  BY FS_RemoveElement
<1>2. IsFiniteSet(rest)
  BY <1>1, PairsFinite
<1>3. ASSUME NEW C, IsFiniteSet(C[t]), \A u \in T \ {t} : A[u] = C[u]
      PROVE  /\ Cardinality(Pairs(T, C)) = Cardinality(rest) + Cardinality(C[t])
             /\ Cardinality(Pairs(T, C)) \in Nat
             /\ Cardinality(C[t]) \in Nat /\ Cardinality(rest) \in Nat
  <2> DEFINE mine == {t} \X C[t]
  <2>1. Pairs(T, C) = rest \cup mine
    <3>1. ASSUME NEW x \in Pairs(T, C) PROVE x \in rest \cup mine
      <4>1. PICK u \in T : x \in {u} \X C[u]
        BY <3>1 DEF Pairs
      <4> QED BY <1>3, <4>1 DEF Pairs
    <3>2. ASSUME NEW x \in rest \cup mine PROVE x \in Pairs(T, C)
      <4>1. CASE x \in mine
        BY <4>1 DEF Pairs
      <4>2. CASE x \in rest
        <5>1. PICK u \in T \ {t} : x \in {u} \X A[u]
          BY <4>2 DEF Pairs
        <5> QED BY <1>3, <5>1 DEF Pairs
      <4> QED BY <3>2, <4>1, <4>2
    <3> QED BY <3>1, <3>2
  <2>2. rest \cap mine = {}
    <3> SUFFICES ASSUME NEW x \in rest, x \in mine PROVE FALSE
      OBVIOUS
    <3>1. PICK u \in T \ {t} : x \in {u} \X A[u]
      BY DEF Pairs
    <3> QED BY <3>1
  <2>3. IsFiniteSet(mine) /\ Cardinality(mine) = Cardinality(C[t]) /\ Cardinality(C[t]) \in Nat
    <3>1. IsFiniteSet({t}) /\ Cardinality({t}) = 1
      BY FS_Singleton
    <3>2. IsFiniteSet(mine) /\ Cardinality(mine) = Cardinality({t}) * Cardinality(C[t])
      BY <1>3, <3>1, FS_Product
    <3>3. Cardinality(C[t]) \in Nat
      BY <1>3, FS_CardinalityType
    <3> QED BY <3>1, <3>2, <3>3
  <2> HIDE DEF mine, rest
  <2>4. Cardinality(rest) \in Nat /\ Cardinality({}) = 0
    BY <1>2, FS_CardinalityType, FS_EmptySet
  <2>5. Cardinality(rest \cup mine) = Cardinality(rest) + Cardinality(mine) - Cardinality(rest \cap mine)
    BY <1>2, <2>3, FS_Union
  <2>6. Cardinality(rest \cap mine) = 0
    BY <2>2, <2>4
  <2>7. Cardinality(Pairs(T, C)) = Cardinality(rest \cup mine)
    BY <2>1
  <2>8. Cardinality(Pairs(T, C)) = Cardinality(rest) + Cardinality(C[t])
    BY <2>3, <2>4, <2>5, <2>6, <2>7
  <2>9. Cardinality(Pairs(T, C)) \in Nat
    BY <2>3, <2>4, <2>8
  <2> QED BY <2>3, <2>4, <2>8, <2>9, Zenon
<1> HIDE DEF rest
<1>4. /\ Cardinality(Pairs(T, A)) = Cardinality(rest) + Cardinality(A[t])
      /\ Cardinality(Pairs(T, A)) \in Nat
      /\ Cardinality(A[t]) \in Nat /\ Cardinality(rest) \in Nat
  BY <1>3
<1>5. /\ Cardinality(Pairs(T, B)) = Cardinality(rest) + Cardinality(B[t])
      /\ Cardinality(Pairs(T, B)) \in Nat
      /\ Cardinality(B[t]) \in Nat
  BY <1>3
<1> QED BY <1>4, <1>5

LEMMA PendingIs ==
  ASSUME ThreadsTyped, NEW t \in Threads
  PROVE  Pending(t) \in Seq(Events)
<1>1. busThread[t].batch \in Seq(Events)
  BY DEF ThreadsTyped, Thread
<1>2. busThread[t].todo # <<>> => busThread[t].batch # <<>>
  BY DEF ThreadsTyped, WellPlaced, Delivering
<1> QED BY <1>1, <1>2, HeadTailProperties DEF Pending

LEMMA ThreadsFinite == IsFiniteSet(Threads)
<1>1. IsFiniteSet({"control", "publisher"})
  <2>1. IsFiniteSet({"control"}) /\ IsFiniteSet({"publisher"})
    BY FS_Singleton
  <2>2. {"control", "publisher"} = {"control"} \cup {"publisher"}
    OBVIOUS
  <2> QED BY <2>1, <2>2, FS_Union
<1> QED BY <1>1, BusAssumption, FS_Union DEF BusAssumption, Threads

LEMMA InHandMoves ==
  ASSUME ThreadsTyped, ThreadsTyped', NEW t \in Threads, NEW e,
         \A u \in Threads \ {t} : busThread'[u] = busThread[u]
  PROVE  /\ Cardinality(InHand(e)) \in Nat /\ Cardinality(InHand(e)') \in Nat
         /\ Cardinality(InHand(e)') + Count(e, Pending(t))
              = Cardinality(InHand(e)) + Count(e, Pending(t)')
<1>1. IsFiniteSet(Threads)
  BY ThreadsFinite
<1>2. PICK A : A = [u \in Threads |-> Copies(e, Pending(u))]
  OBVIOUS
<1>3. PICK B : B = [u \in Threads |-> Copies(e, Pending(u)')]
  OBVIOUS
<1>4. \A u \in Threads : IsFiniteSet(A[u])
  BY <1>2, PendingIs, CopiesFinite
<1>5. ASSUME NEW u \in Threads PROVE Pending(u)' \in Seq(Events)
  <2>1. busThread'[u].batch \in Seq(Events)
    BY DEF ThreadsTyped, Thread
  <2>2. busThread'[u].todo # <<>> => busThread'[u].batch # <<>>
    BY DEF ThreadsTyped, WellPlaced, Delivering
  <2> QED BY <2>1, <2>2, HeadTailProperties DEF Pending
<1>6. \A u \in Threads : IsFiniteSet(B[u])
  BY <1>3, <1>5, CopiesFinite
<1>7. \A u \in Threads \ {t} : A[u] = B[u]
  BY <1>2, <1>3 DEF Pending
<1>8. InHand(e) = Pairs(Threads, A)
  BY <1>2 DEF InHand, Pairs
<1>9. InHand(e)' = Pairs(Threads, B)
  BY <1>3 DEF InHand, Pairs, Copies
<1>10. Cardinality(A[t]) = Count(e, Pending(t)) /\ Cardinality(B[t]) = Count(e, Pending(t)')
  BY <1>2, <1>3 DEF Count
<1> QED BY <1>1, <1>4, <1>6, <1>7, <1>8, <1>9, <1>10, PairsMove

-----------------------------------------------------------------------------
\* The books of one event: every copy made is delivered, lost or outstanding.
Accounted(e) == made[e] = rounds[e] + lost[e] + Outstanding(e)

\* A step of thread t balances the books if its own changes do.
LEMMA Balance ==
  ASSUME BusTyped, NEW t \in Threads, NEW e \in Events, NEW n, Becomes(t, n),
         Accounted(e), queue' \in Seq(Events),
         made'[e] \in Nat, rounds'[e] \in Nat, lost'[e] \in Nat,
         made'[e] + rounds[e] + lost[e] + Count(e, queue) + Count(e, Pending(t))
           = made[e] + rounds'[e] + lost'[e] + Count(e, queue') + Count(e, Pending(t)')
  PROVE  Accounted(e)'
<1>1. /\ Cardinality(InHand(e)) \in Nat /\ Cardinality(InHand(e)') \in Nat
      /\ Cardinality(InHand(e)') + Count(e, Pending(t))
           = Cardinality(InHand(e)) + Count(e, Pending(t)')
  BY InHandMoves DEF BusTyped, Becomes
<1>2. Count(e, queue) \in Nat /\ Count(e, queue') \in Nat
  BY CopiesFinite DEF BusTyped, BusTypeOK
<1>3. Count(e, Pending(t)) \in Nat
  BY PendingIs, CopiesFinite DEF BusTyped
<1>4. Count(e, Pending(t)') \in Nat
  <2>1. n \in Thread /\ WellPlaced(t, n) /\ busThread'[t] = n
    BY DEF Becomes
  <2>2. n.batch \in Seq(Events) /\ (n.todo # <<>> => n.batch # <<>>)
    BY <2>1 DEF Thread, WellPlaced, Delivering
  <2>3. Pending(t)' \in Seq(Events)
    BY <2>1, <2>2, HeadTailProperties DEF Pending
  <2> QED BY <2>3, CopiesFinite
<1>5. made[e] \in Nat /\ rounds[e] \in Nat /\ lost[e] \in Nat
  BY DEF BusTyped, BusTypeOK
<1>6. made[e] = rounds[e] + lost[e] + (Count(e, queue) + Cardinality(InHand(e)))
  BY DEF Accounted, Outstanding, Count
<1>7. PICK m \in Nat, r \in Nat, l \in Nat, c \in Nat, p \in Nat, h \in Nat :
        /\ m = made'[e] /\ r = rounds'[e] /\ l = lost'[e] /\ c = Count(e, queue')
        /\ p = Count(e, Pending(t)') /\ h = Cardinality(InHand(e)')
  BY <1>1, <1>2, <1>4, Zenon
<1>8. PICK m0 \in Nat, r0 \in Nat, l0 \in Nat, c0 \in Nat, p0 \in Nat, h0 \in Nat :
        /\ m0 = made[e] /\ r0 = rounds[e] /\ l0 = lost[e] /\ c0 = Count(e, queue)
        /\ p0 = Count(e, Pending(t)) /\ h0 = Cardinality(InHand(e))
  BY <1>1, <1>2, <1>3, <1>5, Zenon
<1>9. h + p0 = h0 + p /\ m0 = r0 + l0 + (c0 + h0)
  BY <1>1, <1>6, <1>7, <1>8, Zenon
<1>10. m + r0 + l0 + c0 + p0 = m0 + r + l + c + p
  BY <1>7, <1>8, Zenon
<1>11. m = r + l + (c + h)
  BY <1>9, <1>10
<1> QED BY <1>7, <1>11 DEF Accounted, Outstanding, Count

\* A new copy at the end of the queue, in the place of the oldest if it is full.
LEMMA QueueGrows ==
  ASSUME BusTyped, NEW e \in Events, queue' = Append(Evicted, e), lost' = LostOldest
  PROVE  /\ queue' \in Seq(Events) /\ Len(queue') <= MaxQueueSize
         /\ lost' \in [Events -> Nat]
         /\ \A f \in Events :
              Count(f, queue') + lost'[f] = Count(f, queue) + lost[f] + One(f = e)
<1>0. /\ queue \in Seq(Events) /\ Len(queue) <= MaxQueueSize /\ Len(queue) \in Nat
      /\ lost \in [Events -> Nat] /\ MaxQueueSize \in Nat \ {0}
  BY BusAssumption, LenProperties DEF BusTyped, BusTypeOK, BusAssumption
<1>1. CASE Full
  <2>1. queue # <<>>
    BY <1>0, <1>1, EmptySeq DEF Full
  <2> DEFINE rest == Tail(queue)
             x == Head(queue)
  <2>2. rest \in Seq(Events) /\ x \in Events /\ Len(rest) = Len(queue) - 1
    BY <1>0, <2>1, HeadTailProperties
  <2>3. \A f \in Events : Count(f, queue) = Count(f, rest) + One(f = x)
    BY <1>0, <2>1, CountTail
  <2> HIDE DEF rest, x
  <2>4. queue' = Append(rest, e) /\ lost' = [lost EXCEPT ![x] = @ + 1]
    BY <1>1 DEF Evicted, LostOldest, rest, x
  <2>5. \A f \in Events : Count(f, queue') = Count(f, rest) + One(f = e)
    BY <2>2, <2>4, CountAppend
  <2>6. queue' \in Seq(Events) /\ Len(queue') = Len(queue)
    BY <1>0, <2>2, <2>4, AppendProperties
  <2>7. lost' \in [Events -> Nat] /\ \A f \in Events : lost'[f] = lost[f] + One(f = x)
    BY <1>0, <2>2, <2>4 DEF One
  <2>8. \A f \in Events : Count(f, rest) \in Nat /\ lost[f] \in Nat
    BY <1>0, <2>2, CopiesFinite
  <2>9. \A f \in Events : Count(f, queue') + lost'[f] = Count(f, queue) + lost[f] + One(f = e)
    <3> SUFFICES ASSUME NEW f \in Events
                 PROVE  Count(f, queue') + lost'[f] = Count(f, queue) + lost[f] + One(f = e)
      OBVIOUS
    <3>1. One(f = x) \in Nat /\ One(f = e) \in Nat
      BY DEF One
    <3>2. /\ Count(f, queue') = Count(f, rest) + One(f = e)
          /\ lost'[f] = lost[f] + One(f = x)
          /\ Count(f, queue) = Count(f, rest) + One(f = x)
      BY <2>3, <2>5, <2>7
    <3> QED BY <2>8, <3>1, <3>2
  <2> QED BY <1>0, <2>6, <2>7, <2>9
<1>2. CASE ~Full
  <2>1. queue' = Append(queue, e) /\ lost' = lost
    BY <1>2 DEF Evicted, LostOldest
  <2>2. \A f \in Events : Count(f, queue') = Count(f, queue) + One(f = e)
    BY <1>0, <2>1, CountAppend
  <2>3. queue' \in Seq(Events) /\ Len(queue') = Len(queue) + 1
    BY <1>0, <2>1, AppendProperties
  <2>4. Len(queue') <= MaxQueueSize
    BY <1>0, <1>2, <2>3 DEF Full
  <2>5. \A f \in Events : Count(f, queue) \in Nat /\ lost[f] \in Nat
    BY <1>0, CopiesFinite
  <2> QED BY <1>0, <2>1, <2>2, <2>3, <2>4, <2>5 DEF One
<1> QED BY <1>1, <1>2

-----------------------------------------------------------------------------
\* What each step of a thread makes of it.
LEMMA PendingOf ==
  ASSUME NEW t \in Threads, NEW n, Becomes(t, n)
  PROVE  Pending(t)' = IF n.todo = <<>> THEN n.batch ELSE Tail(n.batch)
BY DEF Becomes, Pending

LEMMA CallingIs ==
  ASSUME BusTyped, NEW t \in Threads, busThread[t].at \in Calling
  PROVE  /\ busThread[t].batch \in Seq(Events) /\ busThread[t].batch # <<>>
         /\ busThread[t].todo # <<>>
         /\ Head(busThread[t].batch) \in Events
         /\ Pending(t) = Tail(busThread[t].batch)
         /\ busThread[t].tries \in Nat
<1>1. busThread[t] \in Thread /\ WellPlaced(t, busThread[t])
  BY DEF BusTyped, ThreadsTyped
<1>2. busThread[t].batch \in Seq(Events) /\ busThread[t].batch # <<>> /\ busThread[t].todo # <<>>
  BY <1>1 DEF Thread, WellPlaced, Delivering
<1>3. busThread[t].tries \in Nat
  BY <1>1 DEF Thread
<1> QED BY <1>2, <1>3, HeadTailProperties DEF Pending

LEMMA OnwardIs ==
  ASSUME BusTyped, NEW t \in Threads, busThread[t].at \in Calling,
         busThread' = [busThread EXCEPT ![t] = NextHandler(t)]
  PROVE  \E n : /\ Becomes(t, n) /\ Pending(t)' = Pending(t)
                /\ n.at \notin {"failed", "requeue"}
                /\ n.batch \in {busThread[t].batch, Tail(busThread[t].batch)}
                /\ n.at = "call" => n.batch = busThread[t].batch
<1>0. busThread[t].batch # <<>> /\ Pending(t) = Tail(busThread[t].batch)
  BY CallingIs
<1>1. CASE NextHandler(t) = NextEvent(t)
  <2>1. /\ NextEvent(t) \in Thread /\ WellPlaced(t, NextEvent(t))
        /\ NextEvent(t).batch = Tail(busThread[t].batch)
        /\ NextEvent(t).todo = <<>>
    BY <1>0, NextEventIs
  <2>2. Becomes(t, NextEvent(t))
    BY <1>1, <2>1, BecomesSo
  <2>3. NextEvent(t).at \notin Calling
    BY <2>1 DEF WellPlaced
  <2>4. Pending(t)' = Tail(busThread[t].batch)
    BY <2>1, <2>2, PendingOf
  <2> QED BY <1>0, <2>1, <2>2, <2>3, <2>4 DEF Calling
<1>2. CASE /\ NextHandler(t) \in Thread
           /\ WellPlaced(t, NextHandler(t))
           /\ NextHandler(t).batch = busThread[t].batch
           /\ NextHandler(t).todo # <<>>
           /\ NextHandler(t).at = "call"
  <2>1. Becomes(t, NextHandler(t))
    BY <1>2, BecomesSo
  <2>2. Pending(t)' = Tail(busThread[t].batch)
    BY <1>2, <2>1, PendingOf
  <2> QED BY <1>0, <1>2, <2>1, <2>2
<1> QED BY <1>1, <1>2, NextHandlerIs

\* Within a call only the place and the attempts change.
LEMMA WithinIs ==
  ASSUME BusTyped, NEW t \in Threads, busThread[t].at \in Calling, NEW place \in Calling,
         NEW tries \in Nat,
         busThread' = [busThread EXCEPT ![t].at = place, ![t].tries = tries]
  PROVE  \E n : /\ Becomes(t, n) /\ Pending(t)' = Pending(t)
                /\ n.at = place /\ n.tries = tries
                /\ n.batch = busThread[t].batch
<1> DEFINE old == busThread[t]
           n == [old EXCEPT !.at = place, !.tries = tries]
<1>1. old \in Thread /\ WellPlaced(t, old)
  BY DEF BusTyped, ThreadsTyped
<1>2. /\ n \in Thread /\ n.at = place /\ n.batch = old.batch /\ n.todo = old.todo
      /\ n.tries = tries
  BY <1>1 DEF Thread, Calling
<1>3. busThread' = [busThread EXCEPT ![t] = n]
  OBVIOUS
<1> HIDE DEF n
<1>4. WellPlaced(t, n)
  BY <1>1, <1>2 DEF WellPlaced, Delivering, Calling
<1>5. Becomes(t, n)
  BY <1>2, <1>3, <1>4, BecomesSo
<1>6. Pending(t)' = Pending(t)
  BY <1>2, <1>5, PendingOf DEF Pending
<1> QED BY <1>2, <1>5, <1>6

LEMMA DeliverIs ==
  ASSUME BusTyped, NEW t \in Threads, Deliver(t)
  PROVE  /\ busThread[t].batch \in Seq(Events) /\ busThread[t].batch # <<>>
         /\ Head(busThread[t].batch) \in Events
         /\ Pending(t) = busThread[t].batch
         /\ \E n : /\ Becomes(t, n) /\ Pending(t)' = Tail(busThread[t].batch)
                   /\ n.at \notin {"failed", "requeue"}
                   /\ n.batch \in {busThread[t].batch, Tail(busThread[t].batch)}
                   /\ n.at = "call" => n.batch = busThread[t].batch
                   /\ n.at # "call" => n.batch = Tail(busThread[t].batch)
<1> DEFINE old == busThread[t]
<1>1. old \in Thread /\ WellPlaced(t, old) /\ handlers \in Seq(Handlers) /\ old.at = "deliver"
  BY DEF BusTyped, ThreadsTyped, BusTypeOK, Deliver, At
<1>2. old.batch \in Seq(Events) /\ old.batch # <<>> /\ old.todo = <<>>
  BY <1>1 DEF Thread, WellPlaced, Delivering, Calling
<1>3. Head(old.batch) \in Events
  BY <1>2, HeadTailProperties
<1>4. Pending(t) = old.batch
  BY <1>2 DEF Pending
<1>5. CASE handlers = <<>>
  <2>1. /\ NextEvent(t) \in Thread /\ WellPlaced(t, NextEvent(t))
        /\ NextEvent(t).batch = Tail(old.batch)
        /\ NextEvent(t).todo = <<>>
    BY <1>2, NextEventIs
  <2>2. busThread' = [busThread EXCEPT ![t] = NextEvent(t)]
    BY <1>5 DEF Deliver
  <2>3. Becomes(t, NextEvent(t))
    BY <2>1, <2>2, BecomesSo
  <2>4. NextEvent(t).at \notin Calling
    BY <2>1 DEF WellPlaced
  <2>5. Pending(t)' = Tail(old.batch)
    BY <2>1, <2>3, PendingOf
  <2> QED BY <1>2, <1>3, <1>4, <2>1, <2>3, <2>4, <2>5 DEF Calling
<1>6. CASE handlers # <<>>
  <2> DEFINE n == [old EXCEPT !.at = "call", !.todo = handlers]
  <2>1. n \in Thread /\ n.at = "call" /\ n.batch = old.batch /\ n.todo = handlers
    BY <1>1 DEF Thread
  <2>2. busThread' = [busThread EXCEPT ![t] = n]
    BY <1>6 DEF Deliver
  <2> HIDE DEF n
  <2>3. WellPlaced(t, n)
    BY <1>1, <1>2, <1>6, <2>1 DEF WellPlaced, Delivering, Calling
  <2>4. Becomes(t, n)
    BY <2>1, <2>2, <2>3, BecomesSo
  <2>5. Pending(t)' = Tail(old.batch)
    BY <1>6, <2>1, <2>4, PendingOf
  <2> QED BY <1>2, <1>3, <1>4, <2>1, <2>4, <2>5
<1> QED BY <1>5, <1>6

-----------------------------------------------------------------------------
\* Types and books, step by step.
BooksKept == BusTyped' /\ \A e \in Events : Accounted(e) => Accounted(e)'

LEMMA NothingCounted ==
  ASSUME BusTyped, NEW t \in Threads, NEW n, Becomes(t, n), Pending(t)' = Pending(t),
         UNCHANGED <<queue, made, rounds, lost>>
  PROVE  \A e \in Events : Accounted(e) => Accounted(e)'
<1> SUFFICES ASSUME NEW e \in Events, Accounted(e) PROVE Accounted(e)'
  OBVIOUS
<1>1. queue \in Seq(Events) /\ made[e] \in Nat /\ rounds[e] \in Nat /\ lost[e] \in Nat
  BY DEF BusTyped, BusTypeOK
<1>2. Count(e, queue') = Count(e, queue) /\ Count(e, Pending(t)') = Count(e, Pending(t))
  OBVIOUS
<1> QED BY <1>1, <1>2, Balance

LEMMA GotoBooks ==
  ASSUME BusTyped, NEW t \in Threads, NEW place \in {"off", "top", "wait", "take", "join"},
         busThread[t].at \notin Delivering, t = "publisher" => place = "off",
         BusGoto(t, place), UNCHANGED <<queue, made, rounds, lost>>
  PROVE  ThreadsTyped' /\ \A e \in Events : Accounted(e) => Accounted(e)'
<1>1. PICK n : /\ Becomes(t, n) /\ n.at = place
               /\ n.batch = <<>> /\ n.todo = <<>>
               /\ busThread[t].batch = <<>> /\ busThread[t].todo = <<>>
  BY GotoIs
<1>2. Pending(t)' = Pending(t)
  BY <1>1, PendingOf DEF Pending
<1> QED BY <1>1, <1>2, NothingCounted DEF Becomes

LEMMA HandlerBooks ==
  ASSUME BusTyped, NEW h \in Handlers, RegisterHandler(h) \/ UnregisterHandler(h)
  PROVE  BooksKept
<1>1. handlers' \in Seq(Handlers)
  <2>1. handlers \in Seq(Handlers)
    BY DEF BusTyped, BusTypeOK
  <2>2. CASE RegisterHandler(h)
    BY <2>1, <2>2, AppendProperties DEF RegisterHandler
  <2>3. CASE UnregisterHandler(h)
    BY <2>1, <2>3, Removed DEF UnregisterHandler
  <2> QED BY <2>2, <2>3
<1>2. UNCHANGED <<config, queue, published, retryCounts, lifecycle, wake, busThread, busHistory>>
  BY DEF RegisterHandler, UnregisterHandler
<1>3. BusTyped'
  BY <1>1, <1>2 DEF BusTyped, BusTypeOK, ThreadsTyped, WellPlaced, config, published, lifecycle,
     busHistory
<1>4. \A e \in Events : Accounted(e) => Accounted(e)'
  BY <1>2 DEF Accounted, Outstanding, InHand, Pending, busHistory
<1> QED BY <1>3, <1>4 DEF BooksKept

LEMMA LifecycleBooks ==
  ASSUME BusTyped,
         \/ \E w \in BusWorkers : LoopTop(w) \/ Wait(w) \/ CoordinatorStart(w)
         \/ Join \/ \E drain \in BOOLEAN : CoordinatorStop(drain)
  PROVE  BooksKept
<1>0. /\ BusWorkers \subseteq Threads /\ "control" \in Threads
      /\ "publisher" \notin BusWorkers
      /\ {"off", "top", "wait", "take", "join"} \cap Delivering = {}
  BY BusAssumption DEF BusAssumption, Threads, Delivering, Calling
<1>1. ASSUME ThreadsTyped', \A e \in Events : Accounted(e) => Accounted(e)',
             UNCHANGED <<config, queue, handlers, published, retryCounts, busHistory>>,
             busWorker' \in BusWorkers \cup {"none"}, stopping' \in BOOLEAN, wake' \in BOOLEAN
      PROVE  BooksKept
  BY <1>1 DEF BooksKept, BusTyped, BusTypeOK, ThreadsTyped, config, published, busHistory
<1>2. /\ busWorker \in BusWorkers \cup {"none"} /\ stopping \in BOOLEAN /\ wake \in BOOLEAN
  BY DEF BusTyped, BusTypeOK
<1>3. ASSUME NEW w \in BusWorkers, LoopTop(w) PROVE BooksKept
  BY <1>0, <1>1, <1>2, <1>3, GotoBooks DEF LoopTop, At, lifecycle, busHistory
<1>4. ASSUME NEW w \in BusWorkers, Wait(w) PROVE BooksKept
  BY <1>0, <1>1, <1>2, <1>4, GotoBooks DEF Wait, At, lifecycle, busHistory
<1>5. ASSUME NEW w \in BusWorkers, CoordinatorStart(w) PROVE BooksKept
  BY <1>0, <1>1, <1>2, <1>5, GotoBooks DEF CoordinatorStart, StartBus, At, busHistory
<1>6. ASSUME Join PROVE BooksKept
  BY <1>0, <1>1, <1>2, <1>6, GotoBooks DEF Join, At, busHistory
<1>7. ASSUME NEW drain \in BOOLEAN, CoordinatorStop(drain) PROVE BooksKept
  BY <1>0, <1>1, <1>2, <1>7, GotoBooks DEF CoordinatorStop, LockFree, StopBus, At, busHistory
<1> QED BY <1>3, <1>4, <1>5, <1>6, <1>7

LEMMA TakeBooks ==
  ASSUME BusTyped, NEW t \in Threads, Take(t)
  PROVE  BooksKept
<1>0. /\ queue \in Seq(Events) /\ queue' = <<>> /\ At(t, "take") /\ BusTypeOK /\ ThreadsTyped
      /\ UNCHANGED <<config, handlers, published, retryCounts, lifecycle, wake,
                     made, rounds, lost, failed, order>>
  BY DEF Take, ClearedQueue, BusTyped, BusTypeOK
<1>1. busThread[t].at = "take" /\ busThread[t].at \notin Delivering /\ t # "publisher"
  BY <1>0 DEF At, Delivering, Calling, ThreadsTyped, WellPlaced
<1>2. queue' \in Seq(Events) /\ Len(queue') <= MaxQueueSize
  BY <1>0, BusAssumption, EmptySeq DEF BusAssumption
<1>3. ASSUME ThreadsTyped', together' \in BOOLEAN PROVE BusTyped'
  BY <1>0, <1>2, <1>3 DEF BusTyped, BusTypeOK, ThreadsTyped, config, published, lifecycle
<1>4. CASE queue = <<>>
  <2>1. BusGoto(t, Home(t)) /\ UNCHANGED <<queue, made, rounds, lost, together>>
    BY <1>0, <1>4 DEF Take
  <2>2. Home(t) \in {"off", "top", "wait", "take", "join"}
    BY HomeIs
  <2>3. ThreadsTyped' /\ \A e \in Events : Accounted(e) => Accounted(e)'
    BY <1>1, <2>1, <2>2, GotoBooks
  <2> QED BY <1>0, <1>3, <2>1, <2>3 DEF BooksKept, BusTypeOK
<1>5. CASE queue # <<>>
  <2>1. PICK q \in Sorted(queue) : TakesOn(t, q)
    BY <1>5 DEF Take
  <2>2. q \in Seq(Events) /\ Len(q) = Len(queue)
    BY <1>0, SortedKeeps
  <2>3. q # <<>>
    BY <1>0, <1>5, <2>2, EmptySeq
  <2>4. together' \in BOOLEAN
    BY <1>1, <2>1, <2>2, <2>3, TakesOnIs
  <2>5. PICK n : /\ Becomes(t, n) /\ n.batch = q /\ n.todo = <<>>
                 /\ busThread[t].batch = <<>> /\ busThread[t].todo = <<>>
    BY <1>1, <2>1, <2>2, <2>3, TakesOnIs
  <2>6. Pending(t) = <<>> /\ Pending(t)' = q
    BY <2>5, PendingOf DEF Pending
  <2>7. ASSUME NEW e \in Events, Accounted(e) PROVE Accounted(e)'
    <3>1. Count(e, q) = Count(e, queue) /\ Count(e, queue') = 0 /\ Count(e, Pending(t)) = 0
      BY <1>0, <2>6, CountSorted, CountEmpty
    <3>2. /\ made[e] \in Nat /\ rounds[e] \in Nat /\ lost[e] \in Nat /\ Count(e, queue) \in Nat
      BY <1>0, CopiesFinite DEF BusTypeOK
    <3>3. made'[e] = made[e] /\ rounds'[e] = rounds[e] /\ lost'[e] = lost[e]
      BY <1>0
    <3>4. made'[e] + rounds[e] + lost[e] + Count(e, queue) + Count(e, Pending(t))
            = made[e] + rounds'[e] + lost'[e] + Count(e, queue') + Count(e, Pending(t)')
      BY <2>6, <3>1, <3>2, <3>3
    <3> QED BY <1>2, <2>5, <2>7, <3>2, <3>3, <3>4, Balance
  <2> QED BY <1>3, <2>4, <2>5, <2>7 DEF BooksKept, Becomes
<1> QED BY <1>4, <1>5

LEMMA DeliverBooks ==
  ASSUME BusTyped, NEW t \in Threads, Deliver(t)
  PROVE  BooksKept
<1>0. BusTypeOK /\ ThreadsTyped
  BY DEF BusTyped
<1>1. PICK e : e = Head(busThread[t].batch)
  OBVIOUS
<1>2. /\ busThread[t].batch \in Seq(Events) /\ busThread[t].batch # <<>> /\ e \in Events
      /\ Pending(t) = busThread[t].batch
  BY <1>1, DeliverIs
<1>3. PICK n : Becomes(t, n) /\ Pending(t)' = Tail(busThread[t].batch)
  BY DeliverIs
<1>4. /\ rounds' = [rounds EXCEPT ![e] = @ + 1]
      /\ order' = IF e \in Range(order) THEN order ELSE Append(order, e)
      /\ UNCHANGED <<config, queue, handlers, published, retryCounts, lifecycle, wake,
                     made, lost, failed, together>>
  BY <1>1 DEF Deliver
<1>5. rounds' \in [Events -> Nat] /\ \A f \in Events : rounds'[f] = rounds[f] + One(f = e)
  <2>1. rounds \in [Events -> Nat] /\ rounds' = [rounds EXCEPT ![e] = @ + 1]
    BY <1>0, <1>4 DEF BusTypeOK
  <2> QED BY <1>2, <2>1 DEF One
<1>6. order' \in Seq(Events)
  BY <1>0, <1>2, <1>4, AppendProperties DEF BusTypeOK
<1>7. BusTyped'
  BY <1>0, <1>3, <1>4, <1>5, <1>6 DEF BusTyped, BusTypeOK, Becomes, ThreadsTyped, config, published,
     lifecycle
<1>8. ASSUME NEW f \in Events, Accounted(f) PROVE Accounted(f)'
  <2>1. Count(f, Pending(t)) = Count(f, Pending(t)') + One(f = e)
    BY <1>1, <1>2, <1>3, CountTail
  <2>2. Count(f, Pending(t)') \in Nat /\ One(f = e) \in Nat
    BY <1>2, <1>3, HeadTailProperties, CopiesFinite DEF One
  <2>3. /\ made[f] \in Nat /\ rounds[f] \in Nat /\ lost[f] \in Nat /\ Count(f, queue) \in Nat
        /\ queue \in Seq(Events)
    BY <1>0, CopiesFinite DEF BusTypeOK
  <2>4. /\ made'[f] = made[f] /\ lost'[f] = lost[f] /\ rounds'[f] = rounds[f] + One(f = e)
        /\ queue' = queue
    BY <1>4, <1>5
  <2>5. PICK m \in Nat, r \in Nat, l \in Nat, c \in Nat, p \in Nat, i \in Nat :
          /\ m = made[f] /\ r = rounds[f] /\ l = lost[f] /\ c = Count(f, queue)
          /\ p = Count(f, Pending(t)') /\ i = One(f = e)
    BY <2>2, <2>3, Zenon
  <2>6. m + r + l + c + (p + i) = m + (r + i) + l + c + p
    OBVIOUS
  <2>7. made'[f] + rounds[f] + lost[f] + Count(f, queue) + Count(f, Pending(t))
          = made[f] + rounds'[f] + lost'[f] + Count(f, queue') + Count(f, Pending(t)')
    BY <2>1, <2>4, <2>5, <2>6
  <2>8. made'[f] \in Nat /\ rounds'[f] \in Nat /\ lost'[f] \in Nat
    BY <1>5, <2>3, <2>4
  <2> QED BY <1>3, <1>8, <2>3, <2>4, <2>7, <2>8, Balance
<1> QED BY <1>7, <1>8 DEF BooksKept

LEMMA CallBooks ==
  ASSUME BusTyped, NEW t \in Threads,
         DeliveryReturns(t) \/ DeliveryFails(t) \/ WriteAttempts(t)
  PROVE  BooksKept
<1>0. BusTypeOK /\ ThreadsTyped
  BY DEF BusTyped
<1>1. busThread[t].at \in Calling
  BY DEF DeliveryReturns, DeliveryFails, WriteAttempts, At, Calling
<1>2. PICK e \in Events : e = Head(busThread[t].batch)
  BY <1>1, CallingIs
<1>3. ASSUME NEW n, Becomes(t, n), Pending(t)' = Pending(t),
             retryCounts' \in [Events -> Nat], failed' \subseteq Events,
             UNCHANGED <<config, queue, handlers, published, lifecycle, wake,
                         made, rounds, lost, order, together>>
      PROVE  BooksKept
  <2>1. BusTyped'
    BY <1>0, <1>3 DEF BusTyped, BusTypeOK, Becomes, ThreadsTyped, config, published, lifecycle
  <2>2. \A f \in Events : Accounted(f) => Accounted(f)'
    BY <1>3, NothingCounted
  <2> QED BY <2>1, <2>2 DEF BooksKept
<1>4. retryCounts \in [Events -> Nat] /\ failed \subseteq Events /\ busThread[t].tries \in Nat
  BY <1>0, <1>1, CallingIs DEF BusTypeOK
<1>5. CASE DeliveryReturns(t)
  <2>1. PICK n : Becomes(t, n) /\ Pending(t)' = Pending(t)
    BY <1>1, <1>5, OnwardIs DEF DeliveryReturns
  <2> QED BY <1>3, <1>4, <1>5, <2>1 DEF DeliveryReturns, busHistory
<1>6. CASE DeliveryFails(t)
  <2>1. retryCounts[e] \in Nat
    BY <1>4
  <2>2. PICK n : Becomes(t, n) /\ Pending(t)' = Pending(t)
    BY <1>1, <1>2, <1>6, <2>1, WithinIs DEF DeliveryFails, Calling
  <2>3. failed' = failed \cup {e}
    BY <1>2, <1>6 DEF DeliveryFails
  <2> QED BY <1>3, <1>4, <1>6, <2>2, <2>3 DEF DeliveryFails
<1>7. CASE WriteAttempts(t)
  <2>1. CASE RetriesLeft(t)
    <3>1. retryCounts' = [retryCounts EXCEPT ![e] = busThread[t].tries + 1]
      BY <1>2, <1>7, <2>1 DEF WriteAttempts
    <3>2. retryCounts' \in [Events -> Nat]
      BY <1>4, <3>1
    <3>3. busThread' = [busThread EXCEPT ![t].at = "requeue", ![t].tries = busThread[t].tries]
      <4>1. busThread \in [Threads -> Thread] /\ busThread[t] \in Thread
        BY <1>0 DEF ThreadsTyped
      <4>2. [busThread[t] EXCEPT !.at = "requeue"]
              = [busThread[t] EXCEPT !.at = "requeue", !.tries = busThread[t].tries]
        BY <4>1 DEF Thread
      <4> QED BY <1>7, <2>1, <4>1, <4>2 DEF WriteAttempts, BusGoto
    <3>4. PICK n : Becomes(t, n) /\ Pending(t)' = Pending(t)
      BY <1>1, <1>4, <3>3, WithinIs DEF Calling
    <3> QED BY <1>3, <1>4, <1>7, <3>2, <3>4 DEF WriteAttempts, busHistory
  <2>2. CASE ~RetriesLeft(t)
    <3>1. PICK n : Becomes(t, n) /\ Pending(t)' = Pending(t)
      BY <1>1, <1>7, <2>2, OnwardIs DEF WriteAttempts
    <3> QED BY <1>3, <1>4, <1>7, <2>2, <3>1 DEF WriteAttempts, busHistory
  <2> QED BY <2>1, <2>2
<1> QED BY <1>5, <1>6, <1>7

LEMMA RequeueBooks ==
  ASSUME BusTyped, NEW t \in Threads, Requeue(t)
  PROVE  BooksKept
<1>0. BusTypeOK /\ ThreadsTyped
  BY DEF BusTyped
<1>1. busThread[t].at \in Calling
  BY DEF Requeue, At, Calling
<1>2. PICK e \in Events : e = Head(busThread[t].batch)
  BY <1>1, CallingIs
<1>3. PICK n : Becomes(t, n) /\ Pending(t)' = Pending(t)
  BY <1>1, OnwardIs DEF Requeue
<1>4. UNCHANGED <<config, handlers, published, retryCounts, lifecycle, wake,
                  rounds, failed, order, together>>
  BY DEF Requeue
<1>5. ASSUME queue' \in Seq(Events), Len(queue') <= MaxQueueSize,
             lost' \in [Events -> Nat], made' \in [Events -> Nat]
      PROVE  BusTyped'
  BY <1>0, <1>3, <1>4, <1>5 DEF BusTyped, BusTypeOK, Becomes, ThreadsTyped, config, published,
     lifecycle
<1>6. CASE Refused
  <2>1. UNCHANGED <<queue, made, rounds, lost>>
    BY <1>4, <1>6 DEF Requeue
  <2>2. \A f \in Events : Accounted(f) => Accounted(f)'
    BY <1>3, <2>1, NothingCounted
  <2> QED BY <1>0, <1>5, <2>1, <2>2 DEF BooksKept, BusTypeOK
<1>7. CASE ~Refused
  <2>1. queue' = Append(Evicted, e) /\ lost' = LostOldest /\ made' = [made EXCEPT ![e] = @ + 1]
    BY <1>2, <1>7 DEF Requeue
  <2>2. /\ queue' \in Seq(Events) /\ Len(queue') <= MaxQueueSize
        /\ lost' \in [Events -> Nat]
        /\ \A f \in Events :
             Count(f, queue') + lost'[f] = Count(f, queue) + lost[f] + One(f = e)
    BY <2>1, QueueGrows
  <2>3. made' \in [Events -> Nat] /\ \A f \in Events : made'[f] = made[f] + One(f = e)
    <3>1. made \in [Events -> Nat]
      BY <1>0 DEF BusTypeOK
    <3> QED BY <2>1, <3>1 DEF One
  <2>4. ASSUME NEW f \in Events, Accounted(f) PROVE Accounted(f)'
    <3>1. Count(f, Pending(t)') = Count(f, Pending(t)) /\ Count(f, Pending(t)) \in Nat
      BY <1>0, <1>3, PendingIs, CopiesFinite
    <3>2. /\ made[f] \in Nat /\ rounds[f] \in Nat /\ lost[f] \in Nat
          /\ Count(f, queue) \in Nat /\ Count(f, queue') \in Nat /\ lost'[f] \in Nat
          /\ One(f = e) \in Nat
      BY <1>0, <2>2, CopiesFinite DEF BusTypeOK, One
    <3>3. PICK m \in Nat, r \in Nat, l \in Nat, c \in Nat, p \in Nat, i \in Nat,
               d \in Nat, k \in Nat :
            /\ m = made[f] /\ r = rounds[f] /\ l = lost[f] /\ c = Count(f, queue)
            /\ p = Count(f, Pending(t)) /\ i = One(f = e)
            /\ d = Count(f, queue') /\ k = lost'[f]
      BY <3>1, <3>2, Zenon
    <3>4. d + k = c + l + i
      BY <2>2, <3>3, Zenon
    <3>5. (m + i) + r + l + c + p = m + r + k + d + p
      BY <3>4
    <3>6. made'[f] = m + i /\ rounds'[f] = r
      BY <1>4, <2>3, <3>3
    <3>7. made'[f] + rounds[f] + lost[f] + Count(f, queue) + Count(f, Pending(t))
            = made[f] + rounds'[f] + lost'[f] + Count(f, queue') + Count(f, Pending(t)')
      BY <3>1, <3>3, <3>5, <3>6, Zenon
    <3>8. made'[f] \in Nat /\ rounds'[f] \in Nat
      BY <3>3, <3>6
    <3> QED BY <1>3, <2>2, <2>4, <3>2, <3>7, <3>8, Balance
  <2> QED BY <1>5, <2>2, <2>3, <2>4 DEF BooksKept
<1> QED BY <1>6, <1>7

\* In deterministic mode the publisher takes a copy of its own.
LEMMA PublishBooks ==
  ASSUME BusTyped, NEW e \in Events, NEW d \in Devices, Publish(e, d)
  PROVE  BooksKept
<1>0. BusTypeOK /\ ThreadsTyped
  BY DEF BusTyped
<1>1. /\ seen' \subseteq Events
      /\ perDevice' \in [Devices -> Nat]
      /\ event' \in [Events -> [device : Devices \cup {0}, sequence : Nat]]
      /\ UNCHANGED <<config, handlers, retryCounts, lifecycle, rounds, failed, order>>
  <2>1. NextSequence(d) \in Nat /\ perDevice \in [Devices -> Nat]
    BY <1>0 DEF BusTypeOK, NextSequence
  <2>2. perDevice' = [perDevice EXCEPT ![d] = NextSequence(d)]
    BY DEF Publish
  <2>3. perDevice' \in [Devices -> Nat]
    BY <2>1, <2>2
  <2>4. [device |-> d, sequence |-> NextSequence(d)] \in [device : Devices \cup {0}, sequence : Nat]
    BY <2>1
  <2>5. event' = [event EXCEPT ![e] = [device |-> d, sequence |-> NextSequence(d)]]
    BY DEF Publish
  <2>6. event' \in [Events -> [device : Devices \cup {0}, sequence : Nat]]
    BY <1>0, <2>4, <2>5 DEF BusTypeOK
  <2>7. seen' \subseteq Events
    BY <1>0 DEF BusTypeOK, Publish
  <2> QED BY <2>3, <2>6, <2>7 DEF Publish
<1>2. ASSUME queue' \in Seq(Events), Len(queue') <= MaxQueueSize,
             lost' \in [Events -> Nat], made' \in [Events -> Nat],
             ThreadsTyped', together' \in BOOLEAN, wake' \in BOOLEAN
      PROVE  BusTyped'
  BY <1>0, <1>1, <1>2 DEF BusTyped, BusTypeOK, ThreadsTyped, config, lifecycle
<1>3. CASE Refused
  <2>1. UNCHANGED <<queue, lost, made, busThread, together, wake, rounds>>
    BY <1>1, <1>3 DEF Publish
  <2>2. ThreadsTyped'
    BY <1>0, <2>1 DEF ThreadsTyped, WellPlaced
  <2>3. \A f \in Events : Accounted(f) => Accounted(f)'
    BY <2>1 DEF Accounted, Outstanding, InHand, Pending
  <2> QED BY <1>0, <1>2, <2>1, <2>2, <2>3 DEF BooksKept, BusTypeOK
<1>4. CASE ~Refused
  <2>1. /\ queue' = Append(Evicted, e) /\ lost' = LostOldest
        /\ made' = [made EXCEPT ![e] = @ + IF deterministic THEN 2 ELSE 1]
    BY <1>4 DEF Publish
  <2>2. /\ queue' \in Seq(Events) /\ Len(queue') <= MaxQueueSize
        /\ lost' \in [Events -> Nat]
        /\ \A f \in Events :
             Count(f, queue') + lost'[f] = Count(f, queue) + lost[f] + One(f = e)
    BY <2>1, QueueGrows
  <2>3. PICK t \in Threads, own \in Nat :
          t = "publisher" /\ own = IF deterministic THEN 1 ELSE 0
    BY DEF Threads
  <2>5. /\ made' \in [Events -> Nat]
        /\ \A f \in Events : made'[f] = made[f] + One(f = e) + (IF f = e THEN own ELSE 0)
    <3>1. made \in [Events -> Nat]
      BY <1>0, Zenon DEF BusTypeOK
    <3>2. made' = [made EXCEPT ![e] = @ + (1 + own)]
      BY <2>1, <2>3
    <3>3. PICK m \in [Events -> Nat] : m = made
      BY <3>1
    <3>4. PICK k \in Nat : k = m[e] + (1 + own)
      OBVIOUS
    <3>5. made' = [m EXCEPT ![e] = k]
      BY <3>2, <3>3, <3>4
    <3>6. made' \in [Events -> Nat]
      BY <3>5
    <3>7. ASSUME NEW f \in Events
          PROVE  made'[f] = made[f] + One(f = e) + (IF f = e THEN own ELSE 0)
      <4>1. CASE f = e
        <5>1. made'[f] = m[f] + (1 + own) /\ m[f] \in Nat
          BY <3>4, <3>5, <4>1
        <5>2. One(f = e) = 1 /\ (IF f = e THEN own ELSE 0) = own
          BY <4>1 DEF One
        <5> QED BY <3>3, <5>1, <5>2
      <4>2. CASE f # e
        <5>1. made'[f] = m[f] /\ m[f] \in Nat
          BY <3>5, <4>2
        <5>2. One(f = e) = 0 /\ (IF f = e THEN own ELSE 0) = 0
          BY <4>2 DEF One
        <5> QED BY <3>3, <5>1, <5>2
      <4> QED BY <4>1, <4>2
    <3> QED BY <3>6, <3>7
  <2>6. \E n : /\ Becomes(t, n) /\ together' \in BOOLEAN /\ wake' \in BOOLEAN
               /\ \A f \in Events :
                    Count(f, Pending(t)') = Count(f, Pending(t)) + (IF f = e THEN own ELSE 0)
    <3>1. CASE deterministic
      <4> DEFINE b == <<e>>
      <4>1. TakesOn(t, b) /\ UNCHANGED wake /\ busThread[t].at = "off"
        BY <1>4, <2>3, <3>1 DEF Publish, At
      <4>2. b = Append(<<>>, e) /\ <<>> \in Seq(Events)
        BY EmptySeq
      <4>3. b \in Seq(Events) /\ b # <<>>
        BY <4>2, AppendProperties
      <4>4. \A f \in Events : Count(f, b) = One(f = e)
        <5> SUFFICES ASSUME NEW f \in Events PROVE Count(f, b) = One(f = e)
          OBVIOUS
        <5>1. Count(f, b) = Count(f, <<>>) + One(f = e)
          <6>1. PICK s \in Seq(Events) : s = <<>>
            BY <4>2
          <6>2. Count(f, Append(s, e)) = Count(f, s) + One(f = e)
            BY CountAppend
          <6> HIDE DEF b
          <6> QED BY <4>2, <6>1, <6>2
        <5> QED BY <5>1, CountEmpty DEF One
      <4> HIDE DEF b
      <4>5. busThread[t].at \notin Delivering
        BY <4>1 DEF Delivering, Calling
      <4>6. together' \in BOOLEAN
        BY <4>1, <4>3, <4>5, TakesOnIs
      <4>7. PICK n : /\ Becomes(t, n) /\ n.batch = b /\ n.todo = <<>>
                     /\ busThread[t].batch = <<>> /\ busThread[t].todo = <<>>
        BY <4>1, <4>3, <4>5, TakesOnIs
      <4>8. Pending(t) = <<>> /\ Pending(t)' = b
        BY <4>7, PendingOf DEF Pending
      <4>9. \A f \in Events :
              Count(f, Pending(t)') = Count(f, Pending(t)) + (IF f = e THEN own ELSE 0)
        BY <2>3, <3>1, <4>4, <4>8, CountEmpty DEF One
      <4> QED BY <1>0, <4>1, <4>6, <4>7, <4>9 DEF BusTypeOK
    <3>2. CASE ~deterministic
      <4>1. UNCHANGED <<busThread, together>> /\ wake' = TRUE
        BY <1>4, <3>2 DEF Publish
      <4>2. Becomes(t, busThread[t])
        BY <1>0, <4>1 DEF Becomes, ThreadsTyped, WellPlaced
      <4>3. Pending(t)' = Pending(t)
        BY <4>1 DEF Pending
      <4>4. \A f \in Events : Count(f, Pending(t)) \in Nat
        BY <1>0, PendingIs, CopiesFinite
      <4>5. \A f \in Events :
              Count(f, Pending(t)') = Count(f, Pending(t)) + (IF f = e THEN own ELSE 0)
        BY <2>3, <3>2, <4>3, <4>4
      <4> QED BY <1>0, <4>1, <4>2, <4>5 DEF BusTypeOK
    <3> QED BY <3>1, <3>2
  <2>7. PICK n : /\ Becomes(t, n) /\ together' \in BOOLEAN /\ wake' \in BOOLEAN
                 /\ \A f \in Events :
                      Count(f, Pending(t)') = Count(f, Pending(t)) + (IF f = e THEN own ELSE 0)
    BY <2>6
  <2>8. ASSUME NEW f \in Events, Accounted(f) PROVE Accounted(f)'
    <3>0. PICK o : o = IF f = e THEN own ELSE 0
      OBVIOUS
    <3>1. o \in Nat /\ Count(f, Pending(t)) \in Nat
      BY <1>0, <3>0, PendingIs, CopiesFinite
    <3>2. /\ made[f] \in Nat /\ rounds[f] \in Nat /\ lost[f] \in Nat
          /\ Count(f, queue) \in Nat /\ Count(f, queue') \in Nat /\ lost'[f] \in Nat
          /\ One(f = e) \in Nat
      BY <1>0, <2>2, CopiesFinite DEF BusTypeOK, One
    <3>3. PICK m \in Nat, r \in Nat, l \in Nat, c \in Nat, p \in Nat, i \in Nat,
               j \in Nat, k \in Nat, q \in Nat :
            /\ m = made[f] /\ r = rounds[f] /\ l = lost[f] /\ c = Count(f, queue)
            /\ p = Count(f, Pending(t)) /\ i = One(f = e)
            /\ j = Count(f, queue') /\ k = lost'[f] /\ q = o
      BY <3>1, <3>2, Zenon
    <3>4. j + k = c + l + i
      BY <2>2, <3>3, Zenon
    <3>5. (m + i + q) + r + l + c + p = m + r + k + j + (p + q)
      BY <3>4
    <3>6. made'[f] = m + i + q /\ Count(f, Pending(t)') = p + q
      BY <2>5, <2>7, <3>0, <3>3, Zenon
    <3>7. rounds'[f] = r
      BY <1>1, <3>3
    <3>8. made'[f] + rounds[f] + lost[f] + Count(f, queue) + Count(f, Pending(t))
            = made[f] + rounds'[f] + lost'[f] + Count(f, queue') + Count(f, Pending(t)')
      BY <3>3, <3>5, <3>6, <3>7, Zenon
    <3>9. made'[f] \in Nat /\ rounds'[f] \in Nat
      BY <3>3, <3>6, <3>7
    <3> QED BY <2>2, <2>7, <2>8, <3>2, <3>8, <3>9, Balance
  <2> QED BY <1>2, <2>2, <2>5, <2>7, <2>8 DEF BooksKept, Becomes
<1> QED BY <1>3, <1>4

LEMMA BusInitBooks == BusInit => \A e \in Events : Accounted(e)
<1> SUFFICES ASSUME BusInit, NEW e \in Events PROVE Accounted(e)
  OBVIOUS
<1>1. made[e] = 0 /\ rounds[e] = 0 /\ lost[e] = 0 /\ queue = <<>>
  BY DEF BusInit
<1>2. \A t \in Threads : Pending(t) = <<>>
  BY DEF BusInit, BusOff, Pending
<1>3. InHand(e) = {}
  BY <1>2, CountEmpty DEF InHand
<1>4. Cardinality(InHand(e)) = 0 /\ Cardinality(Copies(e, queue)) = 0
  BY <1>1, <1>3, CountEmpty, FS_EmptySet DEF Count
<1> QED BY <1>1, <1>4 DEF Accounted, Outstanding

LEMMA BusStepBooks == BusTyped /\ [BusNext]_busVars => BooksKept
<1> SUFFICES ASSUME BusTyped, [BusNext]_busVars PROVE BooksKept
  OBVIOUS
<1>1. ASSUME NEW h \in Handlers, RegisterHandler(h) \/ UnregisterHandler(h) PROVE BooksKept
  BY <1>1, HandlerBooks
<1>2. ASSUME NEW e \in Events, NEW d \in Devices, Publish(e, d) PROVE BooksKept
  BY <1>2, PublishBooks
<1>3. ASSUME NEW t \in Threads, ThreadStep(t) PROVE BooksKept
  <2>1. CASE Take(t)
    BY <2>1, TakeBooks
  <2>2. CASE Deliver(t)
    BY <2>2, DeliverBooks
  <2>3. CASE DeliveryReturns(t) \/ DeliveryFails(t) \/ WriteAttempts(t)
    BY <2>3, CallBooks
  <2>4. CASE Requeue(t)
    BY <2>4, RequeueBooks
  <2>5. CASE t \in BusWorkers /\ (LoopTop(t) \/ Wait(t))
    BY <2>5, LifecycleBooks
  <2>6. CASE t = "control" /\ Join
    BY <2>6, LifecycleBooks
  <2> QED BY <1>3, <2>1, <2>2, <2>3, <2>4, <2>5, <2>6 DEF ThreadStep, DeliveryStep
<1>4. ASSUME NEW w \in BusWorkers, CoordinatorStart(w) PROVE BooksKept
  BY <1>4, LifecycleBooks
<1>5. ASSUME NEW drain \in BOOLEAN, CoordinatorStop(drain) PROVE BooksKept
  BY <1>5, LifecycleBooks
<1>6. CASE UNCHANGED busVars
  <2>1. UNCHANGED <<config, queue, handlers, published, retryCounts, lifecycle, wake, busThread,
                    busHistory>>
    BY <1>6 DEF busVars
  <2>2. BusTyped'
    BY <2>1 DEF BusTyped, BusTypeOK, ThreadsTyped, WellPlaced, config, published, lifecycle,
       busHistory
  <2>3. \A e \in Events : Accounted(e) => Accounted(e)'
    BY <2>1 DEF Accounted, Outstanding, InHand, Pending, busHistory
  <2> QED BY <2>2, <2>3 DEF BooksKept
<1> QED BY <1>1, <1>2, <1>3, <1>4, <1>5, <1>6 DEF BusNext

\* The types of the bus, for any number of events, devices, handlers, workers and
\* retries and any capacity of the queue.
THEOREM BusTypes == BusSpec => []BusTypeOK
<1>1. BusInit => BusTyped
  BY BusInitTyped
<1>2. BusTyped /\ [BusNext]_busVars => BusTyped'
  BY BusStepBooks DEF BooksKept
<1>3. BusTyped => BusTypeOK
  BY DEF BusTyped
<1> QED BY <1>1, <1>2, <1>3, PTL DEF BusSpec

\* Each copy of an event that entered the queue is delivered once, waits, is in the
\* snapshot of a thread, or was evicted.  The number of copies a thread has in hand
\* is the cardinality of a set of pairs, which a step of one thread changes by that
\* thread's share alone.
THEOREM CopiesTheorem == BusSpec => []CopiesAreAccountedFor
<1> DEFINE Books == \A e \in Events : Accounted(e)
<1>1. BusInit => BusTyped /\ Books
  BY BusInitTyped, BusInitBooks
<1>2. BusTyped /\ Books /\ [BusNext]_busVars => (BusTyped /\ Books)'
  BY BusStepBooks DEF BooksKept
<1>3. Books => CopiesAreAccountedFor
  BY DEF Accounted, CopiesAreAccountedFor
<1> HIDE DEF Books
<1> QED BY <1>1, <1>2, <1>3, PTL DEF BusSpec

-----------------------------------------------------------------------------
\* What occurs in a sequence, and in which order.
LEMMA RangeEmpty == Range(<<>>) = {}
BY DEF Range

LEMMA RangeIn ==
  ASSUME NEW S, NEW s \in Seq(S), NEW x \in Range(s)
  PROVE  x \in S
BY LenProperties, ElementOfSeq DEF Range

LEMMA RangeAppend ==
  ASSUME NEW S, NEW s \in Seq(S), NEW x \in S
  PROVE  Range(Append(s, x)) = Range(s) \cup {x}
<1> DEFINE r == Append(s, x)
           n == Len(s) + 1
<1>1. /\ DOMAIN s = 1 .. Len(s) /\ Len(s) \in Nat
      /\ r \in Seq(S) /\ Len(r) = n /\ r[n] = x /\ \A i \in 1 .. Len(s) : r[i] = s[i]
  BY LenProperties, AppendProperties
<1>2. DOMAIN r = 1 .. n
  BY <1>1, LenProperties
<1> HIDE DEF r
<1>3. 1 .. n = (1 .. Len(s)) \cup {n}
  BY <1>1
<1>4. Range(r) = Range(s) \cup {x}
  BY <1>1, <1>2, <1>3 DEF Range
<1> QED BY <1>4 DEF r

LEMMA RangeTail ==
  ASSUME NEW S, NEW s \in Seq(S), s # <<>>
  PROVE  Range(s) = Range(Tail(s)) \cup {Head(s)}
<1> DEFINE r == Tail(s)
<1>1. /\ DOMAIN s = 1 .. Len(s) /\ Len(s) \in Nat /\ Len(s) # 0 /\ s[1] = Head(s)
  BY LenProperties, EmptySeq
<1>2. r \in Seq(S) /\ Len(r) = Len(s) - 1 /\ \A i \in 1 .. Len(r) : r[i] = s[i + 1]
  BY HeadTailProperties
<1>3. DOMAIN r = 1 .. Len(r) /\ Len(r) \in Nat
  BY <1>2, LenProperties
<1> HIDE DEF r
<1>4. ASSUME NEW i \in DOMAIN s PROVE s[i] \in Range(r) \cup {Head(s)}
  <2>1. i = 1 \/ (i - 1 \in DOMAIN r /\ r[i - 1] = s[i])
    BY <1>1, <1>2, <1>3
  <2> QED BY <1>1, <2>1 DEF Range
<1>5. ASSUME NEW i \in DOMAIN r PROVE r[i] \in Range(s)
  <2>1. i + 1 \in DOMAIN s /\ r[i] = s[i + 1]
    BY <1>1, <1>2, <1>3
  <2> QED BY <2>1 DEF Range
<1>6. Head(s) \in Range(s)
  BY <1>1 DEF Range
<1>7. Range(s) = Range(r) \cup {Head(s)}
  BY <1>4, <1>5, <1>6 DEF Range
<1> QED BY <1>7 DEF r

LEMMA RangeSorted ==
  ASSUME NEW S, NEW s \in Seq(S), NEW q \in Sorted(s)
  PROVE  Range(q) = Range(s)
<1>1. PICK p \in Bijection(DOMAIN s, DOMAIN s) : \A i \in DOMAIN s : q[i] = s[p[i]]
  BY SortedKeeps
<1>2. DOMAIN q = DOMAIN s
  BY SortedKeeps, LenProperties
<1>3. /\ \A i \in DOMAIN s : p[i] \in DOMAIN s
      /\ \A j \in DOMAIN s : \E i \in DOMAIN s : p[i] = j
  BY DEF Bijection, Surjection
<1>4. ASSUME NEW x \in Range(q) PROVE x \in Range(s)
  <2>1. PICK i \in DOMAIN s : x = s[p[i]]
    BY <1>1, <1>2 DEF Range
  <2> QED BY <1>3, <2>1 DEF Range
<1>5. ASSUME NEW x \in Range(s) PROVE x \in Range(q)
  <2>1. PICK j \in DOMAIN s : x = s[j]
    BY DEF Range
  <2>2. PICK i \in DOMAIN s : p[i] = j
    BY <1>3
  <2> QED BY <1>1, <1>2, <2>1, <2>2 DEF Range
<1> QED BY <1>4, <1>5

InOrder(s) == \A i, j \in DOMAIN s : i < j => ~Earlier(s[j], s[i])

LEMMA InOrderTail ==
  ASSUME NEW S, NEW s \in Seq(S), s # <<>>, InOrder(s)
  PROVE  /\ InOrder(Tail(s))
         /\ \A f \in Range(Tail(s)) : ~Earlier(f, Head(s))
<1> DEFINE r == Tail(s)
<1>1. /\ DOMAIN s = 1 .. Len(s) /\ Len(s) \in Nat /\ Len(s) # 0 /\ s[1] = Head(s)
  BY LenProperties, EmptySeq
<1>2. r \in Seq(S) /\ Len(r) = Len(s) - 1 /\ \A i \in 1 .. Len(r) : r[i] = s[i + 1]
  BY HeadTailProperties
<1>3. DOMAIN r = 1 .. Len(r) /\ Len(r) \in Nat
  BY <1>2, LenProperties
<1> HIDE DEF r
<1>4. \A i \in DOMAIN r : i \in Nat /\ i + 1 \in DOMAIN s /\ 1 < i + 1 /\ r[i] = s[i + 1]
  BY <1>1, <1>2, <1>3
<1>5. ASSUME NEW i \in DOMAIN r, NEW j \in DOMAIN r, i < j PROVE ~Earlier(r[j], r[i])
  <2>1. i + 1 < j + 1
    BY <1>4, <1>5
  <2> QED BY <1>4, <2>1 DEF InOrder
<1>6. ASSUME NEW f \in Range(r) PROVE ~Earlier(f, Head(s))
  <2>1. PICK i \in DOMAIN r : f = r[i]
    BY DEF Range
  <2>2. 1 \in DOMAIN s
    BY <1>1
  <2> QED BY <1>1, <1>4, <2>1, <2>2 DEF InOrder
<1>7. InOrder(r)
  BY <1>5 DEF InOrder
<1> QED BY <1>6, <1>7 DEF r

LEMMA InOrderFew ==
  ASSUME NEW s, NEW e, s = <<>> \/ s = <<e>>
  PROVE  InOrder(s) /\ Range(s) \subseteq {e}
BY DEF InOrder, Range

-----------------------------------------------------------------------------
\* The order of the first deliveries.
Batch(t) == busThread[t].batch
Undelivered == (Range(queue) \cup UNION {Range(Batch(t)) : t \in Threads}) \ Range(order)

\* Every event about was published.
Known ==
  /\ Range(queue) \subseteq seen /\ Range(order) \subseteq seen
  /\ \A t \in Threads : Range(Batch(t)) \subseteq seen

\* The numbers of a device are those it has given, each to one event.
Numbered ==
  \A e \in seen :
    /\ event[e].device \in Devices /\ event[e].sequence <= perDevice[event[e].device]
    /\ \A f \in seen :
         event[e].device = event[f].device /\ event[e].sequence = event[f].sequence => e = f

\* The delivery of an event has begun before a handler is called with it.
HeadsDelivered ==
  \A t \in Threads : busThread[t].at \in Calling => Head(Batch(t)) \in Range(order)

\* In deterministic mode what no one has delivered yet the publisher delivers now.
PublisherFirst == deterministic => Undelivered \subseteq Range(Batch("publisher"))

OneDelivers ==
  ~together => \A t, u \in Threads : Batch(t) # <<>> /\ Batch(u) # <<>> => t = u

SnapshotsSorted == \A t \in Threads : InOrder(Batch(t))

\* Of one device, e has no greater number than f.
NotAfter(e, f) == event[e].device = event[f].device => event[e].sequence <= event[f].sequence

\* What waits for its first delivery comes after all that was delivered, and what was
\* taken for it comes before what was left or came since.
DeliveredFirst ==
  ~together => \A e \in Range(order), f \in Undelivered : NotAfter(e, f)
TakenFirst ==
  ~together =>
    \A t \in Threads : \A e \in Range(Batch(t)) \ Range(order) :
      \A f \in Range(queue) \ Range(order) : NotAfter(e, f)

OrderInv ==
  /\ Known /\ Numbered /\ HeadsDelivered /\ PublisherFirst /\ OneDelivers
  /\ SnapshotsSorted /\ DeliveredFirst /\ TakenFirst /\ FirstDeliveriesInOrder

LEMMA BusInitOrder == BusInit => OrderInv
<1> SUFFICES ASSUME BusInit PROVE OrderInv
  OBVIOUS
<1>1. /\ queue = <<>> /\ order = <<>> /\ seen = {} /\ ~together
      /\ \A t \in Threads : Batch(t) = <<>> /\ busThread[t].at = "off"
  BY DEF BusInit, BusOff, Batch
<1>2. Range(queue) = {} /\ Range(order) = {} /\ \A t \in Threads : Range(Batch(t)) = {}
  BY <1>1, RangeEmpty
<1>3. Undelivered = {}
  BY <1>2 DEF Undelivered
<1>4. \A t \in Threads : InOrder(Batch(t))
  BY <1>1, InOrderFew
<1>5. Known /\ Numbered /\ HeadsDelivered
  BY <1>1, <1>2 DEF Known, Numbered, HeadsDelivered, Calling
<1>6. PublisherFirst /\ OneDelivers /\ SnapshotsSorted
  BY <1>1, <1>3, <1>4 DEF PublisherFirst, OneDelivers, SnapshotsSorted
<1>7. DeliveredFirst /\ TakenFirst
  BY <1>2, <1>3 DEF DeliveredFirst, TakenFirst
<1>8. FirstDeliveriesInOrder
  BY <1>1 DEF FirstDeliveriesInOrder
<1> QED BY <1>5, <1>6, <1>7, <1>8 DEF OrderInv

\* Thread u goes on with what it has, or leaves its head behind.
Lesser(u) ==
  \/ busThread'[u].batch = busThread[u].batch
     /\ (busThread'[u].at \in Calling => busThread[u].at \in Calling)
  \/ /\ busThread[u].at \in Calling /\ busThread'[u].at \notin Calling
     /\ busThread'[u].batch = Tail(busThread[u].batch)

\* A step that brings nothing new keeps the order.
LEMMA LesserOrder ==
  ASSUME BusTyped, OrderInv,
         UNCHANGED <<deterministic, published, order, together>>,
         Range(queue') \subseteq Range(queue) \cup Range(order),
         \A u \in Threads : Lesser(u)
  PROVE  OrderInv'
<1>0. /\ Known /\ Numbered /\ HeadsDelivered /\ PublisherFirst /\ OneDelivers
      /\ SnapshotsSorted /\ DeliveredFirst /\ TakenFirst /\ FirstDeliveriesInOrder
  BY DEF OrderInv
<1>1. ASSUME NEW u \in Threads
      PROVE  /\ Range(Batch(u)') \subseteq Range(Batch(u))
             /\ Range(Batch(u)) \subseteq Range(Batch(u)') \cup Range(order)
             /\ Batch(u)' # <<>> => Batch(u) # <<>>
             /\ InOrder(Batch(u)')
             /\ busThread'[u].at \in Calling => Head(Batch(u)') \in Range(order)
  <2>1. InOrder(Batch(u)) /\ (busThread[u].at \in Calling => Head(Batch(u)) \in Range(order))
    BY <1>0 DEF SnapshotsSorted, HeadsDelivered
  <2>2. CASE /\ Batch(u)' = Batch(u)
             /\ busThread'[u].at \in Calling => busThread[u].at \in Calling
    BY <2>1, <2>2
  <2>3. CASE /\ busThread[u].at \in Calling /\ busThread'[u].at \notin Calling
             /\ Batch(u)' = Tail(Batch(u))
    <3>1. Batch(u) \in Seq(Events) /\ Batch(u) # <<>>
      BY <2>3, CallingIs DEF Batch
    <3>2. Range(Batch(u)) = Range(Tail(Batch(u))) \cup {Head(Batch(u))}
      BY <3>1, RangeTail
    <3>3. InOrder(Tail(Batch(u)))
      BY <2>1, <3>1, InOrderTail
    <3> QED BY <2>1, <2>3, <3>1, <3>2, <3>3
  <2> QED BY <2>2, <2>3 DEF Lesser, Batch
<1>2. event' = event /\ seen' = seen /\ perDevice' = perDevice
  BY DEF published
<1>3. Undelivered' \subseteq Undelivered
  BY <1>1 DEF Undelivered
<1>4. Known' /\ Numbered'
  <2>1. Known'
    BY <1>0, <1>1, <1>2 DEF Known
  <2> QED BY <1>0, <1>2, <2>1 DEF Numbered
<1>5. HeadsDelivered'
  BY <1>1 DEF HeadsDelivered
<1>6. PublisherFirst'
  <2>1. "publisher" \in Threads
    BY DEF Threads
  <2>2. Undelivered' \cap Range(order) = {}
    BY DEF Undelivered
  <2> QED BY <1>0, <1>1, <1>3, <2>1, <2>2 DEF PublisherFirst
<1>7. OneDelivers'
  BY <1>0, <1>1 DEF OneDelivers
<1>8. SnapshotsSorted'
  BY <1>1, <1>2 DEF SnapshotsSorted, InOrder, Earlier
<1>9. DeliveredFirst'
  BY <1>0, <1>2, <1>3 DEF DeliveredFirst, NotAfter
<1>10. TakenFirst'
  BY <1>0, <1>1, <1>2 DEF TakenFirst, NotAfter
<1>11. FirstDeliveriesInOrder'
  BY <1>0, <1>2 DEF FirstDeliveriesInOrder
<1> QED BY <1>4, <1>5, <1>6, <1>7, <1>8, <1>9, <1>10, <1>11 DEF OrderInv

LEMMA NotEarlier ==
  ASSUME BusTyped, NEW e \in Events, NEW f \in Events, ~Earlier(f, e)
  PROVE  NotAfter(e, f)
<1>1. event[e].sequence \in Nat /\ event[f].sequence \in Nat
  BY DEF BusTyped, BusTypeOK
<1> QED BY <1>1 DEF Earlier, NotAfter

\* What begins to be delivered comes before all that waits for it.
LEMMA HeadIsFirst ==
  ASSUME BusTyped, OrderInv, ~together, NEW t \in Threads, Batch(t) # <<>>,
         Head(Batch(t)) \notin Range(order),
         NEW f \in Undelivered, f # Head(Batch(t))
  PROVE  NotAfter(Head(Batch(t)), f)
<1>0. OneDelivers /\ SnapshotsSorted /\ TakenFirst
  BY DEF OrderInv
<1>1. Batch(t) \in Seq(Events) /\ InOrder(Batch(t))
  BY <1>0 DEF BusTyped, ThreadsTyped, Thread, Batch, SnapshotsSorted
<1>2. PICK e \in Events : e = Head(Batch(t))
  BY <1>1, HeadTailProperties
<1>3. Range(Batch(t)) = Range(Tail(Batch(t))) \cup {e}
  BY <1>1, <1>2, RangeTail
<1>4. CASE f \in Range(queue)
  <2>1. f \in Range(queue) \ Range(order) /\ e \in Range(Batch(t)) \ Range(order)
    BY <1>2, <1>3, <1>4 DEF Undelivered
  <2> QED BY <1>0, <1>2, <2>1 DEF TakenFirst
<1>5. CASE f \notin Range(queue)
  <2>1. PICK u \in Threads : f \in Range(Batch(u))
    BY <1>5 DEF Undelivered
  <2>2. Batch(u) # <<>>
    BY <2>1, RangeEmpty
  <2>3. u = t
    BY <1>0, <2>2 DEF OneDelivers
  <2>4. f \in Range(Tail(Batch(t)))
    BY <1>2, <1>3, <2>1, <2>3
  <2>5. ~Earlier(f, e)
    BY <1>1, <1>2, <2>4, InOrderTail
  <2>6. f \in Events
    BY <1>1, <2>1, <2>3, RangeIn
  <2> QED BY <1>2, <2>5, <2>6, NotEarlier
<1> QED BY <1>4, <1>5

LEMMA DeliverOrder ==
  ASSUME BusTyped, OrderInv, NEW t \in Threads, Deliver(t)
  PROVE  OrderInv'
<1>0. /\ Known /\ Numbered /\ HeadsDelivered /\ PublisherFirst /\ OneDelivers
      /\ SnapshotsSorted /\ DeliveredFirst /\ TakenFirst /\ FirstDeliveriesInOrder
  BY DEF OrderInv
<1>1. PICK e : e = Head(busThread[t].batch)
  OBVIOUS
<1>2. /\ Batch(t) \in Seq(Events) /\ Batch(t) # <<>> /\ e \in Events /\ e = Head(Batch(t))
  BY <1>1, DeliverIs DEF Batch
<1>3. PICK n : /\ Becomes(t, n)
               /\ n.at \notin {"failed", "requeue"}
               /\ n.batch \in {Batch(t), Tail(Batch(t))}
               /\ n.at = "call" => n.batch = Batch(t)
  BY DeliverIs DEF Batch
<1>4. order' = IF e \in Range(order) THEN order ELSE Append(order, e)
  BY <1>1 DEF Deliver
<1>5. UNCHANGED <<deterministic, queue, event, seen, perDevice, together>>
  BY DEF Deliver, config, published
<1>6. order \in Seq(Events)
  BY DEF BusTyped, BusTypeOK
<1>7. Range(order') = Range(order) \cup {e}
  BY <1>2, <1>4, <1>6, RangeAppend
<1>8. Range(Batch(t)) = Range(Tail(Batch(t))) \cup {e}
  BY <1>2, RangeTail
<1>9. /\ Batch(t)' = n.batch /\ busThread'[t].at = n.at
      /\ \A u \in Threads \ {t} : busThread'[u] = busThread[u] /\ Batch(u)' = Batch(u)
  BY <1>3 DEF Becomes, Batch
<1>10. ASSUME NEW u \in Threads
       PROVE  /\ Range(Batch(u)') \subseteq Range(Batch(u))
              /\ Range(Batch(u)) \subseteq Range(Batch(u)') \cup {e}
              /\ Batch(u)' # <<>> => Batch(u) # <<>>
              /\ InOrder(Batch(u)')
              /\ busThread'[u].at \in Calling => Head(Batch(u)') \in Range(order')
  <2>1. InOrder(Batch(u)) /\ (busThread[u].at \in Calling => Head(Batch(u)) \in Range(order))
    BY <1>0 DEF SnapshotsSorted, HeadsDelivered
  <2>2. CASE u # t
    BY <1>7, <1>9, <2>1, <2>2
  <2>3. CASE u = t
    <3>1. InOrder(Tail(Batch(t)))
      BY <1>2, <2>1, <2>3, InOrderTail
    <3>2. n.at \in Calling => Head(n.batch) \in Range(order')
      BY <1>2, <1>3, <1>7 DEF Calling
    <3> QED BY <1>2, <1>3, <1>8, <1>9, <2>1, <2>3, <3>1, <3>2
  <2> QED BY <2>2, <2>3
<1>11. Undelivered' \subseteq Undelivered \ {e}
  BY <1>5, <1>7, <1>10 DEF Undelivered
<1>12. e \in seen
  BY <1>0, <1>8 DEF Known
<1>13. Known' /\ Numbered'
  <2>1. Known'
    BY <1>0, <1>5, <1>7, <1>10, <1>12 DEF Known
  <2> QED BY <1>0, <1>5, <2>1 DEF Numbered
<1>14. HeadsDelivered' /\ OneDelivers'
  <2>1. HeadsDelivered'
    BY <1>10 DEF HeadsDelivered
  <2> QED BY <1>0, <1>5, <1>10, <2>1 DEF OneDelivers
<1>15. PublisherFirst'
  <2>1. "publisher" \in Threads
    BY DEF Threads
  <2> QED BY <1>0, <1>5, <1>10, <1>11, <2>1 DEF PublisherFirst
<1>16. SnapshotsSorted'
  BY <1>5, <1>10 DEF SnapshotsSorted, InOrder, Earlier
<1>17. DeliveredFirst'
  <2> SUFFICES ASSUME ~together, NEW g \in Range(order) \cup {e}, NEW f \in Undelivered \ {e}
               PROVE  NotAfter(g, f)
    BY <1>5, <1>7, <1>11 DEF DeliveredFirst, NotAfter
  <2>1. CASE g \in Range(order)
    BY <1>0, <2>1 DEF DeliveredFirst
  <2>2. CASE g = e /\ e \notin Range(order)
    BY <1>2, <2>2, HeadIsFirst
  <2> QED BY <2>1, <2>2
<1>18. TakenFirst'
  BY <1>0, <1>5, <1>7, <1>10 DEF TakenFirst, NotAfter
<1>19. FirstDeliveriesInOrder'
  <2>1. CASE order' = order
    BY <1>0, <1>5, <2>1 DEF FirstDeliveriesInOrder
  <2>2. CASE e \notin Range(order) /\ order' = Append(order, e)
    <3>1. PICK r \in Seq(Events) : r = Append(order, e)
      BY <1>2, <1>6, AppendProperties
    <3>2. PICK k \in Nat : k = Len(order)
      BY <1>6, LenProperties
    <3>3. Len(r) = k + 1 /\ r[k + 1] = e /\ \A i \in 1 .. k : r[i] = order[i]
      BY <1>2, <1>6, <3>1, <3>2, AppendProperties
    <3>4. DOMAIN r = 1 .. k + 1 /\ DOMAIN order = 1 .. k
      BY <1>6, <3>1, <3>2, <3>3, LenProperties
    <3> SUFFICES ASSUME ~together, NEW i \in 1 .. k + 1, NEW j \in 1 .. k + 1, i < j,
                        event[r[i]].device = event[r[j]].device
                 PROVE  event[r[i]].sequence < event[r[j]].sequence
      BY <1>5, <2>2, <3>1, <3>4 DEF FirstDeliveriesInOrder
    <3>5. CASE j \in 1 .. k
      <4>1. i \in 1 .. k
        BY <3>2, <3>5
      <4> QED BY <1>0, <3>3, <3>4, <3>5, <4>1 DEF FirstDeliveriesInOrder
    <3>6. CASE j = k + 1
      <4>1. i \in 1 .. k
        BY <3>2, <3>6
      <4>2. r[i] = order[i] /\ order[i] \in Range(order) /\ r[j] = e
        BY <3>3, <3>4, <3>6, <4>1 DEF Range
      <4>3. PICK g : g = order[i]
        OBVIOUS
      <4>4. g \in Range(order) /\ g \in seen /\ g \in Events
        BY <1>0, <1>6, <4>2, <4>3, RangeIn DEF Known
      <4>5. e \in Undelivered
        BY <1>8, <2>2 DEF Undelivered
      <4>6. NotAfter(g, e)
        BY <1>0, <4>4, <4>5 DEF DeliveredFirst
      <4>7. g # e
        BY <2>2, <4>4
      <4>8. event[g].device = event[e].device
        BY <4>2, <4>3
      <4>9. event[g].sequence # event[e].sequence
        BY <1>0, <1>12, <4>4, <4>7, <4>8 DEF Numbered
      <4>10. event[g].sequence \in Nat /\ event[e].sequence \in Nat
        BY <1>2, <4>4 DEF BusTyped, BusTypeOK
      <4>11. event[g].sequence < event[e].sequence
        BY <4>6, <4>8, <4>9, <4>10 DEF NotAfter
      <4> QED BY <4>2, <4>3, <4>11
    <3> QED BY <3>2, <3>5, <3>6
  <2> QED BY <1>4, <2>1, <2>2
<1> QED BY <1>13, <1>14, <1>15, <1>16, <1>17, <1>18, <1>19 DEF OrderInv

\* A thread goes on without a snapshot, and nothing else happens to the events.
LEMMA GotoOrder ==
  ASSUME BusTyped, OrderInv, NEW t \in Threads,
         NEW place \in {"off", "top", "wait", "take", "join"},
         busThread[t].at \notin Delivering, t = "publisher" => place = "off", BusGoto(t, place),
         UNCHANGED <<deterministic, published, order, together>>,
         Range(queue') \subseteq Range(queue)
  PROVE  OrderInv'
<1>1. PICK n : /\ Becomes(t, n) /\ n.at = place
               /\ n.batch = <<>> /\ n.todo = <<>>
               /\ busThread[t].batch = <<>> /\ busThread[t].todo = <<>>
  BY GotoIs
<1>2. place \notin Calling
  BY DEF Calling
<1>3. \A u \in Threads : Lesser(u)
  BY <1>1, <1>2 DEF Becomes, Lesser
<1> QED BY <1>3, LesserOrder

LEMMA TakeOrder ==
  ASSUME BusTyped, OrderInv, NEW t \in Threads, Take(t)
  PROVE  OrderInv'
<1>0. /\ Known /\ Numbered /\ HeadsDelivered /\ PublisherFirst /\ OneDelivers
      /\ SnapshotsSorted /\ DeliveredFirst /\ TakenFirst /\ FirstDeliveriesInOrder
  BY DEF OrderInv
<1>1. /\ queue \in Seq(Events) /\ queue' = <<>> /\ busThread[t].at = "take"
      /\ UNCHANGED <<deterministic, published, order>>
  BY DEF Take, ClearedQueue, At, config, BusTyped, BusTypeOK
<1>2. busThread[t].at \notin Delivering /\ t # "publisher"
  BY <1>1 DEF Delivering, Calling, BusTyped, ThreadsTyped, WellPlaced
<1>3. Range(queue') = {}
  BY <1>1, RangeEmpty
<1>4. CASE queue = <<>>
  <2>1. BusGoto(t, Home(t)) /\ UNCHANGED together
    BY <1>4 DEF Take
  <2>2. Home(t) \in {"off", "top", "wait", "take", "join"}
    BY HomeIs
  <2> QED BY <1>1, <1>2, <1>3, <2>1, <2>2, GotoOrder
<1>5. CASE queue # <<>>
  <2>1. PICK q \in Sorted(queue) : TakesOn(t, q)
    BY <1>5 DEF Take
  <2>2. /\ q \in Seq(Events) /\ Len(q) = Len(queue)
        /\ \A i, j \in DOMAIN queue : i < j => ~Earlier(q[j], q[i])
    BY <1>1, SortedKeeps
  <2>3. q # <<>>
    BY <1>1, <1>5, <2>2, EmptySeq
  <2>4. Range(q) = Range(queue)
    BY <1>1, RangeSorted
  <2>5. InOrder(q)
    <3>1. DOMAIN q = DOMAIN queue
      BY <1>1, <2>2, LenProperties
    <3> QED BY <2>2, <3>1 DEF InOrder
  <2>6. PICK n : /\ Becomes(t, n) /\ n.at = "deliver"
                 /\ n.batch = q /\ n.todo = <<>>
                 /\ busThread[t].batch = <<>> /\ busThread[t].todo = <<>>
    BY <1>2, <2>1, <2>2, <2>3, TakesOnIs
  <2>7. ~together' => ~together /\ \A u \in Threads \ {t} : Batch(u) = <<>>
    BY <1>2, <2>1, <2>2, <2>3, TakesOnIs DEF Batch
  <2>8. /\ Batch(t)' = q /\ busThread'[t].at = "deliver" /\ Range(Batch(t)) = {}
        /\ \A u \in Threads \ {t} : busThread'[u] = busThread[u] /\ Batch(u)' = Batch(u)
    BY <2>6, RangeEmpty DEF Becomes, Batch
  <2>9. event' = event /\ seen' = seen /\ perDevice' = perDevice
    BY <1>1 DEF published
  <2>10. Undelivered' \subseteq Undelivered
    BY <1>1, <1>3, <2>4, <2>8 DEF Undelivered
  <2>11. Known' /\ Numbered'
    <3>1. Known'
      BY <1>0, <1>1, <1>3, <2>4, <2>8, <2>9 DEF Known
    <3> QED BY <1>0, <2>9, <3>1 DEF Numbered
  <2>12. HeadsDelivered' /\ OneDelivers'
    <3>1. HeadsDelivered'
      BY <1>0, <1>1, <2>8 DEF HeadsDelivered, Calling
    <3> QED BY <2>7, <2>8, <3>1 DEF OneDelivers
  <2>13. PublisherFirst'
    <3>1. "publisher" \in Threads
      BY DEF Threads
    <3> QED BY <1>0, <1>1, <1>2, <2>8, <2>10, <3>1 DEF PublisherFirst
  <2>14. SnapshotsSorted'
    <3>1. \A u \in Threads : InOrder(Batch(u)')
      BY <1>0, <2>5, <2>8 DEF SnapshotsSorted
    <3> QED BY <2>9, <3>1 DEF SnapshotsSorted, InOrder, Earlier
  <2>15. DeliveredFirst'
    BY <1>0, <1>1, <2>7, <2>9, <2>10 DEF DeliveredFirst, NotAfter
  <2>16. TakenFirst'
    BY <1>3 DEF TakenFirst
  <2>17. FirstDeliveriesInOrder'
    BY <1>0, <1>1, <2>7, <2>9 DEF FirstDeliveriesInOrder
  <2> QED BY <2>11, <2>12, <2>13, <2>14, <2>15, <2>16, <2>17 DEF OrderInv
<1> QED BY <1>4, <1>5

LEMMA NewInQueue ==
  ASSUME BusTyped, NEW e \in Events, queue' = Append(Evicted, e)
  PROVE  Range(queue') \subseteq Range(queue) \cup {e}
<1>1. queue \in Seq(Events) /\ Len(queue) \in Nat /\ MaxQueueSize \in Nat \ {0}
  BY BusAssumption, LenProperties DEF BusTyped, BusTypeOK, BusAssumption
<1>2. Evicted \in Seq(Events) /\ Range(Evicted) \subseteq Range(queue)
  <2>1. CASE Full
    <3>1. queue # <<>>
      BY <1>1, <2>1, EmptySeq DEF Full
    <3>2. Tail(queue) \in Seq(Events) /\ Range(queue) = Range(Tail(queue)) \cup {Head(queue)}
      BY <1>1, <3>1, HeadTailProperties, RangeTail
    <3> QED BY <2>1, <3>2 DEF Evicted
  <2>2. CASE ~Full
    BY <1>1, <2>2 DEF Evicted
  <2> QED BY <2>1, <2>2
<1>3. Range(queue') = Range(Evicted) \cup {e}
  BY <1>2, RangeAppend
<1> QED BY <1>2, <1>3

\* What a step within the delivery of an event leaves as it is.
LEMMA CallOrder ==
  ASSUME BusTyped, OrderInv, NEW t \in Threads,
         DeliveryReturns(t) \/ DeliveryFails(t) \/ WriteAttempts(t) \/ Requeue(t)
  PROVE  OrderInv'
<1>1. busThread[t].at \in Calling
  BY DEF DeliveryReturns, DeliveryFails, WriteAttempts, Requeue, At, Calling
<1>2. UNCHANGED <<deterministic, published, order, together>>
  BY DEF DeliveryReturns, DeliveryFails, WriteAttempts, Requeue, config, busHistory
<1>3. PICK e \in Events : e = Head(busThread[t].batch)
  BY <1>1, CallingIs
<1>4. e \in Range(order)
  BY <1>1, <1>3 DEF OrderInv, HeadsDelivered, Batch
<1>5. Range(queue') \subseteq Range(queue) \cup Range(order)
  <2>1. CASE queue' = queue
    BY <2>1
  <2>2. CASE queue' = Append(Evicted, e)
    <3>1. Range(queue') \subseteq Range(queue) \cup {e}
      BY <2>2, NewInQueue
    <3> QED BY <1>4, <3>1
  <2> QED BY <1>3, <2>1, <2>2
       DEF DeliveryReturns, DeliveryFails, WriteAttempts, Requeue
<1>6. \E n : Becomes(t, n) /\ Lesser(t)
  <2>1. CASE busThread' = [busThread EXCEPT ![t] = NextHandler(t)]
    <3>1. PICK n : /\ Becomes(t, n)
                   /\ n.at \notin {"failed", "requeue"}
                   /\ n.batch \in {busThread[t].batch, Tail(busThread[t].batch)}
                   /\ n.at = "call" => n.batch = busThread[t].batch
      BY <1>1, <2>1, OnwardIs
    <3>2. Lesser(t)
      BY <1>1, <3>1 DEF Becomes, Lesser, Calling
    <3> QED BY <3>1, <3>2
  <2>2. ASSUME NEW place \in Calling, NEW tries \in Nat,
               busThread' = [busThread EXCEPT ![t].at = place, ![t].tries = tries]
        PROVE  \E n : Becomes(t, n) /\ Lesser(t)
    <3>1. PICK n : Becomes(t, n) /\ n.batch = busThread[t].batch
      BY <1>1, <2>2, WithinIs
    <3>2. Lesser(t)
      BY <1>1, <3>1 DEF Becomes, Lesser
    <3> QED BY <3>1, <3>2
  <2>3. CASE DeliveryFails(t)
    <3>1. retryCounts[e] \in Nat /\ "failed" \in Calling
      BY DEF BusTyped, BusTypeOK, Calling
    <3> QED BY <1>3, <2>2, <2>3, <3>1 DEF DeliveryFails
  <2>4. CASE WriteAttempts(t) /\ RetriesLeft(t)
    <3>1. busThread' = [busThread EXCEPT ![t].at = "requeue", ![t].tries = busThread[t].tries]
      <4>1. busThread \in [Threads -> Thread] /\ busThread[t] \in Thread
        BY DEF BusTyped, ThreadsTyped
      <4>2. [busThread[t] EXCEPT !.at = "requeue"]
              = [busThread[t] EXCEPT !.at = "requeue", !.tries = busThread[t].tries]
        BY <4>1 DEF Thread
      <4> QED BY <2>4, <4>1, <4>2 DEF WriteAttempts, BusGoto
    <3>2. busThread[t].tries \in Nat /\ "requeue" \in Calling
      BY <1>1, CallingIs DEF Calling
    <3> QED BY <2>2, <3>1, <3>2
  <2>5. CASE DeliveryReturns(t) \/ Requeue(t) \/ (WriteAttempts(t) /\ ~RetriesLeft(t))
    BY <2>1, <2>5 DEF DeliveryReturns, Requeue, WriteAttempts
  <2> QED BY <2>3, <2>4, <2>5
<1>7. \A u \in Threads : Lesser(u)
  BY <1>6 DEF Becomes, Lesser
<1> QED BY <1>2, <1>5, <1>7, LesserOrder

LEMMA PublishOrder ==
  ASSUME BusTyped, OrderInv, NEW e \in Events, NEW d \in Devices, Publish(e, d)
  PROVE  OrderInv'
<1>0. /\ Known /\ Numbered /\ HeadsDelivered /\ PublisherFirst /\ OneDelivers
      /\ SnapshotsSorted /\ DeliveredFirst /\ TakenFirst /\ FirstDeliveriesInOrder
  BY DEF OrderInv
<1>1. PICK p \in Threads : p = "publisher"
  BY DEF Threads
<1>2. PICK k \in Nat : k = perDevice[d]
  BY DEF BusTyped, BusTypeOK
<1>3. /\ e \notin seen /\ seen' = seen \cup {e}
      /\ event' = [event EXCEPT ![e] = [device |-> d, sequence |-> k + 1]]
      /\ perDevice' = [perDevice EXCEPT ![d] = k + 1]
      /\ UNCHANGED <<deterministic, order>>
  BY <1>2 DEF Publish, Duplicate, NextSequence, config
<1>4. /\ event'[e].device = d /\ event'[e].sequence = k + 1
      /\ \A f \in Events \ {e} : event'[f] = event[f]
      /\ perDevice'[d] = k + 1
      /\ \A x \in Devices \ {d} : perDevice'[x] = perDevice[x]
  BY <1>3 DEF BusTyped, BusTypeOK
<1>5. /\ seen \subseteq Events
      /\ \A f \in Events : event[f].sequence \in Nat
      /\ \A x \in Devices : perDevice[x] \in Nat
  BY DEF BusTyped, BusTypeOK
<1>6. \A u \in Threads \ {p} : busThread'[u] = busThread[u] /\ Batch(u)' = Batch(u)
  BY <1>1 DEF Publish, TakesOn, BusTyped, ThreadsTyped, Batch
<1>7. Range(queue') \subseteq Range(queue) \cup {e}
  BY NewInQueue DEF Publish
<1>8. \/ /\ busThread'[p] = busThread[p] /\ Batch(p)' = Batch(p) /\ together' = together
         /\ deterministic => queue' = queue
      \/ /\ deterministic /\ Batch(p) = <<>> /\ Batch(p)' = <<e>>
         /\ busThread'[p].at = "deliver"
         /\ ~together' => ~together /\ \A u \in Threads \ {p} : Batch(u) = <<>>
  <2>1. CASE Refused \/ ~deterministic
    BY <2>1 DEF Publish, Batch
  <2>2. CASE ~Refused /\ deterministic
    <3> DEFINE b == <<e>>
    <3>1. TakesOn(p, b) /\ busThread[p].at = "off"
      BY <1>1, <2>2 DEF Publish, At
    <3>2. b = Append(<<>>, e) /\ <<>> \in Seq(Events)
      BY EmptySeq
    <3>3. b \in Seq(Events) /\ b # <<>>
      BY <3>2, AppendProperties
    <3> HIDE DEF b
    <3>4. busThread[p].at \notin Delivering
      BY <3>1 DEF Delivering, Calling
    <3>5. PICK n : /\ Becomes(p, n) /\ n.at = "deliver" /\ n.batch = b
                   /\ busThread[p].batch = <<>>
      BY <3>1, <3>3, <3>4, TakesOnIs
    <3>6. ~together' => ~together /\ \A u \in Threads \ {p} : Batch(u) = <<>>
      BY <3>1, <3>3, <3>4, TakesOnIs DEF Batch
    <3> QED BY <2>2, <3>5, <3>6 DEF Becomes, Batch, b
  <2> QED BY <2>1, <2>2
<1>9. ASSUME NEW u \in Threads
      PROVE  /\ Range(Batch(u)') \subseteq Range(Batch(u)) \cup {e}
             /\ Range(Batch(u)) \subseteq seen
             /\ busThread'[u].at \in Calling =>
                  busThread[u].at \in Calling /\ Batch(u)' = Batch(u)
             /\ \/ Batch(u)' = Batch(u)
                \/ Batch(u)' = <<e>>
  <2>1. Range(<<e>>) = {e}
    BY DEF Range
  <2> QED BY <1>0, <1>6, <1>8, <2>1 DEF Known, Calling
<1>10. Range(queue) \subseteq seen /\ Range(order) \subseteq seen /\ e \notin Range(order)
  BY <1>0, <1>3 DEF Known
<1>11. Undelivered' \subseteq Undelivered \cup {e}
  BY <1>3, <1>7, <1>9 DEF Undelivered
<1>12. Undelivered \subseteq seen
  BY <1>0 DEF Known, Undelivered
<1>13. ASSUME NEW f \in seen, NEW g \in seen PROVE NotAfter(f, g)' <=> NotAfter(f, g)
  BY <1>3, <1>4, <1>5 DEF NotAfter
<1>14. ASSUME NEW f \in seen PROVE NotAfter(f, e)'
  <2>1. event'[f] = event[f] /\ event[f].sequence <= perDevice[event[f].device]
    BY <1>0, <1>3, <1>4, <1>5 DEF Numbered
  <2>2. event[f].device = d => event[f].sequence <= k
    BY <1>2, <2>1
  <2>3. event[f].sequence \in Nat
    BY <1>5
  <2>4. event[f].device = d => event[f].sequence <= k + 1
    BY <2>2, <2>3
  <2> QED BY <1>4, <2>1, <2>4 DEF NotAfter
<1>15. NotAfter(e, e)'
  BY <1>4 DEF NotAfter
<1>16. Known'
  BY <1>3, <1>7, <1>9, <1>10 DEF Known
<1>17. Numbered'
  <2>1. ASSUME NEW f \in seen
        PROVE  /\ event'[f] = event[f] /\ event[f].device \in Devices
               /\ event[f].sequence \in Nat
               /\ event[f].sequence <= perDevice'[event[f].device]
               /\ event[f].device = d => event[f].sequence # k + 1
    <3>1. event[f].device \in Devices /\ event[f].sequence <= perDevice[event[f].device]
      BY <1>0 DEF Numbered
    <3>2. event'[f] = event[f] /\ event[f].sequence \in Nat
      BY <1>3, <1>4, <1>5
    <3>3. CASE event[f].device = d
      BY <1>2, <1>4, <3>1, <3>2, <3>3
    <3>4. CASE event[f].device # d
      BY <1>4, <3>1, <3>2, <3>4
    <3> QED BY <3>3, <3>4
  <2>2. ASSUME NEW f \in seen', NEW g \in seen',
               event'[f].device = event'[g].device, event'[f].sequence = event'[g].sequence
        PROVE  f = g
    <3>1. CASE f \in seen /\ g \in seen
      BY <1>0, <2>1, <2>2, <3>1 DEF Numbered
    <3>2. CASE f = e /\ g \in seen
      BY <1>4, <2>1, <2>2, <3>2
    <3>3. CASE f \in seen /\ g = e
      BY <1>4, <2>1, <2>2, <3>3
    <3> QED BY <1>3, <3>1, <3>2, <3>3
  <2>3. ASSUME NEW f \in seen'
        PROVE  event'[f].device \in Devices /\ event'[f].sequence <= perDevice'[event'[f].device]
    <3>1. CASE f \in seen
      BY <2>1, <3>1
    <3>2. CASE f = e
      BY <1>4, <3>2
    <3> QED BY <1>3, <3>1, <3>2
  <2> QED BY <2>2, <2>3 DEF Numbered
<1>18. HeadsDelivered'
  BY <1>0, <1>3, <1>9 DEF HeadsDelivered
<1>19. PublisherFirst'
  <2> SUFFICES ASSUME deterministic PROVE Undelivered' \subseteq Range(Batch(p)')
    BY <1>1, <1>3 DEF PublisherFirst
  <2>1. Undelivered \subseteq Range(Batch(p))
    BY <1>0, <1>1 DEF PublisherFirst
  <2>2. CASE busThread'[p] = busThread[p] /\ queue' = queue
    <3>1. \A u \in Threads : Batch(u)' = Batch(u)
      BY <1>6, <2>2 DEF Batch
    <3>2. Undelivered' = Undelivered
      BY <1>3, <2>2, <3>1 DEF Undelivered
    <3> QED BY <2>1, <3>1, <3>2
  <2>3. CASE Batch(p) = <<>> /\ Batch(p)' = <<e>>
    <3>1. Range(Batch(p)) = {} /\ e \in Range(Batch(p)')
      BY <2>3, RangeEmpty DEF Range
    <3> QED BY <1>11, <2>1, <3>1
  <2> QED BY <1>8, <2>2, <2>3
<1>20. OneDelivers'
  BY <1>0, <1>6, <1>8 DEF OneDelivers
<1>21. SnapshotsSorted'
  <2> SUFFICES ASSUME NEW u \in Threads PROVE InOrder(Batch(u))'
    BY DEF SnapshotsSorted
  <2>1. CASE Batch(u)' = Batch(u)
    <3>1. InOrder(Batch(u)) /\ \A i \in DOMAIN Batch(u) : Batch(u)[i] \in seen
      BY <1>0, <1>9 DEF SnapshotsSorted, Range
    <3>2. \A i \in DOMAIN Batch(u) : event'[Batch(u)[i]] = event[Batch(u)[i]]
      BY <1>3, <1>4, <1>5, <3>1
    <3> QED BY <2>1, <3>1, <3>2 DEF InOrder, Earlier
  <2>2. CASE Batch(u)' = <<e>>
    <3>1. InOrder(<<e>>)'
      BY DEF InOrder
    <3> QED BY <2>2, <3>1 DEF InOrder
  <2> QED BY <1>9, <2>1, <2>2
<1>23. DeliveredFirst'
  BY <1>0, <1>3, <1>8, <1>10, <1>11, <1>12, <1>13, <1>14 DEF DeliveredFirst
<1>24. TakenFirst'
  <2> SUFFICES ASSUME ~together', NEW u \in Threads,
                      NEW f \in Range(Batch(u)') \ Range(order),
                      NEW g \in Range(queue') \ Range(order)
               PROVE  NotAfter(f, g)'
    BY <1>3 DEF TakenFirst
  <2>1. CASE Batch(u)' = Batch(u)
    <3>1. f \in Range(Batch(u)) /\ f \in seen
      BY <1>9, <2>1
    <3>2. CASE g \in Range(queue)
      <4>1. g \in seen /\ NotAfter(f, g)
        BY <1>0, <1>8, <1>10, <3>1, <3>2 DEF TakenFirst
      <4> QED BY <1>13, <3>1, <4>1
    <3> QED BY <1>7, <1>14, <3>1, <3>2
  <2>2. CASE u = p /\ deterministic /\ Batch(p) = <<>> /\ Batch(p)' = <<e>>
    <3>1. Range(Batch(p)) = {} /\ Range(Batch(p)') = {e}
      BY <2>2, RangeEmpty DEF Range
    <3>2. Range(queue) \subseteq Range(order)
      BY <1>0, <1>1, <2>2, <3>1 DEF PublisherFirst, Undelivered
    <3> QED BY <1>7, <1>15, <2>2, <3>1, <3>2
  <2> QED BY <1>6, <1>8, <2>1, <2>2
<1>25. FirstDeliveriesInOrder'
  <2>1. \A i \in DOMAIN order : event'[order[i]] = event[order[i]]
    BY <1>3, <1>4, <1>5, <1>10 DEF Range
  <2> QED BY <1>0, <1>3, <1>8, <2>1 DEF FirstDeliveriesInOrder
<1> QED BY <1>16, <1>17, <1>18, <1>19, <1>20, <1>21, <1>23, <1>24, <1>25 DEF OrderInv

LEMMA LifecycleOrder ==
  ASSUME BusTyped, OrderInv,
         \/ \E w \in BusWorkers : LoopTop(w) \/ Wait(w) \/ CoordinatorStart(w)
         \/ Join \/ \E drain \in BOOLEAN : CoordinatorStop(drain)
  PROVE  OrderInv'
<1>0. /\ BusWorkers \subseteq Threads /\ "control" \in Threads
      /\ "publisher" \notin BusWorkers
      /\ {"off", "top", "wait", "take", "join"} \cap Delivering = {}
  BY BusAssumption DEF BusAssumption, Threads, Delivering, Calling
<1>1. UNCHANGED <<deterministic, published, order, together, queue>>
  BY DEF LoopTop, Wait, CoordinatorStart, StartBus, Join, CoordinatorStop, StopBus, config,
     busHistory
<1>2. ASSUME NEW w \in BusWorkers, LoopTop(w) PROVE OrderInv'
  BY <1>0, <1>1, <1>2, GotoOrder DEF LoopTop, At
<1>3. ASSUME NEW w \in BusWorkers, Wait(w) PROVE OrderInv'
  BY <1>0, <1>1, <1>3, GotoOrder DEF Wait, At
<1>4. ASSUME NEW w \in BusWorkers, CoordinatorStart(w) PROVE OrderInv'
  BY <1>0, <1>1, <1>4, GotoOrder DEF CoordinatorStart, StartBus, At
<1>5. ASSUME Join PROVE OrderInv'
  BY <1>0, <1>1, <1>5, GotoOrder DEF Join, At
<1>6. ASSUME NEW drain \in BOOLEAN, CoordinatorStop(drain) PROVE OrderInv'
  BY <1>0, <1>1, <1>6, GotoOrder DEF CoordinatorStop, LockFree, StopBus, At
<1> QED BY <1>2, <1>3, <1>4, <1>5, <1>6

LEMMA BusStepOrder == BusTyped /\ OrderInv /\ [BusNext]_busVars => OrderInv'
<1> SUFFICES ASSUME BusTyped, OrderInv, [BusNext]_busVars PROVE OrderInv'
  OBVIOUS
<1>1. ASSUME UNCHANGED <<deterministic, published, order, together, queue, busThread>>
      PROVE  OrderInv'
  <2>1. \A u \in Threads : Lesser(u)
    BY <1>1 DEF Lesser
  <2> QED BY <1>1, <2>1, LesserOrder
<1>2. ASSUME NEW h \in Handlers, RegisterHandler(h) \/ UnregisterHandler(h) PROVE OrderInv'
  BY <1>1, <1>2 DEF RegisterHandler, UnregisterHandler, config, busHistory
<1>3. ASSUME NEW e \in Events, NEW d \in Devices, Publish(e, d) PROVE OrderInv'
  BY <1>3, PublishOrder
<1>4. ASSUME NEW t \in Threads, ThreadStep(t) PROVE OrderInv'
  <2>1. CASE Take(t)
    BY <2>1, TakeOrder
  <2>2. CASE Deliver(t)
    BY <2>2, DeliverOrder
  <2>3. CASE DeliveryReturns(t) \/ DeliveryFails(t) \/ WriteAttempts(t) \/ Requeue(t)
    BY <2>3, CallOrder
  <2>4. CASE (t \in BusWorkers /\ (LoopTop(t) \/ Wait(t))) \/ (t = "control" /\ Join)
    BY <2>4, LifecycleOrder
  <2> QED BY <1>4, <2>1, <2>2, <2>3, <2>4 DEF ThreadStep, DeliveryStep
<1>5. ASSUME NEW w \in BusWorkers, CoordinatorStart(w) PROVE OrderInv'
  BY <1>5, LifecycleOrder
<1>6. ASSUME NEW drain \in BOOLEAN, CoordinatorStop(drain) PROVE OrderInv'
  BY <1>6, LifecycleOrder
<1>7. CASE UNCHANGED busVars
  BY <1>1, <1>7 DEF busVars, config, busHistory
<1> QED BY <1>2, <1>3, <1>4, <1>5, <1>6, <1>7 DEF BusNext

\* As long as no two threads deliver at once, the events of a device are first
\* delivered in the order of their numbers: a snapshot is sorted, and what is still in
\* the queue, or comes back to it, has a greater number or was delivered before.
THEOREM OrderTheorem == BusSpec => []FirstDeliveriesInOrder
<1>1. BusInit => BusTyped /\ OrderInv
  BY BusInitTyped, BusInitOrder
<1>2. BusTyped /\ OrderInv /\ [BusNext]_busVars => (BusTyped /\ OrderInv)'
  BY BusStepBooks, BusStepOrder DEF BooksKept
<1>3. OrderInv => FirstDeliveriesInOrder
  BY DEF OrderInv
<1> QED BY <1>1, <1>2, <1>3, PTL DEF BusSpec

-----------------------------------------------------------------------------
\* The number of copies made of an event.
\* One more copy of an event has room in the bound.
MoreIsDue(t) ==
  LET e == Head(Batch(t)) IN
  /\ busThread[t].at = "failed" => busThread[t].tries = retryCounts[e]
  /\ busThread[t].at = "requeue" => made[e] < Planned + retryCounts[e]

MadeInv ==
  /\ \A e \in Events \ seen : made[e] = 0
  /\ \A e \in Events \ failed : made[e] <= Planned
  /\ \A e \in Events : retryCounts[e] <= MaxBusRetries
  /\ \A t \in Threads : busThread[t].at \in {"failed", "requeue"} => Head(Batch(t)) \in failed
  /\ ~together =>
       /\ \A e \in Events : made[e] <= Planned + retryCounts[e]
       /\ \A t \in Threads : MoreIsDue(t)

\* What is made of an event is all that is delivered of it.
LEMMA NoMoreThanMade ==
  ASSUME BusTyped, NEW e \in Events, Accounted(e)
  PROVE  rounds[e] <= made[e]
<1>1. IsFiniteSet(Threads)
  BY ThreadsFinite
<1>2. PICK A : A = [u \in Threads |-> Copies(e, Pending(u))]
  OBVIOUS
<1>3. \A u \in Threads : IsFiniteSet(A[u])
  BY <1>2, PendingIs, CopiesFinite DEF BusTyped
<1>4. InHand(e) = Pairs(Threads, A)
  BY <1>2 DEF InHand, Pairs
<1>5. Cardinality(InHand(e)) \in Nat
  BY <1>1, <1>3, <1>4, PairsFinite, FS_CardinalityType
<1>6. Cardinality(Copies(e, queue)) \in Nat
  BY CopiesFinite DEF BusTyped, BusTypeOK, Count
<1>7. /\ made[e] \in Nat /\ rounds[e] \in Nat /\ lost[e] \in Nat
      /\ made[e] = rounds[e] + lost[e]
                     + (Cardinality(Copies(e, queue)) + Cardinality(InHand(e)))
  BY DEF BusTyped, BusTypeOK, Accounted, Outstanding
<1> QED BY <1>5, <1>6, <1>7

LEMMA BusInitMade == BusInit => MadeInv
<1> SUFFICES ASSUME BusInit PROVE MadeInv
  OBVIOUS
<1>1. /\ \A e \in Events : made[e] = 0 /\ retryCounts[e] = 0
      /\ \A t \in Threads : busThread[t].at = "off"
  BY DEF BusInit, BusOff
<1>2. Planned \in Nat /\ MaxBusRetries \in Nat
  BY BusAssumption DEF BusAssumption, Planned
<1> QED BY <1>1, <1>2 DEF MadeInv, MoreIsDue

\* A step that makes no copy and no thread fail.
LEMMA QuietMade ==
  ASSUME MadeInv, UNCHANGED <<deterministic, seen, made, retryCounts, failed>>,
         ~together' => ~together,
         \A u \in Threads :
           busThread'[u] = busThread[u] \/ busThread'[u].at \notin {"failed", "requeue"}
  PROVE  MadeInv'
<1>1. Planned' = Planned
  BY DEF Planned
<1>2. \A t \in Threads : busThread'[t].at \in {"failed", "requeue"} =>
        busThread'[t] = busThread[t] /\ Head(Batch(t)') = Head(Batch(t))
  BY DEF Batch
<1>3. ASSUME ~together, NEW t \in Threads PROVE MoreIsDue(t)'
  BY <1>1, <1>2, <1>3 DEF MadeInv, MoreIsDue
<1>4. \A t \in Threads : busThread'[t].at \in {"failed", "requeue"} => Head(Batch(t)') \in failed
  BY <1>2 DEF MadeInv
<1> QED BY <1>1, <1>3, <1>4 DEF MadeInv

LEMMA PublishMade ==
  ASSUME BusTyped, OrderInv, MadeInv, NEW e \in Events, NEW d \in Devices, Publish(e, d)
  PROVE  MadeInv'
<1>1. /\ e \notin seen /\ seen' = seen \cup {e}
      /\ UNCHANGED <<deterministic, retryCounts, failed>>
  BY DEF Publish, Duplicate, config
<1>2. made[e] = 0
  BY <1>1 DEF MadeInv
<1>3. made \in [Events -> Nat] /\ retryCounts \in [Events -> Nat] /\ Planned \in Nat
  BY DEF BusTyped, BusTypeOK, Planned
<1>4. /\ \A f \in Events \ {e} : made'[f] = made[f]
      /\ made'[e] \in Nat /\ made'[e] <= Planned
  <2>1. CASE Refused
    <3>1. made' = made
      BY <2>1 DEF Publish
    <3> QED BY <1>2, <1>3, <3>1
  <2>2. CASE ~Refused
    <3>1. made' = [made EXCEPT ![e] = @ + IF deterministic THEN 2 ELSE 1]
      BY <2>2 DEF Publish
    <3>2. made'[e] = IF deterministic THEN 2 ELSE 1
      BY <1>2, <1>3, <3>1
    <3> QED BY <1>3, <3>1, <3>2 DEF Planned
  <2> QED BY <2>1, <2>2
<1>5. Planned' = Planned
  BY <1>1 DEF Planned
<1>6. /\ ~together' => ~together
      /\ \A u \in Threads :
           busThread'[u] = busThread[u] \/ busThread'[u].at \notin {"failed", "requeue"}
  <2>1. /\ busThread' = busThread /\ together' = together
        \/ \E b : TakesOn("publisher", b)
    BY DEF Publish
  <2>2. busThread \in [Threads -> Thread] /\ together \in BOOLEAN
    BY DEF BusTyped, ThreadsTyped, BusTypeOK
  <2>3. CASE \E b : TakesOn("publisher", b)
    <3>1. PICK b : TakesOn("publisher", b)
      BY <2>3
    <3>2. ~together' => ~together
      BY <2>2, <3>1 DEF TakesOn
    <3>3. ASSUME NEW u \in Threads
          PROVE  busThread'[u] = busThread[u] \/ busThread'[u].at \notin {"failed", "requeue"}
      <4>1. CASE u = "publisher"
        BY <2>2, <3>1, <4>1 DEF TakesOn, Thread
      <4>2. CASE u # "publisher"
        BY <2>2, <3>1, <4>2 DEF TakesOn
      <4> QED BY <4>1, <4>2
    <3> QED BY <3>2, <3>3
  <2> QED BY <2>1, <2>3
<1>7. ASSUME NEW u \in Threads, busThread'[u].at \in {"failed", "requeue"}
      PROVE  /\ busThread'[u] = busThread[u] /\ Head(Batch(u)') = Head(Batch(u))
             /\ Head(Batch(u)) \in Events \ {e}
  <2>1. busThread'[u] = busThread[u]
    BY <1>6, <1>7
  <2>2. Batch(u) \in Seq(Events) /\ Batch(u) # <<>> /\ Head(Batch(u)) \in Events
    BY <1>7, <2>1, CallingIs DEF Batch, Calling
  <2>3. Head(Batch(u)) \in seen
    BY <2>2, RangeTail DEF OrderInv, Known
  <2> QED BY <1>1, <2>1, <2>2, <2>3 DEF Batch
<1>8. \A f \in Events \ seen' : made'[f] = 0
  BY <1>1, <1>4 DEF MadeInv
<1>9. \A f \in Events \ failed' : made'[f] <= Planned'
  BY <1>1, <1>4, <1>5 DEF MadeInv
<1>10. (\A f \in Events : retryCounts[f] <= MaxBusRetries)'
  BY <1>1 DEF MadeInv
<1>11. \A u \in Threads :
         busThread'[u].at \in {"failed", "requeue"} => Head(Batch(u)') \in failed'
  BY <1>1, <1>7 DEF MadeInv
<1>12. ASSUME ~together', NEW f \in Events PROVE made'[f] <= Planned' + retryCounts'[f]
  <2>1. CASE f = e
    <3>1. retryCounts[e] \in Nat
      BY <1>3
    <3> QED BY <1>1, <1>3, <1>4, <1>5, <2>1, <3>1
  <2>2. CASE f # e
    BY <1>1, <1>4, <1>5, <1>6, <1>12, <2>2 DEF MadeInv
  <2> QED BY <2>1, <2>2
<1>13. ASSUME ~together', NEW u \in Threads PROVE MoreIsDue(u)'
  <2>1. MoreIsDue(u)
    BY <1>6, <1>13 DEF MadeInv
  <2>2. CASE busThread'[u].at \in {"failed", "requeue"}
    <3>1. made'[Head(Batch(u))] = made[Head(Batch(u))]
      BY <1>4, <1>7, <2>2
    <3> QED BY <1>1, <1>5, <1>7, <2>1, <2>2, <3>1 DEF MoreIsDue
  <2>3. CASE busThread'[u].at \notin {"failed", "requeue"}
    BY <2>3 DEF MoreIsDue
  <2> QED BY <2>2, <2>3
<1> QED BY <1>8, <1>9, <1>10, <1>11, <1>12, <1>13 DEF MadeInv

LEMMA CallMade ==
  ASSUME BusTyped, OrderInv, MadeInv, NEW t \in Threads,
         DeliveryReturns(t) \/ DeliveryFails(t) \/ WriteAttempts(t) \/ Requeue(t)
  PROVE  MadeInv'
<1>1. busThread[t].at \in Calling
  BY DEF DeliveryReturns, DeliveryFails, WriteAttempts, Requeue, At, Calling
<1>2. UNCHANGED <<deterministic, seen, together>>
  BY DEF DeliveryReturns, DeliveryFails, WriteAttempts, Requeue, config, published, busHistory
<1>3. PICK e \in Events : e = Head(Batch(t))
  BY <1>1, CallingIs DEF Batch
<1>4. Batch(t) # <<>> /\ e \in seen
  <2>1. Batch(t) \in Seq(Events) /\ Batch(t) # <<>>
    BY <1>1, CallingIs DEF Batch
  <2>2. e \in Range(Batch(t))
    BY <1>3, <2>1, RangeTail
  <2> QED BY <2>1, <2>2 DEF OrderInv, Known
<1>5. /\ made \in [Events -> Nat] /\ retryCounts \in [Events -> Nat]
      /\ Planned \in Nat /\ MaxBusRetries \in Nat /\ Planned' = Planned
      /\ busThread \in [Threads -> Thread] /\ busThread[t].tries \in Nat
  BY <1>1, <1>2, CallingIs, BusAssumption
     DEF BusTyped, BusTypeOK, ThreadsTyped, Planned, BusAssumption
<1>6. ASSUME busThread' = [busThread EXCEPT ![t] = NextHandler(t)]
      PROVE  /\ busThread'[t].at \notin {"failed", "requeue"}
             /\ \A u \in Threads \ {t} : busThread'[u] = busThread[u]
  BY <1>1, <1>6, OnwardIs DEF Becomes
<1>7. ASSUME ~together, NEW u \in Threads \ {t} PROVE busThread[u].at \notin Calling
  BY <1>4, <1>7, CallingIs DEF OrderInv, OneDelivers, Batch
<1>8. CASE DeliveryReturns(t)
  BY <1>2, <1>6, <1>8, QuietMade DEF DeliveryReturns, busHistory
<1>9. CASE DeliveryFails(t)
  <2>1. /\ busThread' = [busThread EXCEPT ![t].at = "failed", ![t].tries = retryCounts[e]]
        /\ failed' = failed \cup {e} /\ UNCHANGED <<made, retryCounts>>
    BY <1>3, <1>9 DEF DeliveryFails, Batch
  <2>2. /\ busThread'[t].at = "failed" /\ busThread'[t].tries = retryCounts[e]
        /\ Batch(t)' = Batch(t)
        /\ \A u \in Threads \ {t} : busThread'[u] = busThread[u] /\ Batch(u)' = Batch(u)
    BY <1>5, <2>1 DEF Thread, Batch
  <2>3. \A u \in Threads :
          busThread'[u].at \in {"failed", "requeue"} => Head(Batch(u)') \in failed'
    BY <1>3, <2>1, <2>2 DEF MadeInv
  <2>4. ASSUME ~together, NEW u \in Threads PROVE MoreIsDue(u)'
    <3>1. CASE u = t
      BY <1>3, <2>1, <2>2, <3>1 DEF MoreIsDue
    <3>2. CASE u # t
      BY <1>5, <2>1, <2>2, <2>4, <3>2 DEF MadeInv, MoreIsDue
    <3> QED BY <3>1, <3>2
  <2> QED BY <1>2, <1>5, <2>1, <2>3, <2>4 DEF MadeInv
<1>10. CASE WriteAttempts(t) /\ RetriesLeft(t)
  <2>1. PICK k \in Nat : k = busThread[t].tries
    BY <1>5
  <2>2. /\ k < MaxBusRetries /\ busThread[t].at = "failed"
        /\ retryCounts' = [retryCounts EXCEPT ![e] = k + 1]
        /\ busThread' = [busThread EXCEPT ![t].at = "requeue"]
        /\ UNCHANGED <<made, failed>>
    BY <1>3, <1>10, <2>1 DEF WriteAttempts, RetriesLeft, BusGoto, At, busHistory, Batch
  <2>3. /\ busThread'[t].at = "requeue" /\ Batch(t)' = Batch(t)
        /\ \A u \in Threads \ {t} : busThread'[u] = busThread[u] /\ Batch(u)' = Batch(u)
    BY <1>5, <2>2 DEF Thread, Batch
  <2>4. retryCounts'[e] = k + 1 /\ \A f \in Events \ {e} : retryCounts'[f] = retryCounts[f]
    BY <1>5, <2>2
  <2>5. ASSUME NEW f \in Events PROVE retryCounts'[f] <= MaxBusRetries
    <3>1. k + 1 <= MaxBusRetries
      BY <1>5, <2>2
    <3> QED BY <2>4, <3>1 DEF MadeInv
  <2>6. \A u \in Threads :
          busThread'[u].at \in {"failed", "requeue"} => Head(Batch(u)') \in failed'
    BY <2>2, <2>3 DEF MadeInv
  <2>7. ~together => made[e] <= Planned + k /\ k = retryCounts[e]
    BY <1>3, <2>1, <2>2 DEF MadeInv, MoreIsDue
  <2>8. ~together => made[e] < Planned + (k + 1)
    BY <1>5, <2>7
  <2>9. ASSUME ~together, NEW f \in Events PROVE made[f] <= Planned + retryCounts'[f]
    <3>1. CASE f = e
      BY <1>5, <2>4, <2>8, <2>9, <3>1
    <3>2. CASE f # e
      BY <2>4, <2>9, <3>2 DEF MadeInv
    <3> QED BY <3>1, <3>2
  <2>10. ASSUME ~together, NEW u \in Threads PROVE MoreIsDue(u)'
    <3>1. CASE u = t
      BY <1>3, <1>5, <2>2, <2>3, <2>4, <2>8, <2>10, <3>1 DEF MoreIsDue
    <3>2. CASE u # t
      BY <1>7, <2>3, <2>10, <3>2 DEF MoreIsDue, Calling
    <3> QED BY <3>1, <3>2
  <2> QED BY <1>2, <1>5, <2>2, <2>5, <2>6, <2>9, <2>10 DEF MadeInv
<1>11. CASE WriteAttempts(t) /\ ~RetriesLeft(t)
  BY <1>2, <1>6, <1>11, QuietMade DEF WriteAttempts, busHistory
<1>12. CASE Requeue(t) /\ Refused
  BY <1>2, <1>6, <1>12, QuietMade DEF Requeue
<1>13. CASE Requeue(t) /\ ~Refused
  <2>1. /\ made' = [made EXCEPT ![e] = @ + 1] /\ busThread[t].at = "requeue"
        /\ busThread' = [busThread EXCEPT ![t] = NextHandler(t)]
        /\ UNCHANGED <<retryCounts, failed>>
    BY <1>3, <1>13 DEF Requeue, At, Batch
  <2>2. made'[e] = made[e] + 1 /\ \A f \in Events \ {e} : made'[f] = made[f]
    BY <1>5, <2>1
  <2>3. e \in failed
    BY <1>3, <2>1 DEF MadeInv
  <2>4. \A f \in Events \ seen : made'[f] = 0
    BY <1>4, <2>2 DEF MadeInv
  <2>5. \A f \in Events \ failed : made'[f] <= Planned
    BY <2>2, <2>3 DEF MadeInv
  <2>6. \A u \in Threads :
          busThread'[u].at \in {"failed", "requeue"} => Head(Batch(u)') \in failed
    BY <1>6, <2>1 DEF MadeInv, Batch
  <2>7. ASSUME ~together, NEW f \in Events PROVE made'[f] <= Planned + retryCounts[f]
    <3>1. CASE f = e
      <4>1. made[e] < Planned + retryCounts[e]
        BY <1>3, <2>1, <2>7 DEF MadeInv, MoreIsDue
      <4>2. made[e] \in Nat /\ retryCounts[e] \in Nat
        BY <1>5
      <4> QED BY <1>5, <2>2, <3>1, <4>1, <4>2
    <3>2. CASE f # e
      BY <2>2, <2>7, <3>2 DEF MadeInv
    <3> QED BY <3>1, <3>2
  <2>8. ASSUME ~together, NEW u \in Threads PROVE MoreIsDue(u)'
    BY <1>6, <1>7, <2>1, <2>8 DEF MoreIsDue, Calling
  <2> QED BY <1>2, <1>5, <2>1, <2>4, <2>5, <2>6, <2>7, <2>8 DEF MadeInv
<1> QED BY <1>8, <1>9, <1>10, <1>11, <1>12, <1>13

LEMMA BusStepMade == BusTyped /\ OrderInv /\ MadeInv /\ [BusNext]_busVars => MadeInv'
<1> SUFFICES ASSUME BusTyped, OrderInv, MadeInv, [BusNext]_busVars PROVE MadeInv'
  OBVIOUS
<1>0. busThread \in [Threads -> Thread] /\ "control" \in Threads /\ BusWorkers \subseteq Threads
  BY DEF BusTyped, ThreadsTyped, Threads
<1>1. ASSUME UNCHANGED <<deterministic, seen, made, retryCounts, failed, together, busThread>>
      PROVE  MadeInv'
  BY <1>1, QuietMade
<1>2. ASSUME NEW t \in Threads, NEW place \in {"off", "top", "wait", "take", "join"},
             BusGoto(t, place),
             UNCHANGED <<deterministic, seen, made, retryCounts, failed, together>>
      PROVE  MadeInv'
  <2>1. \A u \in Threads :
          busThread'[u] = busThread[u] \/ busThread'[u].at \notin {"failed", "requeue"}
    BY <1>0, <1>2 DEF BusGoto, Thread
  <2> QED BY <1>2, <2>1, QuietMade
<1>3. ASSUME NEW h \in Handlers, RegisterHandler(h) \/ UnregisterHandler(h) PROVE MadeInv'
  BY <1>1, <1>3 DEF RegisterHandler, UnregisterHandler, config, published, busHistory
<1>4. ASSUME NEW e \in Events, NEW d \in Devices, Publish(e, d) PROVE MadeInv'
  BY <1>4, PublishMade
<1>5. ASSUME NEW t \in Threads, ThreadStep(t) PROVE MadeInv'
  <2>1. CASE Take(t)
    <3>1. UNCHANGED <<deterministic, seen, made, retryCounts, failed>>
      BY <2>1 DEF Take, config, published
    <3>2. CASE queue = <<>>
      <4>1. Home(t) \in {"off", "top", "wait", "take", "join"}
        BY HomeIs
      <4> QED BY <1>2, <2>1, <3>1, <3>2, <4>1 DEF Take
    <3>3. CASE queue # <<>>
      <4>1. PICK q : TakesOn(t, q)
        BY <2>1, <3>3 DEF Take
      <4>2. ~together' => ~together
        BY <4>1 DEF TakesOn, BusTyped, BusTypeOK
      <4>3. \A u \in Threads :
              busThread'[u] = busThread[u] \/ busThread'[u].at \notin {"failed", "requeue"}
        BY <1>0, <4>1 DEF TakesOn, Thread
      <4> QED BY <3>1, <4>2, <4>3, QuietMade
    <3> QED BY <3>2, <3>3
  <2>2. CASE Deliver(t)
    <3>1. UNCHANGED <<deterministic, seen, made, retryCounts, failed, together>>
      BY <2>2 DEF Deliver, config, published
    <3>2. PICK n : Becomes(t, n) /\ n.at \notin {"failed", "requeue"}
      BY <2>2, DeliverIs
    <3>3. \A u \in Threads :
            busThread'[u] = busThread[u] \/ busThread'[u].at \notin {"failed", "requeue"}
      BY <3>2 DEF Becomes
    <3> QED BY <3>1, <3>3, QuietMade
  <2>3. CASE DeliveryReturns(t) \/ DeliveryFails(t) \/ WriteAttempts(t) \/ Requeue(t)
    BY <2>3, CallMade
  <2>4. CASE t \in BusWorkers /\ LoopTop(t)
    BY <1>2, <2>4 DEF LoopTop, config, published, busHistory
  <2>5. CASE t \in BusWorkers /\ Wait(t)
    BY <1>2, <2>5 DEF Wait, config, published, busHistory
  <2>6. CASE t = "control" /\ Join
    BY <1>2, <2>6 DEF Join, config, published, busHistory
  <2> QED BY <1>5, <2>1, <2>2, <2>3, <2>4, <2>5, <2>6 DEF ThreadStep, DeliveryStep
<1>6. ASSUME NEW w \in BusWorkers, CoordinatorStart(w) PROVE MadeInv'
  BY <1>0, <1>2, <1>6 DEF CoordinatorStart, StartBus, config, published, busHistory
<1>7. ASSUME NEW drain \in BOOLEAN, CoordinatorStop(drain) PROVE MadeInv'
  BY <1>0, <1>2, <1>7 DEF CoordinatorStop, StopBus, config, published, busHistory
<1>8. CASE UNCHANGED busVars
  BY <1>1, <1>8 DEF busVars, config, published, busHistory
<1> QED BY <1>3, <1>4, <1>5, <1>6, <1>7, <1>8 DEF BusNext

\* How often an event can be delivered: the copies made of it bound the deliveries, and
\* there is one for each attempt that the retry count allows.  A single thread that
\* delivers writes back the attempts it has read; only a second one can make more
\* copies than attempts.
THEOREM DeliveriesTheorem == BusSpec => []DeliveriesAreBounded
<1> DEFINE Books == \A e \in Events : Accounted(e)
<1>1. BusInit => BusTyped /\ Books /\ OrderInv /\ MadeInv
  BY BusInitTyped, BusInitBooks, BusInitOrder, BusInitMade
<1>2. BusTyped /\ Books /\ OrderInv /\ MadeInv /\ [BusNext]_busVars
        => (BusTyped /\ Books /\ OrderInv /\ MadeInv)'
  BY BusStepBooks, BusStepOrder, BusStepMade DEF BooksKept
<1>3. BusTyped /\ Books /\ MadeInv => DeliveriesAreBounded
  <2> SUFFICES ASSUME BusTyped, Books, MadeInv, NEW e \in Events
               PROVE  /\ e \notin failed => rounds[e] <= Planned
                      /\ ~together => rounds[e] <= Planned + MaxBusRetries
    BY DEF DeliveriesAreBounded
  <2>1. rounds[e] <= made[e]
    BY NoMoreThanMade
  <2>2. /\ rounds[e] \in Nat /\ made[e] \in Nat /\ Planned \in Nat /\ MaxBusRetries \in Nat
        /\ retryCounts[e] \in Nat
    BY BusAssumption DEF BusTyped, BusTypeOK, Planned, BusAssumption
  <2>3. /\ e \notin failed => made[e] <= Planned
        /\ retryCounts[e] <= MaxBusRetries
        /\ ~together => made[e] <= Planned + retryCounts[e]
    BY DEF MadeInv
  <2> QED BY <2>1, <2>2, <2>3
<1> HIDE DEF Books
<1> QED BY <1>1, <1>2, <1>3, PTL DEF BusSpec

-----------------------------------------------------------------------------
(* What QueueDrains rests on: a snapshot comes to an end, and a bus that   *)
(* runs has a worker to take the next one.                                 *)

\* The places of one call, from the last to the first.
PlaceRank(place) ==
  CASE place = "call" -> 2 [] place = "failed" -> 1 [] place = "requeue" -> 0 [] OTHER -> 3

\* Fewer events, or the same event and fewer handlers, or the same handler and less of
\* its call to go; the handlers of an event are counted once it is begun.
NearerHome(t) ==
  LET old == busThread[t]
      new == busThread'[t] IN
  \/ Len(new.batch) < Len(old.batch)
  \/ /\ new.batch = old.batch /\ new.at # "deliver"
     /\ \/ old.at = "deliver"
        \/ Len(new.todo) < Len(old.todo)
        \/ new.todo = old.todo /\ PlaceRank(new.at) < PlaceRank(old.at)

AllShrink ==
  \A t \in Threads : busThread[t].batch # <<>> =>
    /\ busThread'[t] = busThread[t] \/ NearerHome(t)
    /\ ThreadStep(t) => NearerHome(t)

SnapshotsShrink == [][AllShrink]_busVars

RunningBusHasItsWorker ==
  LockFree /\ busWorker # "none" => ~stopping /\ ~At(busWorker, "off")

LEMMA ThreadIs ==
  ASSUME BusTyped, NEW t \in Threads
  PROVE  /\ busThread[t] \in Thread /\ WellPlaced(t, busThread[t])
         /\ busThread \in [Threads -> Thread]
         /\ busThread[t].batch \in Seq(Events) /\ busThread[t].todo \in Seq(Handlers)
BY DEF BusTyped, ThreadsTyped, Thread

LEMMA TailIsShorter ==
  ASSUME NEW S, NEW s \in Seq(S), s # <<>>
  PROVE  Len(Tail(s)) < Len(s)
<1>1. Len(Tail(s)) = Len(s) - 1 /\ Len(s) \in Nat
  BY HeadTailProperties, LenProperties
<1> QED BY <1>1

LEMMA NextEventNearer ==
  ASSUME BusTyped, NEW t \in Threads, busThread[t].batch # <<>>,
         busThread' = [busThread EXCEPT ![t] = NextEvent(t)]
  PROVE  NearerHome(t) /\ busThread'[t].at \in {"deliver", Home(t)}
<1>1. busThread'[t] = NextEvent(t)
  BY ThreadIs
<1>2. NextEvent(t).batch = Tail(busThread[t].batch)
  BY NextEventIs
<1>3. Len(Tail(busThread[t].batch)) < Len(busThread[t].batch)
  BY ThreadIs, TailIsShorter
<1>4. NextEvent(t).at \in {"deliver", Home(t)}
  BY DEF NextEvent
<1> QED BY <1>1, <1>2, <1>3, <1>4 DEF NearerHome

LEMMA NextHandlerNearer ==
  ASSUME BusTyped, NEW t \in Threads, busThread[t].at \in Calling,
         busThread' = [busThread EXCEPT ![t] = NextHandler(t)]
  PROVE  NearerHome(t) /\ busThread'[t].at \in {"call", "deliver", Home(t)}
<1> DEFINE old == busThread[t]
           rest == Tail(old.todo)
           n == [old EXCEPT !.at = "call", !.todo = rest, !.tries = 0]
<1>1. old \in Thread /\ old.batch # <<>> /\ old.todo # <<>> /\ old.todo \in Seq(Handlers)
  BY ThreadIs, CallingIs
<1>2. CASE Len(old.todo) = 1
  <2>1. NextHandler(t) = NextEvent(t)
    BY <1>2 DEF NextHandler
  <2> QED BY <1>1, <2>1, NextEventNearer
<1>3. CASE Len(old.todo) # 1
  <2>1. busThread'[t] = n
    BY <1>3, ThreadIs DEF NextHandler
  <2>2. rest \in Seq(Handlers) /\ Len(rest) < Len(old.todo)
    BY <1>1, TailIs, TailIsShorter
  <2> HIDE DEF rest
  <2>3. n.at = "call" /\ n.batch = old.batch /\ n.todo = rest
    BY <1>1 DEF Thread
  <2> HIDE DEF n
  <2> QED BY <2>1, <2>2, <2>3 DEF NearerHome
<1> QED BY <1>2, <1>3

\* A step of a thread that delivers brings it nearer to its way home.
LEMMA DeliveryNearer ==
  ASSUME BusTyped, NEW t \in Threads, DeliveryStep(t), busThread[t].batch # <<>>
  PROVE  NearerHome(t) /\ busThread'[t].at \in Delivering \cup {Home(t)}
<1> DEFINE old == busThread[t]
<1>0. /\ old \in Thread /\ WellPlaced(t, old) /\ busThread \in [Threads -> Thread]
      /\ old.at \in Delivering
  BY ThreadIs DEF WellPlaced
<1>1. ~Take(t)
  BY <1>0 DEF Take, At, Delivering, Calling
<1>2. CASE Deliver(t) /\ handlers = <<>>
  <2>1. busThread' = [busThread EXCEPT ![t] = NextEvent(t)]
    BY <1>2 DEF Deliver
  <2> QED BY <2>1, NextEventNearer DEF Delivering
<1>3. CASE Deliver(t) /\ handlers # <<>>
  <2> DEFINE n == [old EXCEPT !.at = "call", !.todo = handlers]
  <2>1. busThread'[t] = n /\ old.at = "deliver"
    BY <1>0, <1>3 DEF Deliver, At
  <2>2. n.at = "call" /\ n.batch = old.batch
    BY <1>0 DEF Thread
  <2> HIDE DEF n
  <2> QED BY <2>1, <2>2 DEF NearerHome, Delivering, Calling
<1>4. CASE \/ DeliveryReturns(t) \/ Requeue(t)
           \/ WriteAttempts(t) /\ ~RetriesLeft(t)
  <2>1. busThread' = [busThread EXCEPT ![t] = NextHandler(t)]
    BY <1>4 DEF DeliveryReturns, Requeue, WriteAttempts
  <2>2. old.at \in Calling
    BY <1>4 DEF DeliveryReturns, Requeue, WriteAttempts, At, Calling
  <2> QED BY <2>1, <2>2, NextHandlerNearer DEF Delivering, Calling
<1>5. CASE DeliveryFails(t)
  <2> DEFINE n == [old EXCEPT !.at = "failed", !.tries = retryCounts[Head(old.batch)]]
  <2>1. busThread'[t] = n /\ old.at = "call"
    BY <1>0, <1>5 DEF DeliveryFails, At
  <2>2. n.at = "failed" /\ n.batch = old.batch /\ n.todo = old.todo
    BY <1>0 DEF Thread
  <2> HIDE DEF n
  <2>3. PlaceRank("failed") < PlaceRank("call")
    BY DEF PlaceRank
  <2> QED BY <2>1, <2>2, <2>3 DEF NearerHome, Delivering, Calling
<1>6. CASE WriteAttempts(t) /\ RetriesLeft(t)
  <2> DEFINE n == [old EXCEPT !.at = "requeue"]
  <2>1. busThread'[t] = n /\ old.at = "failed"
    BY <1>0, <1>6 DEF WriteAttempts, BusGoto, At
  <2>2. n.at = "requeue" /\ n.batch = old.batch /\ n.todo = old.todo
    BY <1>0 DEF Thread
  <2> HIDE DEF n
  <2>3. PlaceRank("requeue") < PlaceRank("failed")
    BY DEF PlaceRank
  <2> QED BY <2>1, <2>2, <2>3 DEF NearerHome, Delivering, Calling
<1> QED BY <1>1, <1>2, <1>3, <1>4, <1>5, <1>6 DEF DeliveryStep

\* A thread with nothing in hand that steps does not go past its way home.
LEMMA TakeMoves ==
  ASSUME BusTyped, NEW t \in Threads, Take(t)
  PROVE  busThread'[t].at \in {"deliver", Home(t)}
<1>1. busThread \in [Threads -> Thread]
  BY ThreadIs
<1>2. CASE queue = <<>>
  <2>1. busThread' = [busThread EXCEPT ![t].at = Home(t)]
    BY <1>2 DEF Take, BusGoto
  <2> QED BY <1>1, <2>1 DEF Thread
<1>3. CASE queue # <<>>
  <2>1. PICK q : busThread' = [busThread EXCEPT ![t].batch = q, ![t].at = "deliver"]
    BY <1>3 DEF Take, TakesOn
  <2> QED BY <1>1, <2>1 DEF Thread
<1> QED BY <1>2, <1>3

LEMMA OthersStay ==
  ASSUME BusTyped, NEW t \in Threads, ThreadStep(t)
  PROVE  \A u \in Threads \ {t} : busThread'[u] = busThread[u]
<1>0. busThread \in [Threads -> Thread]
  BY ThreadIs
<1>1. CASE \E r : busThread' = [busThread EXCEPT ![t] = r]
  BY <1>0, <1>1
<1>2. CASE Take(t) /\ queue # <<>>
  BY <1>0, <1>2 DEF Take, TakesOn
<1>3. CASE \/ Take(t) /\ queue = <<>>
           \/ WriteAttempts(t) /\ RetriesLeft(t)
           \/ LoopTop(t) \/ Wait(t)
           \/ t = "control" /\ Join
  BY <1>0, <1>3 DEF Take, WriteAttempts, LoopTop, Wait, Join, BusGoto
<1>4. CASE Deliver(t) \/ DeliveryFails(t)
  BY <1>0, <1>4 DEF Deliver, DeliveryFails
<1>5. CASE \/ DeliveryReturns(t) \/ Requeue(t)
           \/ WriteAttempts(t) /\ ~RetriesLeft(t)
  BY <1>1, <1>5 DEF DeliveryReturns, Requeue, WriteAttempts
<1> QED BY <1>2, <1>3, <1>4, <1>5 DEF ThreadStep, DeliveryStep

\* Only the thread that publishes, starts, stops or ends a turn is elsewhere then.
LEMMA ShrinksOrStays ==
  ASSUME BusTyped, NEW t \in Threads, busThread[t].batch # <<>>, [BusNext]_busVars
  PROVE  /\ busThread'[t] = busThread[t] \/ NearerHome(t)
         /\ ThreadStep(t) => NearerHome(t)
<1>0. busThread[t].at \in Delivering /\ busThread \in [Threads -> Thread]
  BY ThreadIs DEF WellPlaced
<1>1. ThreadStep(t) => NearerHome(t)
  <2>1. ThreadStep(t) => DeliveryStep(t)
    BY <1>0 DEF ThreadStep, LoopTop, Wait, Join, At, Delivering, Calling
  <2> QED BY <2>1, DeliveryNearer
<1>2. ASSUME NEW u \in Threads, ThreadStep(u) PROVE busThread'[t] = busThread[t] \/ NearerHome(t)
  <2>1. CASE u = t
    BY <1>1, <1>2, <2>1
  <2>2. CASE u # t
    BY <1>2, <2>2, OthersStay
  <2> QED BY <2>1, <2>2
<1>3. ASSUME NEW e \in Events, NEW d \in Devices, Publish(e, d) PROVE busThread'[t] = busThread[t]
  <2>1. CASE ~Refused /\ deterministic
    <3>1. /\ busThread["publisher"].at = "off"
          /\ busThread' = [busThread EXCEPT !["publisher"].batch = <<e>>,
                                            !["publisher"].at = "deliver"]
      BY <1>3, <2>1 DEF Publish, TakesOn, At
    <3>2. t # "publisher"
      BY <1>0, <3>1 DEF Delivering, Calling
    <3> QED BY <1>0, <3>1, <3>2
  <2>2. CASE ~(~Refused /\ deterministic)
    BY <1>3, <2>2 DEF Publish
  <2> QED BY <2>1, <2>2
<1>4. ASSUME NEW w \in BusWorkers, CoordinatorStart(w) PROVE busThread'[t] = busThread[t]
  <2>1. t # w /\ busThread' = [busThread EXCEPT ![w].at = "top"]
    BY <1>0, <1>4 DEF CoordinatorStart, StartBus, BusGoto, At, Delivering, Calling
  <2> QED BY <1>0, <2>1
<1>5. ASSUME NEW drain \in BOOLEAN, CoordinatorStop(drain) PROVE busThread'[t] = busThread[t]
  <2>1. PICK place \in {"take", "join"} : busThread' = [busThread EXCEPT !["control"].at = place]
    BY <1>5 DEF CoordinatorStop, StopBus, BusGoto
  <2>2. t # "control"
    BY <1>0, <1>5 DEF CoordinatorStop, LockFree, At, Delivering, Calling
  <2> QED BY <1>0, <2>1, <2>2
<1>6. ASSUME NEW h \in Handlers, RegisterHandler(h) \/ UnregisterHandler(h)
      PROVE  busThread'[t] = busThread[t]
  BY <1>6 DEF RegisterHandler, UnregisterHandler
<1>7. UNCHANGED busVars => busThread'[t] = busThread[t]
  BY DEF busVars
<1>8. busThread'[t] = busThread[t] \/ NearerHome(t)
  <2>1. CASE BusNext
    BY <1>2, <1>3, <1>4, <1>5, <1>6, <2>1, Zenon DEF BusNext
  <2> QED BY <1>7, <2>1
<1> QED BY <1>1, <1>8

\* A thread that delivers comes nearer to its way home with each of its steps, and no
\* step of another takes it back: the retries go to the queue, the handlers of an event
\* are those of the moment it is begun, and what is published meanwhile waits for the
\* next snapshot (bus.py 195-266).  The measure is well-founded, so a snapshot ends.
THEOREM SnapshotsComeToAnEnd == BusSpec => SnapshotsShrink
<1>1. BusInit => BusTyped
  BY BusInitTyped
<1>2. BusTyped /\ [BusNext]_busVars => BusTyped'
  BY BusStepBooks DEF BooksKept
<1>3. BusTyped /\ [BusNext]_busVars => [AllShrink]_busVars
  BY ShrinksOrStays DEF AllShrink
<1> QED BY <1>1, <1>2, <1>3, PTL DEF BusSpec, SnapshotsShrink

-----------------------------------------------------------------------------
\* The worker of a bus that runs has been told to end only while a stop is under way, and
\* leaves its loop only if it was told to.
WorkerInv ==
  busWorker # "none" =>
    /\ stopping => ~LockFree
    /\ At(busWorker, "off") => stopping

\* A step that starts, stops and joins no worker, and ends the loop of none that is not
\* told to end.
LEMMA WorkerStays ==
  ASSUME BusTyped, WorkerInv, UNCHANGED lifecycle,
         busThread["control"].at # "off" => busThread'["control"].at # "off",
         \A w \in BusWorkers : busThread'[w].at = "off" => busThread[w].at = "off" \/ stopping
  PROVE  WorkerInv'
<1>1. busWorker' = busWorker /\ stopping' = stopping
  BY DEF lifecycle
<1>2. busWorker \in BusWorkers \cup {"none"}
  BY DEF BusTyped, BusTypeOK
<1> QED BY <1>1, <1>2 DEF WorkerInv, LockFree, At

LEMMA WorkerKept == BusTyped /\ WorkerInv /\ [BusNext]_busVars => WorkerInv'
<1> SUFFICES ASSUME BusTyped, WorkerInv, [BusNext]_busVars PROVE WorkerInv'
  OBVIOUS
<1>0. /\ busThread \in [Threads -> Thread] /\ busWorker \in BusWorkers \cup {"none"}
      /\ BusWorkers \subseteq Threads /\ "control" \in Threads \ BusWorkers
      /\ "publisher" \in Threads \ BusWorkers /\ "none" \notin {"control", "publisher"}
  BY BusAssumption DEF BusTyped, BusTypeOK, BusAssumption, Threads
<1>1. ASSUME NEW t \in Threads, DeliveryStep(t) PROVE WorkerInv'
  <2>1. UNCHANGED lifecycle
    BY <1>1
       DEF DeliveryStep, Take, Deliver, DeliveryReturns, DeliveryFails, WriteAttempts, Requeue
  <2>2. busThread'[t].at \in Delivering \cup {Home(t)}
    <3>1. CASE Take(t)
      BY <3>1, TakeMoves DEF Delivering
    <3>2. CASE ~Take(t)
      <4>1. busThread[t].at \in Delivering
        BY <1>1, <3>2
           DEF DeliveryStep, Deliver, DeliveryReturns, DeliveryFails, WriteAttempts, Requeue, At,
               Delivering, Calling
      <4>2. busThread[t].batch # <<>>
        BY <4>1, ThreadIs DEF WellPlaced
      <4> QED BY <1>1, <4>2, DeliveryNearer
    <3> QED BY <3>1, <3>2
  <2>3. t # "publisher" => busThread'[t].at # "off"
    BY <2>2, BusAssumption DEF Home, Threads, Delivering, Calling, BusAssumption
  <2>4. \A u \in Threads \ {t} : busThread'[u] = busThread[u]
    BY <1>1, OthersStay DEF ThreadStep
  <2> QED BY <1>0, <2>1, <2>3, <2>4, WorkerStays
<1>2. ASSUME NEW w \in BusWorkers, LoopTop(w) \/ Wait(w) PROVE WorkerInv'
  <2>1. UNCHANGED lifecycle
    BY <1>2 DEF LoopTop, Wait
  <2>2. PICK place \in {"off", "wait", "take"} :
          /\ busThread' = [busThread EXCEPT ![w].at = place]
          /\ place = "off" => stopping
    BY <1>2 DEF LoopTop, Wait, BusGoto, LoopEnds
  <2>3. /\ busThread'[w].at = place
        /\ \A u \in Threads \ {w} : busThread'[u] = busThread[u]
    BY <1>0, <2>2 DEF Thread
  <2> QED BY <1>0, <2>1, <2>2, <2>3, WorkerStays
<1>3. CASE Join
  <2>1. busWorker' = "none"
    BY <1>3 DEF Join
  <2> QED BY <2>1 DEF WorkerInv
<1>4. ASSUME NEW w \in BusWorkers, CoordinatorStart(w) PROVE WorkerInv'
  <2>1. busWorker' = w /\ stopping' = FALSE /\ busThread' = [busThread EXCEPT ![w].at = "top"]
    BY <1>4 DEF CoordinatorStart, StartBus, BusGoto
  <2>2. busThread'[w].at = "top"
    BY <1>0, <2>1 DEF Thread
  <2> QED BY <2>1, <2>2 DEF WorkerInv, At
<1>5. ASSUME NEW drain \in BOOLEAN, CoordinatorStop(drain) PROVE WorkerInv'
  <2>1. stopping' = TRUE
    BY <1>5 DEF CoordinatorStop, StopBus
  <2>2. PICK place \in {"take", "join"} : busThread' = [busThread EXCEPT !["control"].at = place]
    BY <1>5 DEF CoordinatorStop, StopBus, BusGoto
  <2>3. busThread'["control"].at = place
    BY <1>0, <2>2 DEF Thread
  <2> QED BY <2>1, <2>3 DEF WorkerInv, LockFree, At
<1>6. ASSUME NEW e \in Events, NEW d \in Devices, Publish(e, d) PROVE WorkerInv'
  <2>1. UNCHANGED lifecycle
    BY <1>6 DEF Publish
  <2>2. \A u \in Threads \ {"publisher"} : busThread'[u] = busThread[u]
    <3>1. CASE ~Refused /\ deterministic
      <4>1. busThread' = [busThread EXCEPT !["publisher"].batch = <<e>>,
                                            !["publisher"].at = "deliver"]
        BY <1>6, <3>1 DEF Publish, TakesOn
      <4> QED BY <1>0, <4>1
    <3>2. CASE ~(~Refused /\ deterministic)
      BY <1>6, <3>2 DEF Publish
    <3> QED BY <3>1, <3>2
  <2> QED BY <1>0, <2>1, <2>2, WorkerStays
<1>7. ASSUME NEW h \in Handlers, RegisterHandler(h) \/ UnregisterHandler(h) PROVE WorkerInv'
  <2>1. UNCHANGED <<lifecycle, busThread>>
    BY <1>7 DEF RegisterHandler, UnregisterHandler
  <2> QED BY <2>1, WorkerStays
<1>8. CASE UNCHANGED busVars
  BY <1>8, WorkerStays DEF busVars
<1>9. ASSUME NEW t \in Threads, ThreadStep(t) PROVE WorkerInv'
  BY <1>1, <1>2, <1>3, <1>9 DEF ThreadStep
<1>10. CASE BusNext
  BY <1>4, <1>5, <1>6, <1>7, <1>9, <1>10, Zenon DEF BusNext
<1> QED BY <1>8, <1>10

\* While no start or stop is under way, a bus that the coordinator holds for running has
\* a live worker that nobody told to end: a start takes back the word of the stop before
\* it, whose join may have given up on another worker (bus.py 268-297, coordinator.py
\* 136-148).
THEOREM RunningBusIsServed == BusSpec => []RunningBusHasItsWorker
<1>1. BusInit => BusTyped /\ WorkerInv
  BY BusInitTyped DEF BusInit, WorkerInv
<1>2. BusTyped /\ WorkerInv /\ [BusNext]_busVars => (BusTyped /\ WorkerInv)'
  BY BusStepBooks, WorkerKept DEF BooksKept
<1>3. WorkerInv => RunningBusHasItsWorker
  BY DEF WorkerInv, RunningBusHasItsWorker
<1> QED BY <1>1, <1>2, <1>3, PTL DEF BusSpec
=============================================================================
