-------------------------- MODULE Telemetry_proofs --------------------------
(*****************************************************************************)
(* Proofs about Telemetry, for any number of workers, operators and          *)
(* snapshots: a snapshot is stored once, a pause or a revocation lets one    *)
(* snapshot per worker through, and only a resume ends a pause.              *)
(*                                                                           *)
(* DuplicatesInv: of one policy, the alerts that stand open and the workers  *)
(*   about to insert another are together no more than the workers.          *)
(*****************************************************************************)
EXTENDS Telemetry, FiniteSetTheorems, SequenceTheorems, WellFoundedInduction, TLAPS

\* A worker's job is a record; what its fields hold matters only where a lemma
\* says so.
Job(T) == [at : T, seq : T, low : T, policy : T, alert : T]
JobShape == \E T : job \in [Workers -> Job(T)]

DataShape ==
  /\ trusted \in BOOLEAN
  /\ sent \in Seq(Snapshots) /\ Len(sent) <= MaxSeq
  /\ lastIn \in Nat
  /\ health \in [seq : Nat, paused : BOOLEAN]
  /\ stored \in [Numbers -> Nat]
  /\ late \in [Workers -> [paused : Nat, revoked : Nat]]

\* A worker that carries a snapshot, by how far it has got.
Carrying(w) == job[w].at \in {"pause", "advance", "store"}
PastPause(w) == job[w].at \in {"advance", "store"}

CarriesNumber == \A w \in Workers : Carrying(w) => job[w].seq \in Numbers

Shape == JobShape /\ DataShape /\ CarriesNumber

\* A number above the last one accepted is not stored; a worker about to store has
\* a number to itself, accepted and not stored.
Ownership ==
  /\ \A s \in Numbers : stored[s] <= 1 /\ (s > lastIn => stored[s] = 0)
  /\ \A w \in Workers :
       job[w].at = "store" => job[w].seq <= lastIn /\ stored[job[w].seq] = 0
  /\ \A w, v \in Workers :
       job[w].at = "store" /\ job[v].at = "store" /\ w # v => job[w].seq # job[v].seq

\* A worker past the look has yet to store the one late snapshot it may.
Lateness ==
  \A w \in Workers :
    /\ health.paused => late[w].paused <= 1 /\ (PastPause(w) => late[w].paused = 0)
    /\ ~trusted => late[w].revoked <= 1 /\ (Carrying(w) => late[w].revoked = 0)

IInv == Shape /\ Ownership /\ Lateness

\* What a step of Alerts may do to the jobs: each stays what it is, or carries
\* nothing.
JobsRelease ==
  /\ JobShape'
  /\ \A w \in Workers : job'[w] = job[w] \/ job'[w].at \notin {"pause", "advance", "store"}

-----------------------------------------------------------------------------
LEMMA IdleShape == /\ \E T : Idle \in Job(T)
                   /\ Idle.at = "idle"
<1>1. Idle \in Job({"idle", 0, FALSE})
  BY DEF Idle, Job
<1> QED BY <1>1 DEF Idle

\* A step of one worker leaves the jobs of the others alone.
LEMMA OneJob ==
  ASSUME JobShape, NEW w \in Workers, NEW U, NEW r \in Job(U),
         job' = [job EXCEPT ![w] = r]
  PROVE  /\ JobShape'
         /\ job'[w] = r
         /\ \A v \in Workers \ {w} : job'[v] = job[v]
<1>1. PICK T : job \in [Workers -> Job(T)]
  BY DEF JobShape
<1>2. Job(T) \subseteq Job(T \cup U) /\ Job(U) \subseteq Job(T \cup U)
  BY DEF Job
<1>3. job' \in [Workers -> Job(T \cup U)]
  BY <1>1, <1>2
<1> QED BY <1>1, <1>3 DEF JobShape

LEMMA OneRelease ==
  ASSUME JobShape, NEW w \in Workers, NEW U, NEW r \in Job(U),
         r.at \notin {"pause", "advance", "store"},
         job' = [job EXCEPT ![w] = r]
  PROVE  JobsRelease
BY OneJob DEF JobsRelease

LEMMA UnchangedRelease ==
  ASSUME JobShape, UNCHANGED job
  PROVE  JobsRelease
BY DEF JobShape, JobsRelease

\* The forms in which the steps of Alerts write a job.
LEMMA JobUpdate ==
  ASSUME JobShape, NEW w \in Workers, NEW x, NEW y,
         \/ job' = [job EXCEPT ![w].at = x]
         \/ job' = [job EXCEPT ![w].at = x, ![w].policy = y]
         \/ job' = [job EXCEPT ![w].policy = y, ![w].at = x]
         \/ job' = [job EXCEPT ![w].at = x, ![w].alert = y]
  PROVE  \E U : \E r \in Job(U) : r.at = x /\ job' = [job EXCEPT ![w] = r]
<1>1. PICK T : job \in [Workers -> Job(T)]
  BY DEF JobShape
<1>2. \E r \in Job(T \cup {x, y}) : r.at = x /\ job' = [job EXCEPT ![w] = r]
  <2> DEFINE U == T \cup {x, y}
  <2>0. job[w] \in Job(T)
    BY <1>1
  <2>1. CASE job' = [job EXCEPT ![w].at = x]
    <3> DEFINE r == [job[w] EXCEPT !.at = x]
    <3>1. r \in Job(U) /\ r.at = x /\ job' = [job EXCEPT ![w] = r]
      BY <2>0, <2>1, <1>1 DEF Job
    <3> QED BY <3>1
  <2>2. CASE job' = [job EXCEPT ![w].at = x, ![w].policy = y]
    <3> DEFINE r == [job[w] EXCEPT !.at = x, !.policy = y]
    <3>1. r \in Job(U) /\ r.at = x /\ job' = [job EXCEPT ![w] = r]
      BY <2>0, <2>2, <1>1 DEF Job
    <3> QED BY <3>1
  <2>3. CASE job' = [job EXCEPT ![w].policy = y, ![w].at = x]
    <3> DEFINE r == [job[w] EXCEPT !.policy = y, !.at = x]
    <3>1. r \in Job(U) /\ r.at = x /\ job' = [job EXCEPT ![w] = r]
      BY <2>0, <2>3, <1>1 DEF Job
    <3> QED BY <3>1
  <2>4. CASE job' = [job EXCEPT ![w].at = x, ![w].alert = y]
    <3> DEFINE r == [job[w] EXCEPT !.at = x, !.alert = y]
    <3>1. r \in Job(U) /\ r.at = x /\ job' = [job EXCEPT ![w] = r]
      BY <2>0, <2>4, <1>1 DEF Job
    <3> QED BY <3>1
  <2> QED BY <2>1, <2>2, <2>3, <2>4
<1> QED BY <1>2

LEMMA UpdateRelease ==
  ASSUME JobShape, NEW w \in Workers, NEW x, NEW y,
         x \notin {"pause", "advance", "store"},
         \/ job' = [job EXCEPT ![w].at = x]
         \/ job' = [job EXCEPT ![w].at = x, ![w].policy = y]
         \/ job' = [job EXCEPT ![w].policy = y, ![w].at = x]
         \/ job' = [job EXCEPT ![w].at = x, ![w].alert = y]
  PROVE  JobsRelease
<1>1. \E U : \E r \in Job(U) : r.at = x /\ job' = [job EXCEPT ![w] = r]
  BY JobUpdate, Zenon
<1> QED BY <1>1, OneRelease

LEMMA GotoRelease ==
  ASSUME JobShape, NEW w \in Workers, NEW place,
         place \notin {"pause", "advance", "store"}, Goto(w, place)
  PROVE  JobsRelease
<1>1. job' = [job EXCEPT ![w].at = place]
  BY DEF Goto
<1> QED BY <1>1, UpdateRelease, Zenon

LEMMA FinishRelease ==
  ASSUME JobShape, NEW w \in Workers, Finish(w)
  PROVE  JobsRelease
BY IdleShape, OneRelease DEF Finish

LEMMA AlertsRelease ==
  ASSUME JobShape, AlertsNext
  PROVE  JobsRelease
<1>1. ASSUME NEW w \in Workers, EvaluateTrusted(w) PROVE JobsRelease
  BY <1>1, GotoRelease, FinishRelease DEF EvaluateTrusted
<1>2. ASSUME NEW w \in Workers, FindPolicy(w) PROVE JobsRelease
  <2> DEFINE x == IF LivePolicies = {} THEN "create" ELSE "load"
  <2>1. job' = [job EXCEPT ![w].policy = Newest(LivePolicies), ![w].at = x]
    BY <1>2 DEF FindPolicy
  <2>2. x \notin {"pause", "advance", "store"}
    OBVIOUS
  <2> HIDE DEF x
  <2> QED BY <2>1, <2>2, UpdateRelease, Zenon
<1>3. ASSUME NEW w \in Workers, LoadPolicy(w) PROVE JobsRelease
  BY <1>3, GotoRelease, FinishRelease DEF LoadPolicy
<1>4. ASSUME NEW w \in Workers, CreateDefault(w) PROVE JobsRelease
  <2>1. job' = [job EXCEPT ![w].at = "select", ![w].policy = Len(policies) + 1]
    BY <1>4 DEF CreateDefault
  <2>2. "select" \notin {"pause", "advance", "store"}
    OBVIOUS
  <2> QED BY <2>1, <2>2, UpdateRelease, Zenon
<1>5. ASSUME NEW w \in Workers, SelectAlert(w) PROVE JobsRelease
  <2> DEFINE a == Found(job[w].policy)
  <2>1. CASE Goto(w, "insert")
    BY <2>1, GotoRelease
  <2>2. CASE Finish(w)
    BY <2>2, FinishRelease
  <2>3. CASE job' = [job EXCEPT ![w].at = "resolve", ![w].alert = a]
    <3>1. "resolve" \notin {"pause", "advance", "store"}
      OBVIOUS
    <3> HIDE DEF a
    <3> QED BY <2>3, <3>1, UpdateRelease, Zenon
  <2> QED BY <1>5, <2>1, <2>2, <2>3 DEF SelectAlert, Selected
<1>6. ASSUME NEW w \in Workers, InsertAlert(w) PROVE JobsRelease
  BY <1>6, FinishRelease DEF InsertAlert
<1>7. ASSUME NEW w \in Workers, AutoResolve(w) PROVE JobsRelease
  BY <1>7, FinishRelease DEF AutoResolve
<1>8. ASSUME NEW w \in Workers, RemoteAlert(w) PROVE JobsRelease
  <2> DEFINE r == [Idle EXCEPT !.at = "select", !.low = TRUE, !.policy = Remote]
  <2>1. job' = [job EXCEPT ![w] = r]
    BY <1>8 DEF RemoteAlert
  <2>2. PICK U : Idle \in Job(U)
    BY IdleShape
  <2>3. r \in Job(U \cup {"select", TRUE, Remote})
    BY <2>2 DEF Job
  <2>4. r.at = "select"
    BY <2>2 DEF Job
  <2> HIDE DEF r
  <2> QED BY <2>1, <2>3, <2>4, OneRelease
<1>9. ASSUME NEW w \in Workers, Fail(w) PROVE JobsRelease
  BY <1>9, FinishRelease DEF Fail
<1>10. ASSUME NEW o \in Operators,
              \/ AlertsCommand(o)
              \/ WriteStatus(o) \/ GiveUp(o)
       PROVE  JobsRelease
  BY <1>10, UnchangedRelease DEF AlertsCommand, Press, WriteStatus, GiveUp
<1>11. CASE \/ PolicyCommand
            \/ \E n \in DOMAIN alerts : CleanupAlerts(n)
  BY <1>11, UnchangedRelease DEF PolicyCommand, CreatePolicy, ChangePolicy, CleanupAlerts
<1> QED
  BY <1>1, <1>2, <1>3, <1>4, <1>5, <1>6, <1>7, <1>8, <1>9, <1>10, <1>11 DEF AlertsNext

LEMMA AlertsKeepTrust == ASSUME AlertsNext PROVE UNCHANGED trusted
BY DEF AlertsNext, EvaluateTrusted, FindPolicy, LoadPolicy, CreateDefault, SelectAlert,
       InsertAlert, AutoResolve, RemoteAlert, Fail, AlertsCommand, Press, WriteStatus, GiveUp,
       PolicyCommand, CreatePolicy, ChangePolicy, CleanupAlerts
-----------------------------------------------------------------------------
(* The steps of Telemetry.                                                 *)

\* A step that releases jobs and leaves what Telemetry keeps alone.
LEMMA ReleaseKeeps ==
  ASSUME IInv, JobsRelease, UNCHANGED <<trusted, pulse>>
  PROVE  IInv'
<1>1. /\ \A w \in Workers : Carrying(w)' => Carrying(w) /\ job'[w] = job[w]
      /\ \A w \in Workers : PastPause(w)' => PastPause(w)
  BY DEF JobsRelease, Carrying, PastPause
<1>2. UNCHANGED <<trusted, sent, lastIn, health, stored, late>>
  BY DEF pulse, history
<1>3. Shape'
  BY <1>1, <1>2 DEF IInv, Shape, JobsRelease, DataShape, CarriesNumber, Numbers
<1>4. Ownership'
  <2>1. \A w \in Workers : job'[w].at = "store" => job[w].at = "store" /\ job'[w] = job[w]
    BY DEF JobsRelease
  <2> QED BY <2>1, <1>2 DEF IInv, Ownership, Numbers
<1>5. Lateness'
  BY <1>1, <1>2 DEF IInv, Lateness
<1> QED BY <1>3, <1>4, <1>5 DEF IInv

\* The job of a worker that goes on, and the jobs of the others.
LEMMA GotoStep ==
  ASSUME JobShape, NEW w \in Workers, NEW place, Goto(w, place)
  PROVE  /\ JobShape'
         /\ job'[w].at = place /\ job'[w].seq = job[w].seq
         /\ \A v \in Workers \ {w} : job'[v] = job[v]
<1>1. PICK T : job \in [Workers -> Job(T)]
  BY DEF JobShape
<1> DEFINE r == [job[w] EXCEPT !.at = place]
<1>2. job' = [job EXCEPT ![w] = r]
  BY <1>1 DEF Goto
<1>3. r \in Job(T \cup {place}) /\ r.at = place /\ r.seq = job[w].seq
  BY <1>1 DEF Job
<1> HIDE DEF r
<1>4. JobShape' /\ job'[w] = r /\ \A v \in Workers \ {w} : job'[v] = job[v]
  BY <1>2, <1>3, OneJob, Zenon
<1> QED BY <1>3, <1>4

LEMMA EmitStep ==
  ASSUME IInv, NEW s \in Snapshots, Emit(s)
  PROVE  IInv'
<1>1. UNCHANGED <<trusted, job, lastIn, health, stored, late>>
  BY DEF Emit, history
<1>2. sent' \in Seq(Snapshots) /\ Len(sent') <= MaxSeq
  BY TelemetryAssumption DEF IInv, Shape, DataShape, Emit, TakeNumber
<1> QED BY <1>1, <1>2 DEF IInv, Shape, JobShape, DataShape, CarriesNumber, Ownership, Lateness,
                          Carrying, PastPause, Numbers

LEMMA ReceiveStep ==
  ASSUME IInv, NEW w \in Workers, NEW s \in DOMAIN sent, Receive(w, s)
  PROVE  IInv'
<1>0. JobShape /\ UNCHANGED <<trusted, sent, lastIn, health, stored, late>> /\ trusted
  BY DEF IInv, Shape, Receive, pulse, history
<1>1. PICK T : job \in [Workers -> Job(T)]
  BY <1>0 DEF JobShape
<1> DEFINE r == [job[w] EXCEPT !.at = "pause", !.seq = s]
<1>2. job' = [job EXCEPT ![w] = r]
  BY <1>1 DEF Receive
<1>3. r \in Job(T \cup {"pause", s})
  BY <1>1 DEF Job
<1>4. r.at = "pause" /\ r.seq = s
  BY <1>1 DEF Job
<1> HIDE DEF r
<1>5. /\ JobShape' /\ job'[w].at = "pause" /\ job'[w].seq = s
      /\ \A v \in Workers \ {w} : job'[v] = job[v]
  <2>1. JobShape' /\ job'[w] = r /\ \A v \in Workers \ {w} : job'[v] = job[v]
    BY <1>0, <1>2, <1>3, OneJob, Zenon
  <2> QED BY <1>4, <2>1
<1>6. s \in Numbers
  BY TelemetryAssumption DEF IInv, Shape, DataShape, Numbers
<1>7. Shape'
  BY <1>0, <1>5, <1>6 DEF IInv, Shape, DataShape, CarriesNumber, Carrying, Numbers
<1>8. Ownership'
  BY <1>0, <1>5 DEF IInv, Ownership, Numbers
<1>9. Lateness'
  BY <1>0, <1>5 DEF IInv, Lateness, Carrying, PastPause
<1> QED BY <1>7, <1>8, <1>9 DEF IInv

LEMMA RefreshStep ==
  ASSUME IInv, NEW w \in Workers, NEW s \in Snapshots, Refresh(w, s)
  PROVE  IInv'
<1> DEFINE n == Len(sent) + 1
<1>0. JobShape /\ UNCHANGED <<trusted, lastIn, health, stored, late>> /\ trusted
  BY DEF IInv, Shape, Refresh, history
<1>1. PICK T : job \in [Workers -> Job(T)]
  BY <1>0 DEF JobShape
<1> DEFINE r == [job[w] EXCEPT !.at = "pause", !.seq = n]
<1>2. job' = [job EXCEPT ![w] = r]
  BY <1>1 DEF Refresh
<1>3. r \in Job(T \cup {"pause", n})
  BY <1>1 DEF Job
<1>4. r.at = "pause" /\ r.seq = n
  BY <1>1 DEF Job
<1>5. n \in Numbers /\ sent' \in Seq(Snapshots) /\ Len(sent') <= MaxSeq
  BY TelemetryAssumption DEF IInv, Shape, DataShape, Numbers, Refresh, TakeNumber
<1> HIDE DEF r, n
<1>6. /\ JobShape' /\ job'[w].at = "pause" /\ job'[w].seq = n
      /\ \A v \in Workers \ {w} : job'[v] = job[v]
  <2>1. JobShape' /\ job'[w] = r /\ \A v \in Workers \ {w} : job'[v] = job[v]
    BY <1>0, <1>2, <1>3, OneJob, Zenon
  <2> QED BY <1>4, <2>1
<1>7. Shape'
  BY <1>0, <1>5, <1>6 DEF IInv, Shape, DataShape, CarriesNumber, Carrying, Numbers
<1>8. Ownership'
  BY <1>0, <1>6 DEF IInv, Ownership, Numbers
<1>9. Lateness'
  BY <1>0, <1>6 DEF IInv, Lateness, Carrying, PastPause
<1> QED BY <1>7, <1>8, <1>9 DEF IInv

LEMMA CheckPausedStep ==
  ASSUME IInv, NEW w \in Workers, CheckPaused(w)
  PROVE  IInv'
<1>0. JobShape /\ UNCHANGED <<trusted, sent, lastIn, health, stored, late>>
  BY DEF IInv, Shape, CheckPaused, pulse, history
<1>1. CASE Finish(w)
  BY <1>0, <1>1, FinishRelease, ReleaseKeeps DEF CheckPaused
<1>2. CASE ~health.paused /\ Goto(w, "advance")
  <2>1. /\ JobShape' /\ job'[w].at = "advance" /\ job'[w].seq = job[w].seq
        /\ \A v \in Workers \ {w} : job'[v] = job[v]
    BY <1>0, <1>2, GotoStep
  <2>2. Carrying(w)
    BY DEF CheckPaused, At, Carrying
  <2>3. Shape'
    BY <1>0, <2>1, <2>2 DEF IInv, Shape, DataShape, CarriesNumber, Carrying, Numbers
  <2>4. Ownership'
    BY <1>0, <2>1 DEF IInv, Ownership, Numbers
  <2>5. Lateness'
    BY <1>0, <1>2, <2>1, <2>2 DEF IInv, Lateness, Carrying, PastPause
  <2> QED BY <2>3, <2>4, <2>5 DEF IInv
<1> QED BY <1>1, <1>2 DEF CheckPaused

LEMMA AdvanceStep ==
  ASSUME IInv, NEW w \in Workers, Advance(w)
  PROVE  IInv'
<1>0. JobShape /\ UNCHANGED <<trusted, sent, health, stored, late>>
      /\ job[w].at = "advance" /\ job[w].seq \in Numbers
  BY DEF IInv, Shape, Advance, history, CarriesNumber, Carrying, At
<1>1. CASE Finish(w) /\ UNCHANGED lastIn
  <2>1. UNCHANGED <<trusted, pulse>>
    BY <1>1 DEF Advance, pulse
  <2> QED BY <1>0, <1>1, <2>1, FinishRelease, ReleaseKeeps
<1>2. CASE job[w].seq > lastIn /\ Goto(w, "store") /\ lastIn' = job[w].seq
  <2>1. /\ JobShape' /\ job'[w].at = "store" /\ job'[w].seq = job[w].seq
        /\ \A v \in Workers \ {w} : job'[v] = job[v]
    BY <1>0, <1>2, GotoStep
  <2>2. lastIn \in Nat /\ lastIn' \in Nat /\ lastIn < lastIn'
    BY <1>0, <1>2 DEF IInv, Shape, DataShape, Numbers
  <2>3. Shape'
    BY <1>0, <2>1, <2>2 DEF IInv, Shape, DataShape, CarriesNumber, Carrying, Numbers
  <2>4. Ownership'
    <3>1. \A s \in Numbers : stored'[s] <= 1 /\ (s > lastIn' => stored'[s] = 0)
      BY <1>0, <2>2 DEF IInv, Ownership, Numbers
    <3>2. \A v \in Workers : job'[v].at = "store" =>
            job'[v].seq <= lastIn' /\ stored'[job'[v].seq] = 0
      <4> SUFFICES ASSUME NEW v \in Workers, job'[v].at = "store"
                   PROVE  job'[v].seq <= lastIn' /\ stored'[job'[v].seq] = 0
        OBVIOUS
      <4>1. CASE v = w
        BY <4>1, <1>0, <1>2, <2>1, <2>2 DEF IInv, Ownership, Numbers
      <4>2. CASE v # w
        <5>1. job[v].at = "store" /\ job'[v] = job[v]
          BY <4>2, <2>1
        <5>2. job[v].seq \in Numbers
          BY <5>1 DEF IInv, Shape, CarriesNumber, Carrying
        <5> QED BY <5>1, <5>2, <1>0, <2>2 DEF IInv, Ownership, Numbers
      <4> QED BY <4>1, <4>2
    <3>3. \A u, v \in Workers :
            job'[u].at = "store" /\ job'[v].at = "store" /\ u # v => job'[u].seq # job'[v].seq
      <4>1. \A v \in Workers \ {w} : job'[v].at = "store" => job'[v].seq < lastIn'
        <5> SUFFICES ASSUME NEW v \in Workers \ {w}, job'[v].at = "store"
                     PROVE  job'[v].seq < lastIn'
          OBVIOUS
        <5>1. job[v].at = "store" /\ job'[v] = job[v]
          BY <2>1
        <5>2. job[v].seq \in Numbers /\ job[v].seq <= lastIn
          BY <5>1 DEF IInv, Shape, CarriesNumber, Carrying, Ownership
        <5> QED BY <5>1, <5>2, <2>2 DEF Numbers
      <4> QED BY <4>1, <2>1, <1>2, <2>2 DEF IInv, Ownership
    <3> QED BY <3>1, <3>2, <3>3 DEF Ownership
  <2>5. Lateness'
    BY <1>0, <2>1 DEF IInv, Lateness, Carrying, PastPause
  <2> QED BY <2>3, <2>4, <2>5 DEF IInv
<1>3. Replayed(job[w].seq) \/ job[w].seq > lastIn
  BY <1>0 DEF Replayed, Numbers, IInv, Shape, DataShape
<1> QED BY <1>1, <1>2, <1>3 DEF Advance, Replayed

LEMMA StoreStep ==
  ASSUME IInv, NEW w \in Workers, Store(w)
  PROVE  IInv'
<1> DEFINE s == job[w].seq
<1>0. /\ JobShape /\ UNCHANGED <<trusted, sent, lastIn>>
      /\ job[w].at = "store" /\ s \in Numbers /\ s <= lastIn /\ stored[s] = 0
  BY DEF IInv, Shape, Store, CarriesNumber, Carrying, At, Ownership
<1>1. /\ JobShape' /\ job'[w].at = "summary"
      /\ \A v \in Workers \ {w} : job'[v] = job[v]
  BY <1>0, GotoStep DEF Store
<1>2. health' \in [seq : Nat, paused : BOOLEAN] /\ health'.paused = health.paused
  <2>1. s \in Nat
    BY <1>0, TelemetryAssumption DEF Numbers
  <2>2. health' = [health EXCEPT !.seq = s]
    BY DEF Store, Upserted
  <2> QED BY <2>1, <2>2 DEF IInv, Shape, DataShape
<1>3. stored' = [stored EXCEPT ![s] = 1] /\ stored' \in [Numbers -> Nat]
  BY <1>0 DEF Store, IInv, Shape, DataShape
<1>4. /\ late' \in [Workers -> [paused : Nat, revoked : Nat]]
      /\ \A v \in Workers \ {w} : late'[v] = late[v]
      /\ late'[w].paused = IF health.paused THEN late[w].paused + 1 ELSE late[w].paused
      /\ late'[w].revoked = IF trusted THEN late[w].revoked ELSE late[w].revoked + 1
  <2> DEFINE p == IF health.paused THEN late[w].paused + 1 ELSE late[w].paused
             q == IF trusted THEN late[w].revoked ELSE late[w].revoked + 1
  <2>1. late' = [late EXCEPT ![w].paused = p, ![w].revoked = q]
    BY DEF Store
  <2>2. late \in [Workers -> [paused : Nat, revoked : Nat]] /\ p \in Nat /\ q \in Nat
    BY DEF IInv, Shape, DataShape
  <2> HIDE DEF p, q
  <2>3. /\ late' \in [Workers -> [paused : Nat, revoked : Nat]]
        /\ \A v \in Workers \ {w} : late'[v] = late[v]
        /\ late'[w].paused = p /\ late'[w].revoked = q
    BY <2>1, <2>2
  <2> QED BY <2>3 DEF p, q
<1>5. Shape'
  BY <1>0, <1>1, <1>2, <1>3, <1>4 DEF IInv, Shape, DataShape, CarriesNumber, Carrying, Numbers
<1>6. Ownership'
  <2>1. \A n \in Numbers : stored'[n] <= 1 /\ (n > lastIn' => stored'[n] = 0)
    BY <1>0, <1>3 DEF IInv, Ownership, Shape, DataShape, Numbers
  <2>2. \A v \in Workers : job'[v].at = "store" =>
          v # w /\ job'[v] = job[v] /\ job[v].seq \in Numbers /\ job[v].seq # s
    BY <1>0, <1>1 DEF IInv, Ownership, Shape, CarriesNumber, Carrying
  <2>3. \A v \in Workers : job'[v].at = "store" =>
          job'[v].seq <= lastIn' /\ stored'[job'[v].seq] = 0
    <3> HIDE DEF s
    <3> QED BY <1>0, <1>3, <2>2 DEF IInv, Ownership, Shape, DataShape
  <2>4. \A u, v \in Workers :
          job'[u].at = "store" /\ job'[v].at = "store" /\ u # v => job'[u].seq # job'[v].seq
    BY <1>1 DEF IInv, Ownership
  <2> QED BY <2>1, <2>3, <2>4 DEF Ownership
<1>7. Lateness'
  <2>1. /\ health.paused => late[w].paused = 0
        /\ ~trusted => late[w].revoked = 0
    BY <1>0 DEF IInv, Lateness, Carrying, PastPause
  <2>2. trusted \in BOOLEAN /\ health.paused \in BOOLEAN
    BY DEF IInv, Shape, DataShape
  <2> SUFFICES ASSUME NEW v \in Workers
               PROVE  /\ health'.paused => late'[v].paused <= 1
                                          /\ (PastPause(v)' => late'[v].paused = 0)
                      /\ ~trusted' => late'[v].revoked <= 1
                                     /\ (Carrying(v)' => late'[v].revoked = 0)
    BY DEF Lateness, PastPause, Carrying
  <2>3. CASE v = w
    BY <2>1, <2>2, <2>3, <1>0, <1>1, <1>2, <1>4 DEF Carrying, PastPause
  <2>4. CASE v # w
    BY <2>4, <1>0, <1>1, <1>2, <1>4 DEF IInv, Lateness, Carrying, PastPause
  <2> QED BY <2>3, <2>4
<1> QED BY <1>5, <1>6, <1>7 DEF IInv

LEMMA ReadSummaryStep ==
  ASSUME IInv, NEW w \in Workers, ReadSummary(w)
  PROVE  IInv'
<1> DEFINE t == health.seq # 0 /\ Triggers(Rule, sent[health.seq])
           r == [Idle EXCEPT !.at = "trust", !.low = t]
<1>1. job' = [job EXCEPT ![w] = r] /\ JobShape /\ UNCHANGED <<trusted, pulse>>
  BY DEF ReadSummary, IInv, Shape
<1> HIDE DEF t
<1>2. PICK U : Idle \in Job(U)
  BY IdleShape
<1>3. r \in Job(U \cup {"trust", t}) /\ r.at = "trust"
  BY <1>2 DEF Job
<1> HIDE DEF r
<1>4. JobsRelease
  BY <1>1, <1>3, OneRelease
<1> QED BY <1>1, <1>4, ReleaseKeeps

LEMMA CommandStep ==
  ASSUME IInv, Pause \/ Resume \/ Revoke \/ Establish \/ \E n \in events : CleanupEvents(n)
  PROVE  IInv'
<1>1. CASE Pause
  <2>1. UNCHANGED <<trusted, job, sent, lastIn, stored>>
    BY <1>1 DEF Pause
  <2>2. /\ health' \in [seq : Nat, paused : BOOLEAN]
        /\ late' \in [Workers -> [paused : Nat, revoked : Nat]]
        /\ \A v \in Workers : late'[v].revoked = late[v].revoked
                            /\ late'[v].paused = IF health.paused THEN late[v].paused ELSE 0
    BY <1>1 DEF Pause, IInv, Shape, DataShape
  <2>3. Shape' /\ Ownership'
    BY <2>1, <2>2 DEF IInv, Shape, JobShape, DataShape, CarriesNumber, Carrying, Ownership, Numbers
  <2>4. Lateness'
    BY <2>1, <2>2 DEF IInv, Lateness, Carrying, PastPause
  <2> QED BY <2>3, <2>4 DEF IInv
<1>2. CASE Resume
  <2>1. UNCHANGED <<trusted, job, sent, lastIn, stored, late>>
    BY <1>2 DEF Resume, history
  <2>2. health' \in [seq : Nat, paused : BOOLEAN] /\ ~health'.paused
    BY <1>2 DEF Resume, IInv, Shape, DataShape
  <2> QED BY <2>1, <2>2 DEF IInv, Shape, JobShape, DataShape, CarriesNumber, Carrying,
                            Ownership, Numbers, Lateness, PastPause
<1>3. CASE Revoke
  <2>1. UNCHANGED <<job, sent, lastIn, stored, health>> /\ ~trusted' /\ trusted' \in BOOLEAN
    BY <1>3 DEF Revoke, SetTrust
  <2>2. /\ late' \in [Workers -> [paused : Nat, revoked : Nat]]
        /\ \A v \in Workers : late'[v].paused = late[v].paused /\ late'[v].revoked = 0
    BY <1>3 DEF Revoke, IInv, Shape, DataShape
  <2>3. Shape' /\ Ownership'
    BY <2>1, <2>2 DEF IInv, Shape, JobShape, DataShape, CarriesNumber, Carrying, Ownership, Numbers
  <2>4. Lateness'
    BY <2>1, <2>2 DEF IInv, Lateness, Carrying, PastPause
  <2> QED BY <2>3, <2>4 DEF IInv
<1>4. CASE Establish
  <2>1. UNCHANGED <<job, sent, lastIn, stored, health, late>> /\ trusted' = TRUE
    BY <1>4 DEF Establish, SetTrust, pulse, history
  <2> QED BY <2>1 DEF IInv, Shape, JobShape, DataShape, CarriesNumber, Carrying,
                      Ownership, Numbers, Lateness, PastPause
<1>5. CASE \E n \in events : CleanupEvents(n)
  <2>1. UNCHANGED <<trusted, job, sent, lastIn, stored, health, late>>
    BY <1>5 DEF CleanupEvents, history
  <2> QED BY <2>1 DEF IInv, Shape, JobShape, DataShape, CarriesNumber, Carrying,
                      Ownership, Numbers, Lateness, PastPause
<1> QED BY <1>1, <1>2, <1>3, <1>4, <1>5

-----------------------------------------------------------------------------
LEMMA Initially == Init => IInv
<1> SUFFICES ASSUME Init PROVE IInv
  OBVIOUS
<1>1. JobShape /\ \A w \in Workers : job[w].at = "idle"
  BY IdleShape DEF Init, AlertsInit, JobShape
<1>2. DataShape
  BY TelemetryAssumption DEF Init, AlertsInit, DataShape, NoneLate
<1> QED BY <1>1, <1>2 DEF IInv, Shape, CarriesNumber, Carrying, PastPause, Ownership, Lateness,
                         Init, AlertsInit, NoneLate

LEMMA Inductive == IInv /\ [Next]_vars => IInv'
<1> SUFFICES ASSUME IInv, [Next]_vars PROVE IInv'
  OBVIOUS
<1>1. CASE AlertsNext /\ UNCHANGED pulse
  BY <1>1, AlertsRelease, AlertsKeepTrust, ReleaseKeeps DEF IInv, Shape
<1>2. CASE UNCHANGED vars
  BY <1>2, UnchangedRelease, ReleaseKeeps DEF vars, IInv, Shape
<1> QED
  BY <1>1, <1>2, EmitStep, ReceiveStep, RefreshStep, CheckPausedStep, AdvanceStep, StoreStep,
     ReadSummaryStep, CommandStep DEF Next, Tick, TelemetryCommand

\* The inductive invariant: who owns which number, and what is still to come late.
THEOREM TelemetryInvariant == Spec => []IInv
BY Initially, Inductive, PTL DEF Spec

\* However often a snapshot arrives, and through however many workers, the
\* transaction of validate_and_advance_incoming_sequence lets it be stored once.
THEOREM StoredOnceTheorem == Spec => []StoredOnce
<1>1. IInv => StoredOnce
  BY DEF IInv, Ownership, StoredOnce
<1> QED BY <1>1, TelemetryInvariant, PTL

\* process_envelope's look at trust and is_paused bounds what is stored after a
\* revocation or a pause to one snapshot per worker.
THEOREM OneLateTheorem == Spec => []OneLateSnapshot
<1>1. IInv => OneLateSnapshot
  BY DEF IInv, Lateness, OneLateSnapshot
<1> QED BY <1>1, TelemetryInvariant, PTL

\* The upsert of device_health keeps is_paused: only a resume ends a pause.
THEOREM PauseTheorem == Spec => PauseHolds
<1>1. IInv /\ [Next]_vars => [health.paused /\ ~health'.paused => Resume]_vars
  <2> SUFFICES ASSUME IInv, Next, health.paused, ~health'.paused PROVE Resume
    OBVIOUS
  <2>1. health \in [seq : Nat, paused : BOOLEAN]
    BY DEF IInv, Shape, DataShape
  <2>2. ~(UNCHANGED health)
    OBVIOUS
  <2>3. \A w \in Workers : ~Store(w)
    BY <2>1 DEF Store, Upserted
  <2>4. ~Pause
    BY <2>1 DEF Pause
  <2> QED BY <2>2, <2>3, <2>4 DEF Next, pulse, Tick, Emit, Receive, Refresh,
             TelemetryCommand, CheckPaused, Advance, ReadSummary,
             Revoke, Establish, CleanupEvents
<1> QED BY <1>1, TelemetryInvariant, PTL DEF Spec, PauseHolds

-----------------------------------------------------------------------------
(* The alerts: how many stay open for one policy at once.                  *)

\* A set of rows that is not empty has a newest one.
LEMMA NewestExists ==
  ASSUME NEW n \in Nat, NEW S \in SUBSET (1 .. n), S # {}
  PROVE  \E m \in S : \A q \in S : q <= m
<1> DEFINE T == {n - q : q \in S}
<1>0. \A q \in S : q \in Nat /\ q <= n /\ n - q \in Nat
  OBVIOUS
<1>1. T \subseteq Nat /\ T # {}
  BY <1>0
<1>2. PICK x \in T : \A y \in T : <<y, x>> \notin OpToRel(<, Nat)
  <2> HIDE DEF T
  <2> QED BY <1>1, NatLessThanWellFounded, WFMin
<1>3. \A y \in T : ~(y < x)
  BY <1>1, <1>2 DEF OpToRel
<1>4. PICK m \in S : x = n - m
  BY <1>2
<1>5. \A q \in S : q <= m
  <2> TAKE q \in S
  <2>1. ~(n - q < n - m)
    BY <1>3, <1>4
  <2>2. q \in Nat /\ m \in Nat
    BY <1>0
  <2> QED BY <2>1, <2>2
<1> QED BY <1>5

LEMMA NewestOfNone ==
  ASSUME NEW n \in Nat, NEW S \in SUBSET (1 .. n), Newest(S) = 0
  PROVE  S = {}
<1> SUFFICES ASSUME S # {} PROVE FALSE
  OBVIOUS
<1>1. \E m \in S : \A q \in S : q <= m
  BY NewestExists
<1>2. Newest(S) \in S
  BY <1>1 DEF Newest
<1> QED BY <1>2

Alert(T) == [policy : T, status : AlertStatus \cup {"deleted"}, reopened : BOOLEAN]
Buttons == {"ACKNOWLEDGED", "RESOLVED", "DISMISSED"}

RowsShape == \E T : alerts \in Seq(Alert(T))
HandShape == hand \in [Operators -> [at : {"idle"} \cup Buttons, alert : Nat]]
AlertsShape == RowsShape /\ HandShape

\* The open alerts of a policy that were never closed, and the workers that have
\* found none and are about to insert one.
Standing(p) == {a \in Open(p) : ~alerts[a].reopened}
Inserting(p) == {w \in Workers : job[w].at = "insert" /\ job[w].policy = p}

\* Whoever inserts has found no open alert: what stands was inserted by workers that
\* had looked together, and none of them looks again before it has inserted.
Bounded ==
  \A p : Cardinality(Standing(p)) + Cardinality(Inserting(p)) <= Cardinality(Workers)

DuplicatesInv == AlertsShape /\ Bounded

\* What a step does to the rows and to the workers of one policy.
RowsShrink(p) == Standing(p)' \subseteq Standing(p)
WorkersShrink(p) == Inserting(p)' \subseteq Inserting(p)
Inserts(p) ==
  \E a : \E w \in Inserting(p) :
    /\ Standing(p)' \subseteq Standing(p) \cup {a}
    /\ Inserting(p)' \subseteq Inserting(p) \ {w}
Moves(p) ==
  \/ RowsShrink(p) /\ (WorkersShrink(p) \/ Standing(p) = {})
  \/ Inserts(p)

LEMMA FiniteParts ==
  ASSUME RowsShape, NEW p
  PROVE  /\ IsFiniteSet(Standing(p)) /\ Cardinality(Standing(p)) \in Nat
         /\ Inserting(p) \subseteq Workers
         /\ IsFiniteSet(Inserting(p)) /\ Cardinality(Inserting(p)) \in Nat
<1>1. PICK T : alerts \in Seq(Alert(T))
  BY DEF RowsShape
<1>2. Len(alerts) \in Nat /\ Standing(p) \subseteq 1 .. Len(alerts)
  BY <1>1 DEF Standing, Open
<1>3. IsFiniteSet(1 .. Len(alerts))
  BY <1>2, FS_Interval
<1>4. IsFiniteSet(Standing(p))
  BY <1>2, <1>3, FS_Subset
<1>5. Inserting(p) \subseteq Workers
  BY DEF Inserting
<1>6. IsFiniteSet(Inserting(p))
  BY <1>5, FS_Subset, AlertsAssumption
<1> QED BY <1>4, <1>5, <1>6, FS_CardinalityType

LEMMA MovesKeepBound ==
  ASSUME RowsShape, RowsShape', Bounded, \A p : Moves(p)
  PROVE  Bounded'
<1> SUFFICES ASSUME NEW p
             PROVE  Cardinality(Standing(p)') + Cardinality(Inserting(p)') <= Cardinality(Workers)
  BY DEF Bounded
<1> DEFINE S == Standing(p)
           I == Inserting(p)
           S2 == Standing(p)'
           I2 == Inserting(p)'
<1>1. /\ IsFiniteSet(S) /\ Cardinality(S) \in Nat
      /\ IsFiniteSet(I) /\ Cardinality(I) \in Nat /\ I \subseteq Workers
  BY FiniteParts
<1>2. /\ IsFiniteSet(S2) /\ Cardinality(S2) \in Nat
      /\ IsFiniteSet(I2) /\ Cardinality(I2) \in Nat /\ I2 \subseteq Workers
  <2>1. IsFiniteSet(S2)
    <3>1. PICK T : alerts' \in Seq(Alert(T))
      BY DEF RowsShape
    <3>2. Len(alerts') \in Nat /\ S2 \subseteq 1 .. Len(alerts')
      BY <3>1 DEF Standing, Open
    <3>3. IsFiniteSet(1 .. Len(alerts'))
      BY <3>2, FS_Interval
    <3> HIDE DEF S2
    <3> QED BY <3>2, <3>3, FS_Subset
  <2>2. I2 \subseteq Workers
    BY DEF Inserting
  <2> HIDE DEF S2, I2
  <2>3. IsFiniteSet(I2)
    BY <2>2, AlertsAssumption, FS_Subset
  <2> QED BY <2>1, <2>2, <2>3, FS_CardinalityType
<1>3. Cardinality(S) + Cardinality(I) <= Cardinality(Workers)
  BY DEF Bounded
<1>4. Cardinality(Workers) \in Nat /\ Cardinality(I2) <= Cardinality(Workers)
  BY <1>2, AlertsAssumption, FS_Subset, FS_CardinalityType
<1>5. \/ S2 \subseteq S /\ (I2 \subseteq I \/ S = {})
      \/ \E a : \E w \in I : S2 \subseteq S \cup {a} /\ I2 \subseteq I \ {w}
  BY DEF Moves, RowsShrink, WorkersShrink, Inserts
<1> HIDE DEF S, I, S2, I2
<1>6. CASE S2 \subseteq S /\ I2 \subseteq I
  <2>1. Cardinality(S2) <= Cardinality(S) /\ Cardinality(I2) <= Cardinality(I)
    BY <1>1, <1>6, FS_Subset
  <2> QED BY <2>1, <1>1, <1>2, <1>3, <1>4 DEF S, I, S2, I2
<1>7. CASE S2 \subseteq S /\ S = {}
  <2>1. Cardinality(S2) = 0
    BY <1>7, FS_EmptySet
  <2> QED BY <2>1, <1>2, <1>4 DEF S, I, S2, I2
<1>8. ASSUME NEW w \in I, NEW a, S2 \subseteq S \cup {a}, I2 \subseteq I \ {w}
      PROVE  Cardinality(S2) + Cardinality(I2) <= Cardinality(Workers)
  <2>1. /\ IsFiniteSet(S \cup {a}) /\ Cardinality(S \cup {a}) \in Nat
        /\ Cardinality(S \cup {a}) <= Cardinality(S) + 1
    <3>1. IsFiniteSet(S \cup {a})
      BY <1>1, FS_AddElement
    <3>2. Cardinality(S \cup {a}) = IF a \in S THEN Cardinality(S) ELSE Cardinality(S) + 1
      BY <1>1, FS_AddElement
    <3> QED BY <3>1, <3>2, <1>1
  <2>2. /\ IsFiniteSet(I \ {w}) /\ Cardinality(I \ {w}) = Cardinality(I) - 1
    BY <1>1, <1>8, FS_RemoveElement
  <2>3. Cardinality(S2) <= Cardinality(S \cup {a}) /\ Cardinality(I2) <= Cardinality(I \ {w})
    BY <2>1, <2>2, <1>8, FS_Subset
  <2> QED BY <2>1, <2>2, <2>3, <1>1, <1>2, <1>3, <1>4
<1> QED BY <1>5, <1>6, <1>7, <1>8 DEF S, I, S2, I2

\* What a step that inserts nothing does to the jobs: nobody comes to insert.
NoneEnters ==
  \A w \in Workers :
    job'[w].at = "insert" => job[w].at = "insert" /\ job'[w].policy = job[w].policy

LEMMA NoneEntersShrink == ASSUME NoneEnters, NEW p PROVE WorkersShrink(p)
BY DEF NoneEnters, WorkersShrink, Inserting

LEMMA SameRowsShrink == ASSUME UNCHANGED alerts, NEW p PROVE RowsShrink(p)
BY DEF RowsShrink, Standing, Open

LEMMA OneEnters ==
  ASSUME JobShape, NEW w \in Workers, NEW U, NEW r \in Job(U), r.at # "insert",
         job' = [job EXCEPT ![w] = r]
  PROVE  NoneEnters
BY OneJob DEF NoneEnters

LEMMA UpdateEnters ==
  ASSUME JobShape, NEW w \in Workers, NEW x, NEW y, x # "insert",
         \/ job' = [job EXCEPT ![w].at = x]
         \/ job' = [job EXCEPT ![w].at = x, ![w].policy = y]
         \/ job' = [job EXCEPT ![w].policy = y, ![w].at = x]
         \/ job' = [job EXCEPT ![w].at = x, ![w].alert = y]
  PROVE  NoneEnters
<1>1. \E U : \E r \in Job(U) : r.at = x /\ job' = [job EXCEPT ![w] = r]
  BY JobUpdate, Zenon
<1> QED BY <1>1, OneEnters

LEMMA GotoEnters ==
  ASSUME JobShape, NEW w \in Workers, NEW place, place # "insert", Goto(w, place)
  PROVE  NoneEnters
<1>1. job' = [job EXCEPT ![w].at = place]
  BY DEF Goto
<1> QED BY <1>1, UpdateEnters, Zenon

LEMMA FinishEnters ==
  ASSUME JobShape, NEW w \in Workers, Finish(w)
  PROVE  NoneEnters
<1>1. PICK U : Idle \in Job(U)
  BY IdleShape
<1>2. Idle.at # "insert"
  BY IdleShape
<1>3. job' = [job EXCEPT ![w] = Idle]
  BY DEF Finish
<1> QED BY <1>1, <1>2, <1>3, OneEnters

\* An UPDATE of the status closes an alert, or acknowledges one that is open, or
\* reopens a closed one, which is marked.
LEMMA WrittenShrinks ==
  ASSUME RowsShape, NEW a, NEW st \in Buttons, alerts' = Written(a, st)
  PROVE  RowsShape' /\ \A p : RowsShrink(p)
<1>1. PICK T : alerts \in Seq(Alert(T))
  BY DEF RowsShape
<1>2. CASE alerts' = alerts
  BY <1>1, <1>2, SameRowsShrink DEF RowsShape
<1>3. CASE a \in DOMAIN alerts /\ alerts[a].status # "deleted"
  <2> DEFINE closed == alerts[a].status \in {"RESOLVED", "DISMISSED"} /\ st = "ACKNOWLEDGED"
             b == alerts[a].reopened \/ closed
             r == [alerts[a] EXCEPT !.status = st, !.reopened = b]
  <2>1. a \in 1 .. Len(alerts) /\ alerts[a] \in Alert(T)
    BY <1>1, <1>3
  <2>2. alerts' = [alerts EXCEPT ![a].status = st, ![a].reopened = b]
    BY <1>3 DEF Written
  <2>3. alerts' = [alerts EXCEPT ![a] = r]
    BY <1>1, <2>1, <2>2 DEF Alert
  <2>4. b \in BOOLEAN
    OBVIOUS
  <2>5. /\ r \in Alert(T) /\ r.status = st /\ r.reopened = b
        /\ r.policy = alerts[a].policy
    <3> HIDE DEF b
    <3> QED BY <2>1, <2>4 DEF Alert, Buttons, AlertStatus
  <2>6. alerts[a].status \in AlertStatus
    BY <2>1, <1>3 DEF Alert
  <2> HIDE DEF r
  <2>7. alerts' \in Seq(Alert(T))
    BY <1>1, <2>1, <2>3, <2>5, ExceptSeq
  <2>8. DOMAIN alerts' = DOMAIN alerts /\ alerts'[a] = r
        /\ \A q \in DOMAIN alerts \ {a} : alerts'[q] = alerts[q]
    BY <1>1, <2>1, <2>3
  <2>9. ASSUME NEW p, NEW q \in Standing(p)' PROVE q \in Standing(p)
    <3>1. /\ q \in DOMAIN alerts /\ alerts'[q].policy = p /\ ~alerts'[q].reopened
          /\ alerts'[q].status \in {"ACTIVE", "ACKNOWLEDGED"}
      BY <2>8, <2>9 DEF Standing, Open
    <3>2. CASE q # a
      BY <3>1, <3>2, <2>8 DEF Standing, Open
    <3>3. CASE q = a
      <4>1. ~b /\ st = "ACKNOWLEDGED" /\ alerts[a].policy = p
        BY <3>1, <3>3, <2>5, <2>8 DEF Buttons
      <4>2. alerts[a].status \in {"ACTIVE", "ACKNOWLEDGED"} /\ ~alerts[a].reopened
        BY <4>1, <2>6 DEF AlertStatus
      <4> QED BY <4>1, <4>2, <3>1, <3>3 DEF Standing, Open
    <3> QED BY <3>2, <3>3
  <2> QED BY <2>7, <2>9 DEF RowsShape, RowsShrink
<1>4. CASE a \notin DOMAIN alerts
  <2>1. alerts' = alerts
    BY <1>1, <1>4 DEF Written
  <2> QED BY <2>1, <1>2
<1> QED BY <1>2, <1>3, <1>4 DEF Written

LEMMA CleanupShrinks ==
  ASSUME RowsShape, NEW n, CleanupAlerts(n)
  PROVE  RowsShape' /\ \A p : RowsShrink(p)
<1>1. PICK T : alerts \in Seq(Alert(T))
  BY DEF RowsShape
<1> DEFINE gone(a) == a <= n /\ alerts[a].status \in {"RESOLVED", "DISMISSED"}
           e(a) == IF gone(a) THEN [alerts[a] EXCEPT !.status = "deleted"] ELSE alerts[a]
<1>2. alerts' = [a \in 1 .. Len(alerts) |-> e(a)] /\ Len(alerts) \in Nat
  BY <1>1 DEF CleanupAlerts
<1>3. \A a \in 1 .. Len(alerts) : alerts[a] \in Alert(T)
  BY <1>1
<1>4. \A a \in 1 .. Len(alerts) : e(a) \in Alert(T)
  BY <1>3 DEF Alert
<1>5. \A a \in 1 .. Len(alerts) : e(a) = alerts[a] \/ e(a).status = "deleted"
  BY <1>3 DEF Alert
<1> HIDE DEF e
<1>6. alerts' \in Seq(Alert(T))
  BY <1>2, <1>4, IsASeq
<1>7. ASSUME NEW p, NEW q \in Standing(p)' PROVE q \in Standing(p)
  <2>1. q \in 1 .. Len(alerts) /\ alerts'[q] = e(q) /\ e(q).status \in {"ACTIVE", "ACKNOWLEDGED"}
    BY <1>2, <1>7 DEF Standing, Open
  <2>2. alerts'[q] = alerts[q]
    BY <1>5, <2>1
  <2> QED BY <1>1, <1>7, <2>1, <2>2 DEF Standing, Open
<1> QED BY <1>6, <1>7 DEF RowsShape, RowsShrink

\* A step that leaves the rows alone and brings nobody to insert.
LEMMA QuietMoves ==
  ASSUME AlertsShape, NoneEnters, UNCHANGED <<alerts, hand>>
  PROVE  AlertsShape' /\ \A p : Moves(p)
<1>1. AlertsShape'
  BY DEF AlertsShape, RowsShape, HandShape
<1>2. \A p : RowsShrink(p) /\ WorkersShrink(p)
  BY NoneEntersShrink, SameRowsShrink
<1> QED BY <1>1, <1>2 DEF Moves

LEMMA SelectAlertMoves ==
  ASSUME JobShape, AlertsShape, NEW w \in Workers, SelectAlert(w)
  PROVE  AlertsShape' /\ \A p : Moves(p)
<1> DEFINE q == job[w].policy
           a == Found(q)
<1>0. UNCHANGED <<alerts, hand>>
  BY DEF SelectAlert, sentinel
<1>1. CASE a = 0 /\ Goto(w, "insert")
  <2>1. PICK T : alerts \in Seq(Alert(T))
    BY DEF AlertsShape, RowsShape
  <2>2. Len(alerts) \in Nat /\ Open(q) \subseteq 1 .. Len(alerts)
    BY <2>1 DEF Open
  <2>3. Open(q) = {}
    BY <1>1, <2>2, NewestOfNone DEF Found
  <2>4. Standing(q) = {}
    BY <2>3 DEF Standing
  <2>5. job'[w].policy = q /\ \A v \in Workers \ {w} : job'[v] = job[v]
    <3>1. PICK U : job \in [Workers -> Job(U)]
      BY DEF JobShape
    <3> QED BY <3>1, <1>1 DEF Goto, Job
  <2>6. \A p : RowsShrink(p) /\ (WorkersShrink(p) \/ p = q)
    BY <1>0, <2>5, SameRowsShrink DEF WorkersShrink, Inserting
  <2>7. \A p : Moves(p)
    BY <2>4, <2>6 DEF Moves
  <2>8. AlertsShape'
    BY <1>0 DEF AlertsShape, RowsShape, HandShape
  <2> QED BY <2>7, <2>8
<1>2. CASE Finish(w)
  BY <1>0, <1>2, FinishEnters, QuietMoves
<1>3. CASE job' = [job EXCEPT ![w].at = "resolve", ![w].alert = a]
  <2>1. "resolve" # "insert"
    OBVIOUS
  <2> HIDE DEF a
  <2>2. NoneEnters
    BY <1>3, <2>1, UpdateEnters, Zenon
  <2> QED BY <1>0, <2>2, QuietMoves
<1> QED BY <1>1, <1>2, <1>3 DEF SelectAlert, Selected

LEMMA InsertAlertMoves ==
  ASSUME JobShape, AlertsShape, NEW w \in Workers, InsertAlert(w)
  PROVE  AlertsShape' /\ \A p : Moves(p)
<1> DEFINE q == job[w].policy
           e == [policy |-> q, status |-> "ACTIVE", reopened |-> FALSE]
           n == Len(alerts) + 1
<1>1. PICK T : alerts \in Seq(Alert(T))
  BY DEF AlertsShape, RowsShape
<1>2. alerts \in Seq(Alert(T \cup {q})) /\ e \in Alert(T \cup {q})
  <2>1. Alert(T) \subseteq Alert(T \cup {q})
    BY DEF Alert
  <2>2. e \in Alert(T \cup {q})
    BY DEF Alert, AlertStatus
  <2> QED BY <1>1, <2>1, <2>2, SeqMonotonic
<1>3. alerts' = Append(alerts, e) /\ job[w].at = "insert" /\ Finish(w) /\ UNCHANGED hand
  BY DEF InsertAlert, At
<1> HIDE DEF e
<1>4. /\ alerts' \in Seq(Alert(T \cup {q})) /\ Len(alerts) \in Nat
      /\ DOMAIN alerts' = DOMAIN alerts \cup {n} /\ alerts'[n] = e
      /\ \A a \in DOMAIN alerts : alerts'[a] = alerts[a]
  <2>1. /\ alerts' \in Seq(Alert(T \cup {q})) /\ Len(alerts') = n
        /\ \A a \in 1 .. Len(alerts) : alerts'[a] = alerts[a]
        /\ alerts'[n] = e
    BY <1>2, <1>3, AppendProperties
  <2>2. DOMAIN alerts = 1 .. Len(alerts) /\ DOMAIN alerts' = 1 .. n /\ Len(alerts) \in Nat
    BY <1>2, <2>1
  <2> QED BY <2>1, <2>2
<1>5. \A p : Standing(p)' \subseteq Standing(p) \cup {n}
  BY <1>4 DEF Standing, Open
<1>6. \A p : p # q => Standing(p)' \subseteq Standing(p)
  BY <1>4 DEF Standing, Open, e
<1>7. job'[w].at = "idle" /\ \A v \in Workers \ {w} : job'[v] = job[v]
  BY <1>3, IdleShape, OneJob DEF Finish
<1>8. \A p : Inserting(p)' \subseteq Inserting(p) \ {w}
  BY <1>7 DEF Inserting
<1>9. \A p : Moves(p)
  <2> TAKE p
  <2>1. CASE p = q
    <3>1. w \in Inserting(p)
      BY <2>1, <1>3 DEF Inserting
    <3>2. Standing(p)' \subseteq Standing(p) \cup {n} /\ Inserting(p)' \subseteq Inserting(p) \ {w}
      BY <1>5, <1>8
    <3> HIDE DEF n
    <3>3. Inserts(p)
      BY <3>1, <3>2 DEF Inserts
    <3> QED BY <3>3 DEF Moves
  <2>2. CASE p # q
    BY <2>2, <1>6, <1>8 DEF Moves, RowsShrink, WorkersShrink
  <2> QED BY <2>1, <2>2
<1> QED BY <1>3, <1>4, <1>9 DEF AlertsShape, RowsShape, HandShape

\* The other steps of a worker: only AutoResolve writes to the table of alerts.
LEMMA WorkerMoves ==
  ASSUME JobShape, AlertsShape, NEW w \in Workers,
         \/ EvaluateTrusted(w) \/ FindPolicy(w) \/ LoadPolicy(w) \/ CreateDefault(w)
         \/ AutoResolve(w) \/ RemoteAlert(w) \/ Fail(w)
  PROVE  AlertsShape' /\ \A p : Moves(p)
<1>1. CASE EvaluateTrusted(w)
  <2>1. NoneEnters
    BY <1>1, GotoEnters, FinishEnters DEF EvaluateTrusted
  <2> QED BY <1>1, <2>1, QuietMoves DEF EvaluateTrusted, sentinel
<1>2. CASE FindPolicy(w)
  <2> DEFINE x == IF LivePolicies = {} THEN "create" ELSE "load"
  <2>1. job' = [job EXCEPT ![w].policy = Newest(LivePolicies), ![w].at = x]
    BY <1>2 DEF FindPolicy
  <2>2. x # "insert"
    OBVIOUS
  <2> HIDE DEF x
  <2>3. NoneEnters
    BY <2>1, <2>2, UpdateEnters, Zenon
  <2> QED BY <1>2, <2>3, QuietMoves DEF FindPolicy, sentinel
<1>3. CASE LoadPolicy(w)
  <2>1. NoneEnters
    BY <1>3, GotoEnters, FinishEnters DEF LoadPolicy
  <2> QED BY <1>3, <2>1, QuietMoves DEF LoadPolicy, sentinel
<1>4. CASE CreateDefault(w)
  <2>1. job' = [job EXCEPT ![w].at = "select", ![w].policy = Len(policies) + 1]
    BY <1>4 DEF CreateDefault
  <2>2. "select" # "insert"
    OBVIOUS
  <2>3. NoneEnters
    BY <2>1, <2>2, UpdateEnters, Zenon
  <2> QED BY <1>4, <2>3, QuietMoves DEF CreateDefault
<1>5. CASE AutoResolve(w)
  <2>1. /\ alerts' = Written(job[w].alert, "RESOLVED") /\ "RESOLVED" \in Buttons
        /\ UNCHANGED hand /\ NoneEnters
    BY <1>5, FinishEnters DEF AutoResolve, Buttons
  <2>2. RowsShape' /\ \A p : RowsShrink(p)
    BY <2>1, WrittenShrinks DEF AlertsShape
  <2> QED BY <2>1, <2>2, NoneEntersShrink DEF Moves, AlertsShape, HandShape
<1>6. CASE RemoteAlert(w)
  <2> DEFINE r == [Idle EXCEPT !.at = "select", !.low = TRUE, !.policy = Remote]
  <2>1. job' = [job EXCEPT ![w] = r]
    BY <1>6 DEF RemoteAlert
  <2>2. PICK U : Idle \in Job(U)
    BY IdleShape
  <2>3. r \in Job(U \cup {"select", TRUE, Remote}) /\ r.at # "insert"
    BY <2>2 DEF Job
  <2> HIDE DEF r
  <2>4. NoneEnters
    BY <2>1, <2>3, OneEnters
  <2> QED BY <1>6, <2>4, QuietMoves DEF RemoteAlert, sentinel
<1>7. CASE Fail(w)
  <2>1. NoneEnters
    BY <1>7, FinishEnters DEF Fail
  <2> QED BY <1>7, <2>1, QuietMoves DEF Fail, sentinel
<1> QED BY <1>1, <1>2, <1>3, <1>4, <1>5, <1>6, <1>7

LEMMA OperatorMoves ==
  ASSUME JobShape, AlertsShape, NEW o \in Operators,
         AlertsCommand(o) \/ WriteStatus(o) \/ GiveUp(o)
  PROVE  AlertsShape' /\ \A p : Moves(p)
<1> DEFINE idle == [at |-> "idle", alert |-> 0]
<1>1. PICK T : alerts \in Seq(Alert(T))
  BY DEF AlertsShape, RowsShape
<1>2. hand \in [Operators -> [at : {"idle"} \cup Buttons, alert : Nat]]
  BY DEF AlertsShape, HandShape
<1>3. NoneEnters
  BY DEF AlertsCommand, Press, WriteStatus, GiveUp, NoneEnters
<1>4. CASE AlertsCommand(o)
  <2>1. PICK a \in DOMAIN alerts, b \in Buttons : Press(o, b, a)
    BY <1>4 DEF AlertsCommand, Buttons
  <2>2. a \in Nat
    BY <1>1
  <2>3. HandShape'
    BY <1>2, <2>1, <2>2 DEF Press, HandShape
  <2>4. RowsShape' /\ \A p : RowsShrink(p)
    BY <2>1, SameRowsShrink DEF Press, sentinel, AlertsShape, RowsShape
  <2> QED BY <1>3, <2>3, <2>4, NoneEntersShrink DEF Moves, AlertsShape
<1>5. CASE WriteStatus(o)
  <2>1. alerts' = Written(hand[o].alert, hand[o].at) /\ hand[o].at \in Buttons
    BY <1>2, <1>5 DEF WriteStatus
  <2>2. RowsShape' /\ \A p : RowsShrink(p)
    BY <2>1, WrittenShrinks DEF AlertsShape
  <2>3. HandShape'
    BY <1>2, <1>5 DEF WriteStatus, HandShape
  <2> QED BY <1>3, <2>2, <2>3, NoneEntersShrink DEF Moves, AlertsShape
<1>6. CASE GiveUp(o)
  <2>1. HandShape'
    BY <1>2, <1>6 DEF GiveUp, HandShape
  <2>2. RowsShape' /\ \A p : RowsShrink(p)
    BY <1>6, SameRowsShrink DEF GiveUp, sentinel, AlertsShape, RowsShape
  <2> QED BY <1>3, <2>1, <2>2, NoneEntersShrink DEF Moves, AlertsShape
<1> QED BY <1>4, <1>5, <1>6

LEMMA AlertsMove ==
  ASSUME JobShape, AlertsShape, AlertsNext
  PROVE  AlertsShape' /\ \A p : Moves(p)
<1>1. CASE PolicyCommand
  <2>1. UNCHANGED <<alerts, hand, job>>
    BY <1>1 DEF PolicyCommand, CreatePolicy, ChangePolicy
  <2> QED BY <2>1, QuietMoves DEF NoneEnters
<1>2. ASSUME NEW n \in DOMAIN alerts, CleanupAlerts(n)
      PROVE  AlertsShape' /\ \A p : Moves(p)
  <2>1. UNCHANGED <<job, hand>>
    BY <1>2 DEF CleanupAlerts
  <2>2. RowsShape' /\ \A p : RowsShrink(p)
    BY <1>2, CleanupShrinks DEF AlertsShape
  <2> QED BY <2>1, <2>2, NoneEntersShrink DEF NoneEnters, Moves, AlertsShape, HandShape
<1> QED
  BY <1>1, <1>2, SelectAlertMoves, InsertAlertMoves, WorkerMoves, OperatorMoves DEF AlertsNext

\* The steps of Telemetry bring nobody to insert, and leave the alerts alone.
LEMMA PulseMoves ==
  ASSUME JobShape, AlertsShape, NEW w \in Workers, NEW s,
         \/ Receive(w, s) \/ Refresh(w, s) \/ CheckPaused(w) \/ Advance(w)
         \/ Store(w) \/ ReadSummary(w)
  PROVE  AlertsShape' /\ \A p : Moves(p)
<1>1. UNCHANGED <<alerts, hand>>
  BY DEF Receive, Refresh, CheckPaused, Advance, Store, ReadSummary, sentinel
<1>2. PICK T : job \in [Workers -> Job(T)]
  BY DEF JobShape
<1>3. ASSUME Receive(w, s) \/ Refresh(w, s) PROVE NoneEnters
  <2>1. job'[w].at = "pause" /\ \A v \in Workers \ {w} : job'[v] = job[v]
    BY <1>2, <1>3 DEF Receive, Refresh, Job
  <2> QED BY <2>1 DEF NoneEnters
<1>4. ASSUME CheckPaused(w) \/ Advance(w) \/ Store(w) PROVE NoneEnters
  BY <1>4, GotoEnters, FinishEnters DEF CheckPaused, Advance, Store
<1>5. ASSUME ReadSummary(w) PROVE NoneEnters
  <2>1. job'[w].at = "trust" /\ \A v \in Workers \ {w} : job'[v] = job[v]
    BY <1>2, <1>5 DEF ReadSummary, Idle
  <2> QED BY <2>1 DEF NoneEnters
<1> QED BY <1>1, <1>3, <1>4, <1>5, QuietMoves

LEMMA DuplicatesInitially == Init => DuplicatesInv
<1> SUFFICES ASSUME Init PROVE DuplicatesInv
  OBVIOUS
<1>1. AlertsShape
  BY DEF Init, AlertsInit, AlertsShape, RowsShape, HandShape
<1>2. \A w \in Workers : job[w].at = "idle"
  BY IdleShape DEF Init, AlertsInit
<1>3. \A p : Standing(p) = {} /\ Inserting(p) = {}
  BY <1>2 DEF Init, AlertsInit, Standing, Open, Inserting
<1>4. Cardinality(Workers) \in Nat /\ Cardinality({}) = 0
  BY AlertsAssumption, FS_CardinalityType, FS_EmptySet
<1>5. Bounded
  BY <1>3, <1>4 DEF Bounded
<1> QED BY <1>1, <1>5 DEF DuplicatesInv

LEMMA DuplicatesInductive == IInv /\ DuplicatesInv /\ [Next]_vars => DuplicatesInv'
<1> SUFFICES ASSUME IInv, DuplicatesInv, [Next]_vars PROVE DuplicatesInv'
  OBVIOUS
<1>0. JobShape /\ AlertsShape /\ Bounded
  BY DEF IInv, Shape, DuplicatesInv
<1>1. AlertsShape' /\ \A p : Moves(p)
  <2>1. CASE AlertsNext
    BY <2>1, <1>0, AlertsMove
  <2>2. CASE UNCHANGED <<alerts, hand, job>>
    BY <2>2, <1>0, QuietMoves DEF NoneEnters
  <2>3. ASSUME NEW w \in Workers, NEW s,
               \/ Receive(w, s) \/ Refresh(w, s) \/ CheckPaused(w) \/ Advance(w)
               \/ Store(w) \/ ReadSummary(w)
        PROVE  AlertsShape' /\ \A p : Moves(p)
    BY <2>3, <1>0, PulseMoves
  <2>4. ASSUME Tick \/ TelemetryCommand \/ Revoke \/ Establish
               \/ \E n \in events : CleanupEvents(n)
        PROVE  UNCHANGED <<alerts, hand, job>>
    BY <2>4 DEF Tick, Emit, TelemetryCommand, Pause, Resume, Revoke, Establish, SetTrust,
                CleanupEvents, sentinel
  <2> QED BY <2>1, <2>2, <2>3, <2>4 DEF Next, vars, sentinel
<1> QED BY <1>0, <1>1, MovesKeepBound DEF DuplicatesInv, AlertsShape

\* The deduplication of AlertManager.create_alert is a look and an insertion without
\* a lock or a unique index: however many workers overlap, a policy has no more open
\* alerts than there are workers, those reopened by an operator aside.
THEOREM DuplicatesTheorem == Spec => []FewDuplicates
<1>1. DuplicatesInv => FewDuplicates
  <2> SUFFICES ASSUME DuplicatesInv, NEW p \in 0 .. Len(policies)
               PROVE  Cardinality(Standing(p)) <= Cardinality(Workers)
    BY DEF FewDuplicates, Standing
  <2>1. Cardinality(Standing(p)) \in Nat /\ Cardinality(Inserting(p)) \in Nat
    BY FiniteParts DEF DuplicatesInv, AlertsShape
  <2>2. Cardinality(Standing(p)) + Cardinality(Inserting(p)) <= Cardinality(Workers)
    BY DEF DuplicatesInv, Bounded
  <2>3. Cardinality(Workers) \in Nat
    BY AlertsAssumption, FS_CardinalityType
  <2> QED BY <2>1, <2>2, <2>3
<1> QED BY <1>1, DuplicatesInitially, DuplicatesInductive, TelemetryInvariant, PTL DEF Spec
=============================================================================
