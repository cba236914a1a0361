----------------------------- MODULE Telemetry -----------------------------
(***************************************************************************)
(* Pulse: the health snapshots of one child device, from the sequence      *)
(* number the child takes (guardianmesh/telemetry/sequence.py and          *)
(* scheduler.py) to the parent's tables (processor.py) and on to Alerts,   *)
(* which evaluates them.                                                   *)
(*                                                                         *)
(* A snapshot is known by its sequence number, and holds what the rules of *)
(* a policy look at.  Numbers grow with the time of capture.  The command  *)
(* `guardian telemetry refresh` takes one like the child does and hands    *)
(* the snapshot to the parent at once; it is for a child that lives in the *)
(* same installation, whose key it has.  What was sent may reach the parent in any order, repeatedly   *)
(* or not at all; what has a bad payload or signature or a time outside    *)
(* the accepted window leaves no trace and is not sent here.               *)
(***************************************************************************)
EXTENDS Alerts

CONSTANTS
  MaxSeq,      \* bound: snapshots the child emits
  Snapshots,   \* what the collector may read off the device
  Rule         \* the rule of the policies that Alerts follows

\* A battery or storage the collector could not read; a threshold that is not set.
Unread == 101

\* The fields the rules look at: the battery and the free storage in percent, and
\* the seconds from the capture until the snapshot is processed.
ValidPayload(s) ==
  /\ s.battery \in 0 .. 100 \cup {Unread}
  /\ s.free \in 0 .. 100 \cup {Unread}
  /\ s.connectivity \in {"ONLINE", "DEGRADED", "OFFLINE", "UNKNOWN"}
  /\ s.age \in Nat

\* PolicyRule.__post_init__: a threshold is a percentage, and 20 or 10 where none is
\* given; a duration is positive (the evaluation takes 60 where none is given).
ValidRule(r) ==
  CASE r.type \in {"LOW_BATTERY", "LOW_STORAGE"} -> r.limit \in 1 .. 99 \cup {Unread}
    [] r.type = "HEARTBEAT_DELAYED" -> r.limit \in Nat \ {0}
    [] OTHER -> r.type \in {"OFFLINE", "DEGRADED_CONNECTION", "HEALTH_UNKNOWN"}

ASSUME TelemetryAssumption ==
  /\ MaxSeq \in Nat
  /\ \A s \in Snapshots : ValidPayload(s)
  /\ ValidRule(Rule) /\ Rule.enabled \in BOOLEAN

VARIABLES
  sent,      \* child: per number taken, its snapshot
  lastIn,    \* device_sequences.last_incoming_sequence
  health,    \* device_health: the last snapshot written (0: none) and is_paused
  events,    \* telemetry_events: the numbers with a row
  stored,    \* history: how often each number was written to telemetry_events
  late       \* history: per worker, snapshots it stored since the last pause
             \* and since the last revocation that are still in force

history == <<stored, late>>
pulse == <<sent, lastIn, health, events, history>>
vars == <<trusted, sentinel, job, hand, pulse>>

Numbers == 1 .. MaxSeq
NoneLate == [paused |-> 0, revoked |-> 0]

TypeOK ==
  /\ AlertsTypeOK
  /\ sent \in Seq(Snapshots) /\ Len(sent) <= MaxSeq
  /\ lastIn \in 0 .. Len(sent)
  /\ health.seq \in 0 .. lastIn /\ health.paused \in BOOLEAN
  /\ events \subseteq 1 .. lastIn
  /\ stored \in [Numbers -> Nat]
  /\ late \in [Workers -> [paused : Nat, revoked : Nat]]

Init ==
  /\ AlertsInit
  /\ sent = <<>>
  /\ lastIn = 0
  /\ health = [seq |-> 0, paused |-> FALSE]
  /\ events = {}
  /\ stored = [s \in Numbers |-> 0]
  /\ late = [w \in Workers |-> NoneLate]

-----------------------------------------------------------------------------
\* health_degraded_threshold_seconds and health_offline_threshold_seconds.
DegradedAfter == 60
OfflineAfter == 120

HealthState(s) ==
  CASE s.connectivity = "OFFLINE" -> "OFFLINE"
    [] s.connectivity # "OFFLINE" /\ s.age <= DegradedAfter -> "ONLINE"
    [] s.connectivity # "OFFLINE" /\ s.age \in DegradedAfter + 1 .. OfflineAfter -> "DEGRADED"
    [] OTHER -> "OFFLINE"

Below(reading, limit, default) ==
  reading # Unread /\ reading < (IF limit = Unread THEN default ELSE limit)

\* RuleEvaluator.evaluate_rule.  A connection that is degraded or lost triggers at
\* once: the duration of those rules is not looked at.
Triggers(r, s) ==
  /\ r.enabled
  /\ \/ r.type = "LOW_BATTERY" /\ Below(s.battery, r.limit, 20)
     \/ r.type = "LOW_STORAGE" /\ Below(s.free, r.limit, 10)
     \/ r.type = "OFFLINE" /\ "OFFLINE" \in {HealthState(s), s.connectivity}
     \/ r.type = "DEGRADED_CONNECTION" /\ "DEGRADED" \in {HealthState(s), s.connectivity}
     \/ r.type = "HEARTBEAT_DELAYED" /\ s.age > r.limit
     \/ r.type = "HEALTH_UNKNOWN" /\ HealthState(s) = "UNKNOWN"

\* The next number is taken in one transaction, whoever asks.
TakeNumber(s) == Len(sent) < MaxSeq /\ sent' = Append(sent, s)

\* A number whose snapshot cannot be signed or sent is never received.
Emit(s) ==
  /\ TakeNumber(s)
  /\ UNCHANGED <<trusted, sentinel, job, hand, lastIn, health, events, history>>

\* The scheduler's loop goes on after a failure; that it is stopped, started or
\* paused only decides when it emits, and a thread that outlives the join of stop()
\* emits beside the next one.
Tick == \E s \in Snapshots : Emit(s)

\* A snapshot arrives and its sender is trusted.
Receive(w, s) ==
  /\ At(w, "idle")
  /\ trusted
  /\ job' = [job EXCEPT ![w].at = "pause", ![w].seq = s]
  /\ UNCHANGED <<trusted, sentinel, hand, pulse>>

\* `guardian telemetry refresh`: a command that finds the device trusted takes a
\* number and processes the snapshot itself.
Refresh(w, s) ==
  /\ At(w, "idle")
  /\ trusted
  /\ TakeNumber(s)
  /\ job' = [job EXCEPT ![w].at = "pause", ![w].seq = Len(sent) + 1]
  /\ UNCHANGED <<trusted, sentinel, hand, lastIn, health, events, history>>

PauseUnread(w) ==
  /\ At(w, "pause")
  /\ Goto(w, "advance")
  /\ UNCHANGED <<trusted, sentinel, hand, pulse>>
CheckPaused(w) ==
  /\ At(w, "pause")
  /\ IF health.paused THEN Finish(w) ELSE Goto(w, "advance")
  /\ UNCHANGED <<trusted, sentinel, hand, pulse>>

\* The number is compared and advanced in one transaction.
ReplayedBefore(s) == s < lastIn
Replayed(s) == s <= lastIn

Advance(w) ==
  /\ At(w, "advance")
  /\ IF Replayed(job[w].seq)
     THEN Finish(w) /\ UNCHANGED lastIn
     ELSE Goto(w, "store") /\ lastIn' = job[w].seq
  /\ UNCHANGED <<trusted, sentinel, hand, sent, health, events, history>>

\* The upsert of device_health takes the snapshot as it comes and keeps
\* is_paused; the event is inserted in the same transaction.
UpsertedAnew(s) == [seq |-> s, paused |-> FALSE]
Upserted(s) == [health EXCEPT !.seq = s]

Store(w) ==
  /\ At(w, "store")
  /\ LET s == job[w].seq IN
       /\ health' = Upserted(s)
       /\ events' = events \cup {s}
       /\ stored' = [stored EXCEPT ![s] = @ + 1]
  /\ late' = [late EXCEPT ![w].paused = IF health.paused THEN @ + 1 ELSE @,
                          ![w].revoked = IF trusted THEN @ ELSE @ + 1]
  /\ Goto(w, "summary")
  /\ UNCHANGED <<trusted, sentinel, hand, sent, lastIn>>

\* What is evaluated is read back from device_health, where another worker's
\* snapshot may stand by now.
ReadSummary(w) ==
  /\ At(w, "summary")
  /\ job' = [job EXCEPT ![w] =
               [Idle EXCEPT !.at = "trust", !.low = health.seq # 0 /\ Triggers(Rule, sent[health.seq])]]
  /\ UNCHANGED <<trusted, sentinel, hand, pulse>>

-----------------------------------------------------------------------------
(* The parent's commands.                                                  *)

Pause ==
  /\ health' = [health EXCEPT !.paused = TRUE]
  /\ late' = IF health.paused THEN late
             ELSE [w \in Workers |-> [late[w] EXCEPT !.paused = 0]]
  /\ UNCHANGED <<trusted, sentinel, job, hand, sent, lastIn, events, stored>>

Resume ==
  /\ health.paused
  /\ health' = [health EXCEPT !.paused = FALSE]
  /\ UNCHANGED <<trusted, sentinel, job, hand, sent, lastIn, events, history>>

\* The retention cleanup removes the events captured before some moment.
CleanupEvents(n) ==
  /\ events' = {s \in events : s > n}
  /\ UNCHANGED <<trusted, sentinel, job, hand, sent, lastIn, health, history>>

\* Trust is revoked, or established again by a new pairing.
Revoke ==
  /\ trusted
  /\ SetTrust(FALSE)
  /\ late' = [w \in Workers |-> [late[w] EXCEPT !.revoked = 0]]
  /\ UNCHANGED <<sent, lastIn, health, events, stored>>

Establish ==
  /\ ~trusted
  /\ SetTrust(TRUE)
  /\ UNCHANGED pulse

\* `guardian telemetry pause` and `resume`.
TelemetryCommand == Pause \/ Resume

Next ==
  \/ AlertsNext /\ UNCHANGED pulse
  \/ Tick
  \/ \E w \in Workers :
       \/ \E s \in DOMAIN sent : Receive(w, s)
       \/ \E s \in Snapshots : Refresh(w, s)
       \/ CheckPaused(w) \/ Advance(w) \/ Store(w) \/ ReadSummary(w)
  \/ TelemetryCommand \/ Revoke \/ Establish
  \/ \E n \in events : CleanupEvents(n)

Spec == Init /\ [][Next]_vars

-----------------------------------------------------------------------------
\* "Any envelope where sequence <= last_accepted_sequence is rejected"
\* (docs/TELEMETRY.md): however often a snapshot arrives, through whichever
\* workers, and whatever the retention cleanup has removed, it is stored once.
StoredOnce == \A s \in Numbers : stored[s] <= 1

\* process_envelope looks at trust and at is_paused before it takes the number and
\* stores: after a pause or a revocation each worker stores at most the one
\* snapshot that was past the look.
OneLateSnapshot ==
  \A w \in Workers :
    /\ health.paused => late[w].paused <= 1
    /\ ~trusted => late[w].revoked <= 1

\* Only `guardian telemetry resume` ends a pause: a worker that passed the check
\* before the pause upserts the row after it, and must keep is_paused.
PauseHolds == [][health.paused /\ ~health'.paused => Resume]_vars
=============================================================================
