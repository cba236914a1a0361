----------------------------- MODULE ScreenView -----------------------------
(***************************************************************************)
(* The screen-view control plane: guardianmesh/screen/controller.py with   *)
(* the ScreenSession, ScreenAuthorizationManager and the two registries it *)
(* drives.                                                                 *)
(*                                                                         *)
(* Every `guardian screen ...` command is a process of its own that loads  *)
(* a session from the shared SQLite file, changes it and exits; the parent *)
(* console and an agent are processes that stay.  A process keeps private  *)
(* copies (session wrapper, authorization, indicator, frame buffer), the   *)
(* database holds one row per session and one per authorization, and the   *)
(* two rows of one operation are written by two separate commits.          *)
(*                                                                         *)
(* An operation of one process holds the controller's lock, so it is one   *)
(* step up to the point where the database is touched a second time: pc    *)
(* says which second access is still to come.  The lifetime of a session   *)
(* and that of its authorization are two deadlines, the session's first    *)
(* (controller.py 186-198), and elapsed says which of them have passed.    *)
(***************************************************************************)
EXTENDS ScreenLifecycle, Naturals

CONSTANTS
  Procs,        \* the processes that share the database
  Sessions,     \* the session ids that can be drawn
  None,         \* no row, no copy in memory, no session
  MaxBuffer,    \* bound: capacity of the frame queue (max_queue_size)
  OneAtATime,   \* TRUE: a process starts only when the others hold nothing
  DbFaults,     \* TRUE: a write may fail; _persist and the controller
                \* swallow the exception
  Sweeps        \* TRUE: a host calls sweep_lifecycle and expire_due, which no
                \* caller in the repository does

ASSUME NoneAssumption ==
  /\ None \notin ScreenSessionState
  /\ None \notin AuthorizationDecision
  /\ None \notin Sessions
  /\ None \notin [st : ScreenSessionState, on : BOOLEAN, buf : 0 .. MaxBuffer]
ASSUME ConstantAssumption ==
  /\ MaxBuffer \in Nat \ {0}
  /\ OneAtATime \in BOOLEAN
  /\ DbFaults \in BOOLEAN
  /\ Sweeps \in BOOLEAN

VARIABLES
  sessRow,    \* screen_sessions.state, per session
  authRow,    \* screen_authorizations.decision, per session (UNIQUE)
  trusted,    \* is the child in the trusted_devices table with status ACTIVE
  elapsed,    \* which deadlines of a session have passed
  mem,        \* per process: ScreenSessionManager._sessions
  auth,       \* per process: ScreenAuthorizationManager, decision by session
  pc,         \* per process: the second database access it still owes
  drawn,      \* session ids already generated
  consented,  \* history: sessions an approve() succeeded for
  refused     \* history: sessions a deny() succeeded for

rows == <<sessRow, authRow>>
vars == <<rows, trusted, elapsed, mem, auth, pc, drawn, consented, refused>>

Wrapper == [st : ScreenSessionState, on : BOOLEAN, buf : 0 .. MaxBuffer]
Elapsed == {"none", "session", "both"}
Pc == [op : {"idle", "checked"}, s : {None}] \cup [op : {"load", "save", "recover"}, s : Sessions]
Idle == [op |-> "idle", s |-> None]

TypeOK ==
  /\ sessRow \in [Sessions -> ScreenSessionState \cup {None}]
  /\ authRow \in [Sessions -> AuthorizationDecision \cup {None}]
  /\ trusted \in BOOLEAN
  /\ elapsed \in [Sessions -> Elapsed]
  /\ mem \in [Procs -> [Sessions -> Wrapper \cup {None}]]
  /\ auth \in [Procs -> [Sessions -> AuthorizationDecision \cup {None}]]
  /\ pc \in [Procs -> Pc]
  /\ drawn \subseteq Sessions
  /\ consented \subseteq Sessions
  /\ refused \subseteq Sessions

Init ==
  /\ sessRow = [s \in Sessions |-> None]
  /\ authRow = [s \in Sessions |-> None]
  /\ trusted = TRUE
  /\ elapsed = [s \in Sessions |-> "none"]
  /\ mem = [p \in Procs |-> [s \in Sessions |-> None]]
  /\ auth = [p \in Procs |-> [s \in Sessions |-> None]]
  /\ pc = [p \in Procs |-> Idle]
  /\ drawn = {}
  /\ consented = {}
  /\ refused = {}

-----------------------------------------------------------------------------
(* Scheduling of processes, and the pieces the operations are made of.     *)

Quiet(p) ==
  /\ pc[p] = Idle
  /\ \A s \in Sessions : mem[p][s] = None /\ auth[p][s] = None

Alone(p) == OneAtATime => \A q \in Procs \ {p} : Quiet(q)

\* p may begin an operation of its controller.
Free(p) == pc[p] = Idle /\ Alone(p)

Holds(p, s, st) == mem[p][s] # None /\ mem[p][s].st = st

\* Mutant: an insert that leaves an existing row alone.
PersistFirst(s, st) ==
  sessRow' = IF sessRow[s] = None THEN [sessRow EXCEPT ![s] = st] ELSE sessRow

\* The manager's copy of session s in process p becomes w.
Put(p, s, w) == mem' = [mem EXCEPT ![p][s] = w]

\* ScreenSessionRegistry.upsert behind _persist: an unconditional overwrite.
Persist(s, st) ==
  \/ sessRow' = [sessRow EXCEPT ![s] = st]
  \/ DbFaults /\ UNCHANGED sessRow

\* Mutant: a teardown that forgets the indicator.
EndedLit(w, st) == [st |-> st, on |-> w.on, buf |-> 0]
\* Mutant: a teardown that forgets the frame buffer.
EndedFull(w, st) == [st |-> st, on |-> FALSE, buf |-> w.buf]

\* What stop, expire and revoke_due_to_trust do to the wrapper.
Ended(w, st) == [st |-> st, on |-> FALSE, buf |-> 0]

\* The common body of stop, expire and revoke_due_to_trust.
TearDown(p, s, st) ==
  /\ mem[p][s] # None
  /\ mem[p][s].st \notin Terminal
  /\ Legal(mem[p][s].st, st)
  /\ Put(p, s, Ended(mem[p][s], st))
  /\ Persist(s, st)
  /\ UNCHANGED <<authRow, trusted, elapsed, auth, pc, drawn, consented, refused>>

-----------------------------------------------------------------------------
(* The parent asks.                                                        *)

\* request_view reads the trust record before it takes the lock.
CheckTrust(p) ==
  /\ Free(p)
  /\ trusted
  /\ pc' = [pc EXCEPT ![p] = [op |-> "checked", s |-> None]]
  /\ UNCHANGED <<rows, trusted, elapsed, mem, auth, drawn, consented, refused>>

\* What create_session and session.request make.
Requested == [st |-> "PENDING_CHILD_APPROVAL", on |-> FALSE, buf |-> 0]

\* create_session, session.request and auth_manager.create_request.  The last
\* refuses a duration outside 30..3600 seconds, after the session row has been
\* written: the session then stays without an authorization.
RequestView(p, s) ==
  /\ pc[p].op = "checked"
  /\ s \notin drawn
  /\ drawn' = drawn \cup {s}
  /\ Put(p, s, Requested)
  /\ Persist(s, "PENDING_CHILD_APPROVAL")
  /\ \E durationOk \in BOOLEAN :
       IF durationOk
       THEN /\ auth' = [auth EXCEPT ![p][s] = "PENDING"]
            /\ pc' = [pc EXCEPT ![p] = [op |-> "save", s |-> s]]
       ELSE /\ pc' = [pc EXCEPT ![p] = Idle]
            /\ UNCHANGED auth
  /\ UNCHANGED <<authRow, trusted, elapsed, consented, refused>>

\* The second commit of request_view, approve and deny: auth_registry.upsert.
SaveAuth(p) ==
  /\ pc[p].op = "save"
  /\ LET s == pc[p].s IN
       \/ authRow' = [authRow EXCEPT ![s] = auth[p][s]]
       \/ DbFaults /\ UNCHANGED authRow
  /\ pc' = [pc EXCEPT ![p] = Idle]
  /\ UNCHANGED <<sessRow, trusted, elapsed, mem, auth, drawn, consented, refused>>

-----------------------------------------------------------------------------
(* A process picks up a session another one left in the database.          *)

\* The ScreenSession that rehydrate_session builds from a row.
Wrap(st) == [st |-> st, on |-> (st = "ACTIVE"), buf |-> 0]

\* rehydrate_session reads the session row first.  A copy already in memory is
\* returned as it is, however old.
Rehydrate(p, s) ==
  /\ Free(p)
  /\ sessRow[s] # None
  /\ mem[p][s] = None
  /\ Put(p, s, Wrap(sessRow[s]))
  /\ pc' = [pc EXCEPT ![p] = [op |-> "load", s |-> s]]
  /\ UNCHANGED <<rows, trusted, elapsed, auth, drawn, consented, refused>>

\* The second read of rehydrate_session: the authorization row, unless the
\* manager knows that authorization.
LoadAuth(p) ==
  /\ pc[p].op = "load"
  /\ LET s == pc[p].s IN
       auth' = [auth EXCEPT ![p][s] = IF @ = None THEN authRow[s] ELSE @]
  /\ pc' = [pc EXCEPT ![p] = Idle]
  /\ UNCHANGED <<rows, trusted, elapsed, mem, drawn, consented, refused>>

-----------------------------------------------------------------------------
(* The child decides.                                                      *)

\* approve and deny take the authorization from memory, else from its row.
Lookup(p, s) == IF auth[p][s] # None THEN auth[p][s] ELSE authRow[s]

\* What session.approve and session.deny do to the copy; deny clears no buffer.
Approved(w) == [w EXCEPT !.st = "APPROVED"]
Denied(w) == [st |-> "DENIED", on |-> FALSE, buf |-> w.buf]

\* auth_manager.approve or deny went through; the session follows when its own
\* state allows.  When it does not, assert_legal_transition raises and the
\* decision stays behind in memory only.
Approve(p, s) ==
  /\ Free(p)
  /\ mem[p][s] # None
  /\ Lookup(p, s) = "PENDING"
  /\ elapsed[s] # "both"
  /\ auth' = [auth EXCEPT ![p][s] = "APPROVED"]
  /\ IF Legal(mem[p][s].st, "APPROVED")
     THEN /\ Put(p, s, Approved(mem[p][s]))
          /\ Persist(s, "APPROVED")
          /\ pc' = [pc EXCEPT ![p] = [op |-> "save", s |-> s]]
          /\ consented' = consented \cup {s}
     ELSE UNCHANGED <<sessRow, mem, pc, consented>>
  /\ UNCHANGED <<authRow, trusted, elapsed, drawn, refused>>

Deny(p, s) ==
  /\ Free(p)
  /\ mem[p][s] # None
  /\ Lookup(p, s) = "PENDING"
  /\ elapsed[s] # "both"
  /\ auth' = [auth EXCEPT ![p][s] = "DENIED"]
  /\ IF Legal(mem[p][s].st, "DENIED")
     THEN /\ Put(p, s, Denied(mem[p][s]))
          /\ Persist(s, "DENIED")
          /\ pc' = [pc EXCEPT ![p] = [op |-> "save", s |-> s]]
          /\ refused' = refused \cup {s}
     ELSE UNCHANGED <<sessRow, mem, pc, refused>>
  /\ UNCHANGED <<authRow, trusted, elapsed, drawn, consented>>

\* A decision after the authorization's deadline: _assert_state_for_decision
\* marks it EXPIRED, whatever it was (deny asks it of any decision), and raises.
DecideTooLate(p, s) ==
  /\ Free(p)
  /\ mem[p][s] # None
  /\ Lookup(p, s) # None
  /\ elapsed[s] = "both"
  /\ auth' = [auth EXCEPT ![p][s] = "EXPIRED"]
  /\ UNCHANGED <<rows, trusted, elapsed, mem, pc, drawn, consented, refused>>

\* A decision on an authorization that is no longer PENDING raises; the copy
\* read from the row stays in the manager.
DecideAgain(p, s) ==
  /\ Free(p)
  /\ mem[p][s] # None
  /\ auth[p][s] = None
  /\ authRow[s] \notin {None, "PENDING"}
  /\ auth' = [auth EXCEPT ![p][s] = authRow[s]]
  /\ UNCHANGED <<rows, trusted, elapsed, mem, pc, drawn, consented, refused>>

-----------------------------------------------------------------------------
(* Viewing.                                                                *)

\* Mutant: start also accepts a session the child has not decided on.
StartableAny == {"APPROVED", "PENDING_CHILD_APPROVAL"}

\* The states start_session and ScreenSession.start accept.
Startable == {"APPROVED"}

\* start_session looks at the state alone.
StartSession(p, s) ==
  /\ Free(p)
  /\ mem[p][s] # None
  /\ mem[p][s].st \in Startable
  /\ Put(p, s, [st |-> "ACTIVE", on |-> TRUE, buf |-> mem[p][s].buf])
  /\ Persist(s, "ACTIVE")
  /\ UNCHANGED <<authRow, trusted, elapsed, auth, pc, drawn, consented, refused>>

HasRoom(w) == w.buf < MaxBuffer

\* ingest_frame with room in the queue; it saves the session with its counters.
\* With the queue full the oldest frame makes room, ingest reports a drop and
\* nothing is saved: no change at this level.
IngestFrame(p, s) ==
  /\ Free(p)
  /\ Holds(p, s, "ACTIVE")
  /\ HasRoom(mem[p][s])
  /\ Put(p, s, [mem[p][s] EXCEPT !.buf = @ + 1])
  /\ Persist(s, mem[p][s].st)
  /\ UNCHANGED <<authRow, trusted, elapsed, auth, pc, drawn, consented, refused>>

DrainFrames(p, s) ==
  /\ Free(p)
  /\ mem[p][s] # None
  /\ Put(p, s, [mem[p][s] EXCEPT !.buf = 0])
  /\ UNCHANGED <<rows, trusted, elapsed, auth, pc, drawn, consented, refused>>

-----------------------------------------------------------------------------
(* Ending.                                                                 *)

StopSession(p, s) == Free(p) /\ TearDown(p, s, "STOPPED")

RevokeSession(p, s) == Free(p) /\ TearDown(p, s, "REVOKED")

\* check_lifecycle, alone or out of sweep_lifecycle: the lifetime first, then a
\* minute without frames (which may have gone by at any time).
CheckLifecycle(p, s) ==
  /\ Sweeps
  /\ Free(p)
  /\ mem[p][s] # None
  /\ IF elapsed[s] # "none"
     THEN TearDown(p, s, "EXPIRED")
     ELSE Holds(p, s, "ACTIVE") /\ TearDown(p, s, "STOPPED")

\* ScreenAuthorizationManager.expire_due, over all it holds.
ExpireDue(p) ==
  /\ Sweeps
  /\ Free(p)
  /\ auth' = [auth EXCEPT ![p] =
       [s \in Sessions |-> IF elapsed[s] = "both" /\ @[s] \in {"PENDING", "APPROVED"}
                           THEN "EXPIRED" ELSE @[s]]]
  /\ UNCHANGED <<rows, trusted, elapsed, mem, pc, drawn, consented, refused>>

\* Orion's STOP_SCREEN_SESSION passes a string where a StopReason is due: the copy
\* is stopped, and then reading reason.value raises in the registry, where _persist
\* swallows it, and in the audit, which fails the action.
OrionStop(p, s) ==
  /\ Free(p)
  /\ Holds(p, s, "ACTIVE")
  /\ Put(p, s, Ended(mem[p][s], "STOPPED"))
  /\ UNCHANGED <<rows, trusted, elapsed, auth, pc, drawn, consented, refused>>

\* The reconciler revokes what its process holds and has run out.
Reconcile(p, s) == elapsed[s] # "none" /\ RevokeSession(p, s)

\* recover_screen_authorizations lists the rows APPROVED past their deadline, and
\* then marks each EXPIRED whatever it has become.
RecoverSelect(p, s) ==
  /\ Free(p)
  /\ authRow[s] = "APPROVED"
  /\ elapsed[s] = "both"
  /\ pc' = [pc EXCEPT ![p] = [op |-> "recover", s |-> s]]
  /\ UNCHANGED <<rows, trusted, elapsed, mem, auth, drawn, consented, refused>>

RecoverWrite(p) ==
  /\ pc[p].op = "recover"
  /\ authRow' = [authRow EXCEPT ![pc[p].s] = "EXPIRED"]
  /\ pc' = [pc EXCEPT ![p] = Idle]
  /\ UNCHANGED <<sessRow, trusted, elapsed, mem, auth, drawn, consented, refused>>

\* ScreenAuthorizationManager.revoke.
RevokeAuthorization(p, s) ==
  /\ Free(p)
  /\ auth[p][s] \in {"PENDING", "APPROVED"}
  /\ auth' = [auth EXCEPT ![p][s] = "REVOKED"]
  /\ UNCHANGED <<rows, trusted, elapsed, mem, pc, drawn, consented, refused>>

-----------------------------------------------------------------------------
(* The environment.                                                        *)

\* A process returns or is killed, between any two database accesses.
Exit(p) ==
  /\ ~Quiet(p)
  /\ mem' = [mem EXCEPT ![p] = [s \in Sessions |-> None]]
  /\ auth' = [auth EXCEPT ![p] = [s \in Sessions |-> None]]
  /\ pc' = [pc EXCEPT ![p] = Idle]
  /\ UNCHANGED <<rows, trusted, elapsed, drawn, consented, refused>>

\* A deadline passes.
Elapse(s) ==
  /\ s \in drawn
  /\ \/ elapsed[s] = "none" /\ elapsed' = [elapsed EXCEPT ![s] = "session"]
     \/ elapsed[s] = "session" /\ elapsed' = [elapsed EXCEPT ![s] = "both"]
  /\ UNCHANGED <<rows, trusted, mem, auth, pc, drawn, consented, refused>>

\* TrustManager.revoke_trust, and establish_trust by a new pairing.  Neither
\* reaches the screen sessions.
ChangeTrust ==
  /\ trusted' = ~trusted
  /\ UNCHANGED <<rows, elapsed, mem, auth, pc, drawn, consented, refused>>

-----------------------------------------------------------------------------
(* Who calls what.  A guardian screen command (cmd_screen) is a process with *)
(* a controller of its own; the operations no command calls are offered to a *)
(* program that embeds the controller.                                       *)

ScreenRequest(p) == CheckTrust(p) \/ \E s \in Sessions : RequestView(p, s)

\* approve, deny, start, stop and view begin with rehydrate_session.
ScreenCommand(p, s) ==
  \/ Rehydrate(p, s)
  \/ Approve(p, s) \/ Deny(p, s) \/ DecideTooLate(p, s) \/ DecideAgain(p, s)
  \/ StartSession(p, s) \/ StopSession(p, s)

\* The web console asks and stops with one controller that never rehydrates: what
\* others made of its sessions does not reach its copies.
WebConsole(p, s) == RequestView(p, s) \/ StopSession(p, s)

Embedded(p, s) ==
  \/ IngestFrame(p, s) \/ DrainFrames(p, s)
  \/ RevokeSession(p, s) \/ CheckLifecycle(p, s) \/ RevokeAuthorization(p, s)
  \/ OrionStop(p, s) \/ Reconcile(p, s)

Next ==
  \/ \E p \in Procs :
       \/ ScreenRequest(p) \/ SaveAuth(p) \/ LoadAuth(p) \/ ExpireDue(p) \/ Exit(p)
       \/ RecoverWrite(p)
       \/ \E s \in Sessions :
            \/ ScreenCommand(p, s) \/ Embedded(p, s) \/ WebConsole(p, s)
            \/ RecoverSelect(p, s)
  \/ \E s \in Sessions : Elapse(s)
  \/ ChangeTrust

Spec == Init /\ [][Next]_vars

-----------------------------------------------------------------------------
(* Properties of any number of processes, with or without failing writes.  *)

Granted == {"APPROVED", "ACTIVE", "STOPPED", "REVOKED"}

\* In every process the indicator of a session it holds is on exactly while its
\* copy is ACTIVE: through start, rehydration of a running session, every way of
\* ending one, and writes that fail half way (session.py 214-290,
\* controller.py 461-471).
IndicatorShowsActive ==
  \A p \in Procs, s \in Sessions :
    mem[p][s] # None => (mem[p][s].on <=> mem[p][s].st = "ACTIVE")

\* No copy and no row of a session gets past the child's decision without an
\* approve() that went through, in whatever order the processes of parent and
\* child load, decide, crash and write (controller.py 221-260, 411-474).
ViewNeedsConsent ==
  \A s \in Sessions :
    /\ sessRow[s] \in Granted => s \in consented
    /\ \A p \in Procs :
         (mem[p][s] # None /\ mem[p][s].st \in Granted) => s \in consented

\* Frames wait in a process only while its copy of the session is ACTIVE: no way
\* of ending a session leaves screen contents behind (session.py 232-290).
FramesOnlyWhileActive ==
  \A p \in Procs, s \in Sessions :
    (mem[p][s] # None /\ mem[p][s].buf > 0) => mem[p][s].st = "ACTIVE"

-----------------------------------------------------------------------------
(* Properties of commands that run one after the other, as a person at the *)
(* command line issues them; a command may be killed between its commits.  *)

Phase(st) ==
  CASE st \in {None, "REQUESTED"} -> "none"
    [] st = "PENDING_CHILD_APPROVAL" -> "asked"
    [] st = "APPROVED" -> "granted"
    [] st = "ACTIVE" -> "live"
    [] st \in Terminal -> "over"

Consent == INSTANCE ScreenConsent WITH
  phase <- [s \in Sessions |-> Phase(sessRow[s])],
  consent <- consented,
  showing <- {s \in Sessions :
                \E p \in Procs : mem[p][s] # None /\ mem[p][s].buf > 0}

\* The database rows and the frame buffers together keep the promise of
\* ScreenConsent, although every command works on a copy it loaded and may die
\* between its writes.
KeepsScreenConsent == Consent!Spec

\* The child's answer is one answer: no session is both approved and denied,
\* although the row that would tell may not have been written when the next
\* command asks (controller.py 244-248, 276-280).
OneDecision == consented \cap refused = {}

\* The authorization row, written second, never claims a decision that the
\* session row, written first, does not carry (controller.py 205, 246, 278).
DecisionRowsAgree ==
  \A s \in Sessions :
    /\ authRow[s] = "APPROVED" =>
         sessRow[s] \in {"APPROVED", "ACTIVE", "STOPPED", "EXPIRED", "REVOKED"}
    /\ authRow[s] = "DENIED" => sessRow[s] = "DENIED"
    /\ authRow[s] # None => sessRow[s] # None

-----------------------------------------------------------------------------
(* Statements of the documentation that the code does not keep.            *)

\* docs/VISTA.md 162: once a session is STOPPED a new authorization is required;
\* so a stopped session does not run again.
StoppedStaysStopped ==
  [][\A s \in Sessions : sessRow[s] = "STOPPED" => sessRow'[s] # "ACTIVE"]_vars

\* docs/SCREEN_PROTOCOL.md 256-259: whatever terminates a session, the database
\* record is updated; so a process that ends its copy leaves no row ACTIVE.
EndReachesTheRow ==
  [][\A p \in Procs, s \in Sessions :
       /\ Holds(p, s, "ACTIVE")
       /\ mem'[p][s] # None
       /\ mem'[p][s].st \in Terminal
       => sessRow'[s] # "ACTIVE"]_vars
=============================================================================
