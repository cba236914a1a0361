------------------------- MODULE ScreenView_proofs -------------------------
(*****************************************************************************)
(* Proofs about ScreenView, for any number of processes and sessions.        *)
(*                                                                           *)
(* CoreInv: whatever overlaps and fails, a copy that is lit, filled or past  *)
(*   consent is so for a reason its row and its authorization tell.          *)
(* SequentialInv: when commands run one after the other and writes do not    *)
(*   fail, a copy about to be written agrees with its row, and a row that is *)
(*   past consent belongs to a session its child approved and never denied.  *)
(* The last part takes the steps of such commands to those of ScreenConsent. *)
(*****************************************************************************)
EXTENDS ScreenView, TLAPS

USE NoneAssumption, ConstantAssumption DEF NoneAssumption, ConstantAssumption

\* Tearing a copy down gives a copy again, dark and empty.
LEMMA EndedIsWrapper ==
  ASSUME NEW w \in Wrapper, NEW st \in ScreenSessionState
  PROVE  /\ Ended(w, st) \in Wrapper
         /\ Ended(w, st).st = st
         /\ Ended(w, st).on = FALSE
         /\ Ended(w, st).buf = 0
BY DEF Ended, Wrapper

\* Replacing one copy by a copy leaves the memories well-typed.
LEMMA PutType ==
  ASSUME TypeOK, NEW p \in Procs, NEW s \in Sessions, NEW w \in Wrapper,
         Put(p, s, w)
  PROVE  mem' \in [Procs -> [Sessions -> Wrapper \cup {None}]]
<1>1. mem[p] \in [Sessions -> Wrapper \cup {None}]
  BY DEF TypeOK
<1>2. [mem[p] EXCEPT ![s] = w] \in [Sessions -> Wrapper \cup {None}]
  BY <1>1
<1>3. mem' = [mem EXCEPT ![p] = [mem[p] EXCEPT ![s] = w]]
  BY DEF Put, TypeOK
<1>4. QED
  BY <1>2, <1>3 DEF TypeOK

\* So does replacing one authorization by a decision.
LEMMA AuthPutType ==
  ASSUME TypeOK, NEW p \in Procs, NEW s \in Sessions,
         NEW d \in AuthorizationDecision \cup {None}
  PROVE  [auth EXCEPT ![p][s] = d]
           \in [Procs -> [Sessions -> AuthorizationDecision \cup {None}]]
<1>1. auth[p] \in [Sessions -> AuthorizationDecision \cup {None}]
  BY DEF TypeOK
<1>2. [auth[p] EXCEPT ![s] = d] \in [Sessions -> AuthorizationDecision \cup {None}]
  BY <1>1
<1>3. QED
  BY <1>2 DEF TypeOK

\* A state the transition graph leads to is a session state.
LEMMA LegalIsState ==
  ASSUME NEW a, NEW b, Legal(a, b)
  PROVE  a \in ScreenSessionState /\ b \in ScreenSessionState
BY DEF Legal, LegalTransitions, ScreenSessionState

\* A registry write leaves the rows well-typed.
LEMMA PersistType ==
  ASSUME sessRow \in [Sessions -> ScreenSessionState \cup {None}],
         NEW s \in Sessions, NEW st \in ScreenSessionState, Persist(s, st)
  PROVE  /\ sessRow' \in [Sessions -> ScreenSessionState \cup {None}]
         /\ \A t \in Sessions : sessRow'[t] = sessRow[t] \/ (t = s /\ sessRow'[t] = st)
BY DEF Persist

\* Teardown preserves the types.
LEMMA TearDownType ==
  ASSUME TypeOK, NEW p \in Procs, NEW s \in Sessions,
         NEW st \in ScreenSessionState, TearDown(p, s, st)
  PROVE  TypeOK'
<1>1. mem[p][s] \in Wrapper
  BY DEF TearDown, TypeOK
<1>2. Ended(mem[p][s], st) \in Wrapper
  BY <1>1, EndedIsWrapper
<1>3. mem' \in [Procs -> [Sessions -> Wrapper \cup {None}]]
  BY <1>2, PutType DEF TearDown
<1>4. sessRow' \in [Sessions -> ScreenSessionState \cup {None}]
  BY PersistType DEF TearDown, TypeOK
<1>5. QED
  BY <1>3, <1>4 DEF TearDown, TypeOK

\* Type correctness: rows, copies and pending accesses stay within their types;
\* in particular no frame queue outgrows its capacity.
THEOREM TypeCorrect == Spec => []TypeOK
<1>1. Init => TypeOK
  BY DEF Init, TypeOK, Idle, Pc, Elapsed
<1>2. TypeOK /\ [Next]_vars => TypeOK'
  <2> SUFFICES ASSUME TypeOK, [Next]_vars PROVE TypeOK'
    OBVIOUS
  <2>0. CASE UNCHANGED vars
    BY <2>0 DEF TypeOK, vars, rows
  <2>1. ASSUME NEW p \in Procs, CheckTrust(p) PROVE TypeOK'
    BY <2>1 DEF TypeOK, CheckTrust, rows, Pc
  <2>2. ASSUME NEW p \in Procs, SaveAuth(p) PROVE TypeOK'
    <3>1. pc[p].s \in Sessions /\ auth[p] \in [Sessions -> AuthorizationDecision \cup {None}]
      BY <2>2 DEF TypeOK, SaveAuth, Pc
    <3>2. authRow' \in [Sessions -> AuthorizationDecision \cup {None}]
      BY <2>2, <3>1 DEF TypeOK, SaveAuth
    <3>3. pc' \in [Procs -> Pc]
      BY <2>2 DEF TypeOK, SaveAuth, Idle, Pc
    <3>4. QED
      BY <2>2, <3>2, <3>3 DEF TypeOK, SaveAuth
  <2>3. ASSUME NEW p \in Procs, LoadAuth(p) PROVE TypeOK'
    <3>1. auth' \in [Procs -> [Sessions -> AuthorizationDecision \cup {None}]]
      <4>1. pc[p].s \in Sessions
        BY <2>3 DEF TypeOK, LoadAuth, Pc
      <4>2. QED
        BY <2>3, <4>1, AuthPutType DEF TypeOK, LoadAuth
    <3>2. pc' \in [Procs -> Pc]
      BY <2>3 DEF TypeOK, LoadAuth, Idle, Pc
    <3>3. QED
      BY <2>3, <3>1, <3>2 DEF TypeOK, LoadAuth, rows
  <2>4. ASSUME NEW p \in Procs, ExpireDue(p) PROVE TypeOK'
    <3>1. auth' \in [Procs -> [Sessions -> AuthorizationDecision \cup {None}]]
      BY <2>4 DEF TypeOK, ExpireDue, AuthorizationDecision
    <3>2. QED
      BY <2>4, <3>1 DEF TypeOK, ExpireDue, rows
  <2>5. ASSUME NEW p \in Procs, Exit(p) PROVE TypeOK'
    BY <2>5 DEF TypeOK, Exit, rows, Idle, Pc
  <2>6. ASSUME NEW p \in Procs, NEW s \in Sessions, RequestView(p, s) PROVE TypeOK'
    <3>1. "PENDING_CHILD_APPROVAL" \in ScreenSessionState /\ "PENDING" \in AuthorizationDecision
      BY DEF ScreenSessionState, AuthorizationDecision
    <3>2. [st |-> "PENDING_CHILD_APPROVAL", on |-> FALSE, buf |-> 0] \in Wrapper
      BY <3>1 DEF Wrapper
    <3>3. mem' \in [Procs -> [Sessions -> Wrapper \cup {None}]]
      BY <2>6, <3>2, PutType DEF RequestView, Requested
    <3>4. sessRow' \in [Sessions -> ScreenSessionState \cup {None}]
      BY <2>6, <3>1, PersistType DEF TypeOK, RequestView
    <3>5. auth' \in [Procs -> [Sessions -> AuthorizationDecision \cup {None}]]
      <4>1. CASE auth' = [auth EXCEPT ![p][s] = "PENDING"]
        BY <3>1, <4>1, AuthPutType
      <4>2. QED
        BY <2>6, <4>1 DEF TypeOK, RequestView
    <3>6. pc' \in [Procs -> Pc]
      <4>1. [op |-> "save", s |-> s] \in Pc /\ Idle \in Pc
        BY DEF Pc, Idle
      <4>2. QED
        BY <2>6, <4>1 DEF TypeOK, RequestView
    <3>7. QED
      BY <2>6, <3>3, <3>4, <3>5, <3>6 DEF TypeOK, RequestView
  <2>7. ASSUME NEW p \in Procs, NEW s \in Sessions, Rehydrate(p, s) PROVE TypeOK'
    <3>1. Wrap(sessRow[s]) \in Wrapper
      BY <2>7 DEF TypeOK, Rehydrate, Wrap, Wrapper
    <3>2. mem' \in [Procs -> [Sessions -> Wrapper \cup {None}]]
      BY <2>7, <3>1, PutType DEF Rehydrate
    <3>3. pc' \in [Procs -> Pc]
      BY <2>7 DEF TypeOK, Rehydrate, Pc
    <3>4. QED
      BY <2>7, <3>2, <3>3 DEF TypeOK, Rehydrate, rows
  <2>8. ASSUME NEW p \in Procs, NEW s \in Sessions, Approve(p, s) PROVE TypeOK'
    <3>1. "APPROVED" \in ScreenSessionState /\ "APPROVED" \in AuthorizationDecision
      BY DEF ScreenSessionState, AuthorizationDecision
    <3>2. mem[p][s] \in Wrapper
      BY <2>8 DEF TypeOK, Approve
    <3>3. mem' \in [Procs -> [Sessions -> Wrapper \cup {None}]]
      <4>1. [mem[p][s] EXCEPT !.st = "APPROVED"] \in Wrapper
        BY <3>1, <3>2 DEF Wrapper
      <4>2. QED
        BY <4>1, PutType, <2>8 DEF TypeOK, Approve, Approved
    <3>4. sessRow' \in [Sessions -> ScreenSessionState \cup {None}]
      BY <2>8, <3>1, PersistType DEF TypeOK, Approve
    <3>5. auth' \in [Procs -> [Sessions -> AuthorizationDecision \cup {None}]]
      BY <2>8, <3>1 DEF TypeOK, Approve
    <3>6. pc' \in [Procs -> Pc]
      <4>1. [op |-> "save", s |-> s] \in Pc
        BY DEF Pc
      <4>2. QED
        BY <2>8, <4>1 DEF TypeOK, Approve
    <3>7. QED
      BY <2>8, <3>3, <3>4, <3>5, <3>6 DEF TypeOK, Approve
  <2>9. ASSUME NEW p \in Procs, NEW s \in Sessions, Deny(p, s) PROVE TypeOK'
    <3>1. "DENIED" \in ScreenSessionState /\ "DENIED" \in AuthorizationDecision
      BY DEF ScreenSessionState, AuthorizationDecision
    <3>2. mem[p][s] \in Wrapper
      BY <2>9 DEF TypeOK, Deny
    <3>3. mem' \in [Procs -> [Sessions -> Wrapper \cup {None}]]
      <4>1. [st |-> "DENIED", on |-> FALSE, buf |-> mem[p][s].buf] \in Wrapper
        BY <3>1, <3>2 DEF Wrapper
      <4>2. QED
        BY <4>1, PutType, <2>9 DEF TypeOK, Deny, Denied
    <3>4. sessRow' \in [Sessions -> ScreenSessionState \cup {None}]
      BY <2>9, <3>1, PersistType DEF TypeOK, Deny
    <3>5. auth' \in [Procs -> [Sessions -> AuthorizationDecision \cup {None}]]
      BY <2>9, <3>1 DEF TypeOK, Deny
    <3>6. pc' \in [Procs -> Pc]
      <4>1. [op |-> "save", s |-> s] \in Pc
        BY DEF Pc
      <4>2. QED
        BY <2>9, <4>1 DEF TypeOK, Deny
    <3>7. QED
      BY <2>9, <3>3, <3>4, <3>5, <3>6 DEF TypeOK, Deny
  <2>10. ASSUME NEW p \in Procs, NEW s \in Sessions, DecideTooLate(p, s) PROVE TypeOK'
    BY <2>10 DEF TypeOK, DecideTooLate, rows, AuthorizationDecision
  <2>11. ASSUME NEW p \in Procs, NEW s \in Sessions, DecideAgain(p, s) PROVE TypeOK'
    BY <2>11 DEF TypeOK, DecideAgain, rows
  <2>12. ASSUME NEW p \in Procs, NEW s \in Sessions, StartSession(p, s) PROVE TypeOK'
    <3>1. "ACTIVE" \in ScreenSessionState
      BY DEF ScreenSessionState
    <3>2. mem[p][s] \in Wrapper
      BY <2>12 DEF TypeOK, StartSession
    <3>3. mem' \in [Procs -> [Sessions -> Wrapper \cup {None}]]
      <4>1. [st |-> "ACTIVE", on |-> TRUE, buf |-> mem[p][s].buf] \in Wrapper
        BY <3>1, <3>2 DEF Wrapper
      <4>2. QED
        BY <4>1, PutType, <2>12 DEF StartSession
    <3>4. sessRow' \in [Sessions -> ScreenSessionState \cup {None}]
      BY <2>12, <3>1, PersistType DEF TypeOK, StartSession
    <3>5. QED
      BY <2>12, <3>3, <3>4 DEF TypeOK, StartSession
  <2>13. ASSUME NEW p \in Procs, NEW s \in Sessions, IngestFrame(p, s) PROVE TypeOK'
    <3>1. mem[p][s] \in Wrapper /\ mem[p][s].st \in ScreenSessionState
      BY <2>13 DEF TypeOK, IngestFrame, Holds, Wrapper
    <3>2. mem[p][s].buf + 1 \in 0 .. MaxBuffer
      BY <2>13, <3>1 DEF IngestFrame, HasRoom, Wrapper
    <3>3. mem' \in [Procs -> [Sessions -> Wrapper \cup {None}]]
      <4>1. [mem[p][s] EXCEPT !.buf = @ + 1] \in Wrapper
        BY <3>1, <3>2 DEF Wrapper
      <4>2. QED
        BY <4>1, PutType, <2>13 DEF IngestFrame
    <3>4. sessRow' \in [Sessions -> ScreenSessionState \cup {None}]
      BY <2>13, <3>1, PersistType DEF TypeOK, IngestFrame
    <3>5. QED
      BY <2>13, <3>3, <3>4 DEF TypeOK, IngestFrame
  <2>14. ASSUME NEW p \in Procs, NEW s \in Sessions, DrainFrames(p, s) PROVE TypeOK'
    <3>1. mem[p][s] \in Wrapper
      BY <2>14 DEF TypeOK, DrainFrames
    <3>2. mem' \in [Procs -> [Sessions -> Wrapper \cup {None}]]
      <4>1. [mem[p][s] EXCEPT !.buf = 0] \in Wrapper
        BY <3>1 DEF Wrapper
      <4>2. QED
        BY <4>1, PutType, <2>14 DEF DrainFrames
    <3>3. QED
      BY <2>14, <3>2 DEF TypeOK, DrainFrames, rows
  <2>15. ASSUME NEW p \in Procs, NEW s \in Sessions, NEW st \in ScreenSessionState,
                TearDown(p, s, st)
         PROVE  TypeOK'
    BY <2>15, TearDownType
  <2>16. {"STOPPED", "REVOKED", "EXPIRED"} \subseteq ScreenSessionState
    BY DEF ScreenSessionState
  <2>17. ASSUME NEW p \in Procs, NEW s \in Sessions,
                StopSession(p, s) \/ RevokeSession(p, s) \/ CheckLifecycle(p, s)
         PROVE  TypeOK'
    BY <2>15, <2>16, <2>17 DEF StopSession, RevokeSession, CheckLifecycle
  <2>18. ASSUME NEW p \in Procs, NEW s \in Sessions, RevokeAuthorization(p, s)
         PROVE  TypeOK'
    BY <2>18 DEF TypeOK, RevokeAuthorization, rows, AuthorizationDecision
  <2>19. ASSUME NEW s \in Sessions, Elapse(s) PROVE TypeOK'
    BY <2>19 DEF TypeOK, Elapse, rows, Elapsed
  <2>20. CASE ChangeTrust
    BY <2>20 DEF TypeOK, ChangeTrust, rows
  <2>21. ASSUME NEW p \in Procs, NEW s \in Sessions, OrionStop(p, s) PROVE TypeOK'
    <3>1. mem[p][s] \in Wrapper /\ "STOPPED" \in ScreenSessionState
      BY <2>21 DEF TypeOK, OrionStop, Holds, ScreenSessionState
    <3>2. Ended(mem[p][s], "STOPPED") \in Wrapper
      BY <3>1, EndedIsWrapper
    <3>3. mem' \in [Procs -> [Sessions -> Wrapper \cup {None}]]
      BY <2>21, <3>2, PutType DEF OrionStop
    <3>4. QED
      BY <2>21, <3>3 DEF TypeOK, OrionStop, rows
  <2>22. ASSUME NEW p \in Procs, NEW s \in Sessions, RecoverSelect(p, s) PROVE TypeOK'
    BY <2>22 DEF TypeOK, RecoverSelect, rows, Pc
  <2>23. ASSUME NEW p \in Procs, RecoverWrite(p) PROVE TypeOK'
    <3>1. pc[p].s \in Sessions /\ "EXPIRED" \in AuthorizationDecision
      BY <2>23 DEF TypeOK, RecoverWrite, Pc, AuthorizationDecision
    <3>2. authRow' \in [Sessions -> AuthorizationDecision \cup {None}]
      BY <2>23, <3>1 DEF TypeOK, RecoverWrite
    <3>3. pc' \in [Procs -> Pc]
      BY <2>23 DEF TypeOK, RecoverWrite, Idle, Pc
    <3>4. QED
      BY <2>23, <3>2, <3>3 DEF TypeOK, RecoverWrite
  <2>24. QED
    BY <2>0, <2>1, <2>2, <2>3, <2>4, <2>5, <2>6, <2>7, <2>8, <2>9, <2>10, <2>11,
       <2>12, <2>13, <2>14, <2>17, <2>18, <2>19, <2>20, <2>21, <2>22, <2>23
    DEF Next, ScreenRequest, ScreenCommand, WebConsole, Embedded, Reconcile
<1>3. QED
  BY <1>1, <1>2, PTL DEF Spec

-----------------------------------------------------------------------------
\* The inductive invariant: the three privacy invariants need one another.  A
\* rehydrated copy is as good as its row, and an approved session has a dark
\* indicator and an empty buffer because it had them while it was pending.
CoreInv ==
  /\ TypeOK
  /\ IndicatorShowsActive
  /\ ViewNeedsConsent
  /\ FramesOnlyWhileActive

\* A copy that respects the invariant, given the consents C.
GoodCopy(s, w, C) ==
  /\ w.on <=> w.st = "ACTIVE"
  /\ w.buf > 0 => w.st = "ACTIVE"
  /\ w.st \in Granted => s \in C

\* The invariant says that of every copy there is.
LEMMA CopiesAreGood ==
  ASSUME CoreInv, NEW p \in Procs, NEW s \in Sessions, mem[p][s] # None
  PROVE  mem[p][s] \in Wrapper /\ GoodCopy(s, mem[p][s], consented)
BY DEF CoreInv, TypeOK, IndicatorShowsActive, ViewNeedsConsent,
       FramesOnlyWhileActive, GoodCopy

\* A step that replaces one copy by a good one, and rows by rows with consent.
LEMMA PutKeeps ==
  ASSUME CoreInv, TypeOK', NEW p \in Procs, NEW s \in Sessions,
         NEW w \in Wrapper, Put(p, s, w), GoodCopy(s, w, consented'),
         consented \subseteq consented',
         \A t \in Sessions :
           sessRow'[t] = sessRow[t] \/ (t = s /\ sessRow'[t] = w.st)
  PROVE  CoreInv'
<1>1. \A q \in Procs, t \in Sessions :
        mem'[q][t] = IF q = p /\ t = s THEN w ELSE mem[q][t]
  BY DEF Put, CoreInv, TypeOK
<1>2. \A q \in Procs, t \in Sessions :
        mem'[q][t] # None => GoodCopy(t, mem'[q][t], consented')
  <2> SUFFICES ASSUME NEW q \in Procs, NEW t \in Sessions, mem'[q][t] # None
               PROVE  GoodCopy(t, mem'[q][t], consented')
    OBVIOUS
  <2>1. CASE q = p /\ t = s
    BY <2>1, <1>1
  <2>2. CASE ~(q = p /\ t = s)
    <3>1. mem'[q][t] = mem[q][t]
      BY <2>2, <1>1
    <3>2. GoodCopy(t, mem[q][t], consented)
      BY <3>1, CopiesAreGood
    <3>3. QED
      BY <3>1, <3>2 DEF GoodCopy
  <2>3. QED
    BY <2>1, <2>2
<1>3. \A t \in Sessions : sessRow'[t] \in Granted => t \in consented'
  BY DEF CoreInv, ViewNeedsConsent, GoodCopy
<1>4. IndicatorShowsActive'
  BY <1>2 DEF IndicatorShowsActive, GoodCopy
<1>5. ViewNeedsConsent'
  BY <1>2, <1>3 DEF ViewNeedsConsent, GoodCopy
<1>6. FramesOnlyWhileActive'
  BY <1>2 DEF FramesOnlyWhileActive, GoodCopy
<1>7. QED
  BY <1>4, <1>5, <1>6 DEF CoreInv

\* A teardown leaves a good copy: only a session past its consent can be stopped
\* or revoked, because the transition graph says so.
LEMMA TearDownKeeps ==
  ASSUME CoreInv, TypeOK', NEW p \in Procs, NEW s \in Sessions,
         NEW st \in {"STOPPED", "EXPIRED", "REVOKED"}, TearDown(p, s, st)
  PROVE  CoreInv'
<1>1. st \in ScreenSessionState
  BY DEF ScreenSessionState
<1>2. mem[p][s] \in Wrapper /\ GoodCopy(s, mem[p][s], consented)
  BY CopiesAreGood DEF TearDown
<1>3. Ended(mem[p][s], st) \in Wrapper
  BY <1>1, <1>2, EndedIsWrapper
<1>4. Ended(mem[p][s], st).st = st /\ Ended(mem[p][s], st).on = FALSE
        /\ Ended(mem[p][s], st).buf = 0
  BY <1>1, <1>2, EndedIsWrapper
<1>5. st \in Granted => mem[p][s].st \in Granted
  BY DEF TearDown, Legal, LegalTransitions, Granted
<1>6. consented' = consented
  BY DEF TearDown
<1>7. GoodCopy(s, Ended(mem[p][s], st), consented')
  BY <1>2, <1>4, <1>5, <1>6 DEF GoodCopy
<1>8. \A t \in Sessions : sessRow'[t] = sessRow[t] \/ (t = s /\ sessRow'[t] = st)
  BY <1>1, PersistType DEF TearDown, CoreInv, TypeOK
<1>9. QED
  BY <1>3, <1>4, <1>6, <1>7, <1>8, PutKeeps DEF TearDown

\* A step that leaves every session row, every copy that remains and the
\* consents as they are.
LEMMA NoPutKeeps ==
  ASSUME CoreInv, TypeOK', UNCHANGED <<sessRow, consented>>,
         \A p \in Procs, s \in Sessions :
           mem'[p][s] = None \/ mem'[p][s] = mem[p][s]
  PROVE  CoreInv'
BY DEF CoreInv, IndicatorShowsActive, ViewNeedsConsent, FramesOnlyWhileActive

\* Every step of the system preserves the invariant.
LEMMA CoreInvStep == CoreInv /\ TypeOK' /\ [Next]_vars => CoreInv'
<1> SUFFICES ASSUME CoreInv, TypeOK', [Next]_vars PROVE CoreInv'
  OBVIOUS
<1>0. CASE UNCHANGED vars
  BY <1>0, NoPutKeeps DEF vars, rows
<1>1. ASSUME NEW p \in Procs,
             CheckTrust(p) \/ SaveAuth(p) \/ LoadAuth(p) \/ ExpireDue(p) \/ RecoverWrite(p)
      PROVE  CoreInv'
  BY <1>1, NoPutKeeps DEF CheckTrust, SaveAuth, LoadAuth, ExpireDue, RecoverWrite, rows
<1>2. ASSUME NEW p \in Procs, Exit(p) PROVE CoreInv'
  <2>1. \A q \in Procs, s \in Sessions : mem'[q][s] = None \/ mem'[q][s] = mem[q][s]
    BY <1>2 DEF Exit, CoreInv, TypeOK
  <2>2. QED
    BY <1>2, <2>1, NoPutKeeps DEF Exit, rows
<1>3. ASSUME NEW p \in Procs, NEW s \in Sessions,
             \/ DecideTooLate(p, s) \/ DecideAgain(p, s)
             \/ RevokeAuthorization(p, s) \/ RecoverSelect(p, s)
      PROVE  CoreInv'
  BY <1>3, NoPutKeeps
  DEF DecideTooLate, DecideAgain, RevokeAuthorization, RecoverSelect, rows
<1>4. ASSUME NEW p \in Procs, NEW s \in Sessions, RequestView(p, s) PROVE CoreInv'
  <2> DEFINE w == [st |-> "PENDING_CHILD_APPROVAL", on |-> FALSE, buf |-> 0]
  <2>1. w \in Wrapper
    BY DEF Wrapper, ScreenSessionState
  <2>2. GoodCopy(s, w, consented')
    BY DEF GoodCopy, Granted
  <2>3. w.st \in ScreenSessionState /\ Put(p, s, w) /\ Persist(s, w.st)
    BY <1>4 DEF RequestView, Requested, ScreenSessionState
  <2>4. \A t \in Sessions : sessRow'[t] = sessRow[t] \/ (t = s /\ sessRow'[t] = w.st)
    BY <2>3, PersistType DEF CoreInv, TypeOK
  <2>5. QED
    BY <1>4, <2>1, <2>2, <2>3, <2>4, PutKeeps DEF RequestView
<1>5. ASSUME NEW p \in Procs, NEW s \in Sessions, Rehydrate(p, s) PROVE CoreInv'
  <2>1. Wrap(sessRow[s]) \in Wrapper
    BY <1>5 DEF Rehydrate, Wrap, Wrapper, CoreInv, TypeOK
  <2>2. GoodCopy(s, Wrap(sessRow[s]), consented')
    <3>1. sessRow[s] \in Granted => s \in consented'
      BY <1>5 DEF Rehydrate, CoreInv, ViewNeedsConsent
    <3>2. Wrap(sessRow[s]).on <=> Wrap(sessRow[s]).st = "ACTIVE"
      BY DEF Wrap
    <3>3. Wrap(sessRow[s]).st = sessRow[s] /\ Wrap(sessRow[s]).buf = 0
      BY DEF Wrap
    <3>4. QED
      BY <3>1, <3>2, <3>3 DEF GoodCopy
  <2>3. QED
    BY <1>5, <2>1, <2>2, PutKeeps DEF Rehydrate, rows
<1>6. ASSUME NEW p \in Procs, NEW s \in Sessions, Approve(p, s) PROVE CoreInv'
  <2>1. CASE Legal(mem[p][s].st, "APPROVED")
    <3> DEFINE w == [mem[p][s] EXCEPT !.st = "APPROVED"]
    <3>1. mem[p][s] \in Wrapper /\ GoodCopy(s, mem[p][s], consented)
      BY <1>6, CopiesAreGood DEF Approve
    <3>2. mem[p][s].st = "PENDING_CHILD_APPROVAL"
      BY <2>1 DEF Legal, LegalTransitions
    <3>3. w \in Wrapper /\ w.st = "APPROVED" /\ w.on = mem[p][s].on
            /\ w.buf = mem[p][s].buf
      BY <3>1 DEF Wrapper, ScreenSessionState
    <3>4. consented' = consented \cup {s} /\ Put(p, s, w) /\ Persist(s, w.st)
      BY <1>6, <2>1, <3>3 DEF Approve, Approved
    <3>5. GoodCopy(s, w, consented')
      BY <3>1, <3>2, <3>3, <3>4 DEF GoodCopy
    <3>6. w.st \in ScreenSessionState
      BY <3>3 DEF ScreenSessionState
    <3>7. \A t \in Sessions : sessRow'[t] = sessRow[t] \/ (t = s /\ sessRow'[t] = w.st)
      BY <3>4, <3>6, PersistType DEF CoreInv, TypeOK
    <3>8. QED
      BY <3>3, <3>4, <3>5, <3>7, PutKeeps
  <2>2. CASE ~Legal(mem[p][s].st, "APPROVED")
    BY <1>6, <2>2, NoPutKeeps DEF Approve
  <2>3. QED
    BY <2>1, <2>2
<1>7. ASSUME NEW p \in Procs, NEW s \in Sessions, Deny(p, s) PROVE CoreInv'
  <2>1. CASE Legal(mem[p][s].st, "DENIED")
    <3> DEFINE w == [st |-> "DENIED", on |-> FALSE, buf |-> mem[p][s].buf]
    <3>1. mem[p][s] \in Wrapper /\ GoodCopy(s, mem[p][s], consented)
      BY <1>7, CopiesAreGood DEF Deny
    <3>2. mem[p][s].st \in {"REQUESTED", "PENDING_CHILD_APPROVAL"}
      BY <2>1 DEF Legal, LegalTransitions
    <3>3. w \in Wrapper
      BY <3>1 DEF Wrapper, ScreenSessionState
    <3>4. GoodCopy(s, w, consented')
      BY <3>1, <3>2 DEF GoodCopy, Granted
    <3>5. consented' = consented /\ Put(p, s, w) /\ Persist(s, w.st)
      BY <1>7, <2>1 DEF Deny, Denied
    <3>6. w.st \in ScreenSessionState
      BY DEF ScreenSessionState
    <3>7. \A t \in Sessions : sessRow'[t] = sessRow[t] \/ (t = s /\ sessRow'[t] = w.st)
      BY <3>5, <3>6, PersistType DEF CoreInv, TypeOK
    <3>8. QED
      BY <3>3, <3>4, <3>5, <3>7, PutKeeps
  <2>2. CASE ~Legal(mem[p][s].st, "DENIED")
    BY <1>7, <2>2, NoPutKeeps DEF Deny
  <2>3. QED
    BY <2>1, <2>2
<1>8. ASSUME NEW p \in Procs, NEW s \in Sessions, StartSession(p, s) PROVE CoreInv'
  <2> DEFINE w == [st |-> "ACTIVE", on |-> TRUE, buf |-> mem[p][s].buf]
  <2>1. mem[p][s] \in Wrapper /\ GoodCopy(s, mem[p][s], consented)
    BY <1>8, CopiesAreGood DEF StartSession
  <2>2. s \in consented /\ consented' = consented
    BY <1>8, <2>1 DEF StartSession, Startable, GoodCopy, Granted
  <2>3. w \in Wrapper
    BY <2>1 DEF Wrapper, ScreenSessionState
  <2>4. GoodCopy(s, w, consented')
    BY <2>2 DEF GoodCopy
  <2>5. w.st \in ScreenSessionState /\ Put(p, s, w) /\ Persist(s, w.st)
    BY <1>8 DEF StartSession, ScreenSessionState
  <2>6. \A t \in Sessions : sessRow'[t] = sessRow[t] \/ (t = s /\ sessRow'[t] = w.st)
    BY <2>5, PersistType DEF CoreInv, TypeOK
  <2>7. QED
    BY <2>2, <2>3, <2>4, <2>5, <2>6, PutKeeps
<1>9. ASSUME NEW p \in Procs, NEW s \in Sessions, IngestFrame(p, s) PROVE CoreInv'
  <2> DEFINE w == [mem[p][s] EXCEPT !.buf = @ + 1]
  <2>1. mem[p][s] \in Wrapper /\ GoodCopy(s, mem[p][s], consented)
          /\ mem[p][s].st = "ACTIVE" /\ consented' = consented
    BY <1>9, CopiesAreGood DEF IngestFrame, Holds
  <2>2. mem[p][s].buf + 1 \in 0 .. MaxBuffer
    BY <1>9, <2>1 DEF IngestFrame, HasRoom, Wrapper
  <2>3. w \in Wrapper /\ w.st = mem[p][s].st /\ w.on = mem[p][s].on
    BY <2>1, <2>2 DEF Wrapper
  <2>4. GoodCopy(s, w, consented')
    BY <2>1, <2>3 DEF GoodCopy
  <2>5. w.st \in ScreenSessionState /\ Put(p, s, w) /\ Persist(s, w.st)
    BY <1>9, <2>1, <2>3 DEF IngestFrame, Wrapper
  <2>6. \A t \in Sessions : sessRow'[t] = sessRow[t] \/ (t = s /\ sessRow'[t] = w.st)
    BY <2>5, PersistType DEF CoreInv, TypeOK
  <2>7. QED
    BY <2>1, <2>3, <2>4, <2>5, <2>6, PutKeeps
<1>10. ASSUME NEW p \in Procs, NEW s \in Sessions, DrainFrames(p, s) PROVE CoreInv'
  <2> DEFINE w == [mem[p][s] EXCEPT !.buf = 0]
  <2>1. mem[p][s] \in Wrapper /\ GoodCopy(s, mem[p][s], consented)
    BY <1>10, CopiesAreGood DEF DrainFrames
  <2>2. w \in Wrapper /\ w.st = mem[p][s].st /\ w.on = mem[p][s].on /\ w.buf = 0
    BY <2>1 DEF Wrapper
  <2>3. consented' = consented /\ sessRow' = sessRow /\ Put(p, s, w)
    BY <1>10 DEF DrainFrames, rows
  <2>4. GoodCopy(s, w, consented')
    BY <2>1, <2>2, <2>3 DEF GoodCopy
  <2>5. QED
    BY <2>2, <2>3, <2>4, PutKeeps
<1>11. ASSUME NEW p \in Procs, NEW s \in Sessions,
              StopSession(p, s) \/ RevokeSession(p, s) \/ CheckLifecycle(p, s)
       PROVE  CoreInv'
  BY <1>11, TearDownKeeps DEF StopSession, RevokeSession, CheckLifecycle
<1>12. ASSUME NEW s \in Sessions, Elapse(s) PROVE CoreInv'
  BY <1>12, NoPutKeeps DEF Elapse, rows
<1>13. CASE ChangeTrust
  BY <1>13, NoPutKeeps DEF ChangeTrust, rows
<1>14. ASSUME NEW p \in Procs, NEW s \in Sessions, OrionStop(p, s) PROVE CoreInv'
  <2> DEFINE w == Ended(mem[p][s], "STOPPED")
  <2>1. mem[p][s] \in Wrapper /\ GoodCopy(s, mem[p][s], consented)
          /\ mem[p][s].st = "ACTIVE"
    BY <1>14, CopiesAreGood DEF OrionStop, Holds
  <2>2. "STOPPED" \in ScreenSessionState
    BY DEF ScreenSessionState
  <2>3. w \in Wrapper /\ w.st = "STOPPED" /\ w.on = FALSE /\ w.buf = 0
    BY <2>1, <2>2, EndedIsWrapper
  <2>4. s \in consented /\ consented' = consented /\ sessRow' = sessRow /\ Put(p, s, w)
    BY <1>14, <2>1 DEF OrionStop, rows, GoodCopy, Granted
  <2>5. GoodCopy(s, w, consented')
    BY <2>3, <2>4 DEF GoodCopy
  <2> HIDE DEF w
  <2>6. QED
    BY <2>3, <2>4, <2>5, PutKeeps
<1>15. QED
  BY <1>0, <1>1, <1>2, <1>3, <1>4, <1>5, <1>6, <1>7, <1>8, <1>9, <1>10, <1>11,
     <1>12, <1>13, <1>14
  DEF Next, ScreenRequest, ScreenCommand, WebConsole, Embedded, Reconcile

\* The privacy core of Vista, for any number of processes in any interleaving,
\* with crashes and failing writes: the indicator is on exactly while a copy is
\* ACTIVE, nothing passes the child's decision without consent, and frames wait
\* only in an ACTIVE session.
THEOREM CoreInvariant == Spec => []CoreInv
<1>1. Init => CoreInv
  <2>1. Init => TypeOK
    BY DEF Init, TypeOK, Idle, Pc, Elapsed
  <2>2. Init => IndicatorShowsActive /\ ViewNeedsConsent /\ FramesOnlyWhileActive
    BY DEF Init, IndicatorShowsActive, ViewNeedsConsent, FramesOnlyWhileActive, Granted,
           ScreenSessionState
  <2>3. QED
    BY <2>1, <2>2 DEF CoreInv
<1>2. QED
  BY <1>1, CoreInvStep, TypeCorrect, PTL DEF Spec

\* The indicator is on exactly while the copy is ACTIVE.
THEOREM IndicatorTheorem == Spec => []IndicatorShowsActive
<1>1. CoreInv => IndicatorShowsActive
  BY DEF CoreInv
<1>2. QED
  BY <1>1, CoreInvariant, PTL

\* Nothing passes the child's decision without consent.
THEOREM ConsentTheorem == Spec => []ViewNeedsConsent
<1>1. CoreInv => ViewNeedsConsent
  BY DEF CoreInv
<1>2. QED
  BY <1>1, CoreInvariant, PTL

\* Frames wait only in an ACTIVE session.
THEOREM FramesTheorem == Spec => []FramesOnlyWhileActive
<1>1. CoreInv => FramesOnlyWhileActive
  BY DEF CoreInv
<1>2. QED
  BY <1>1, CoreInvariant, PTL

-----------------------------------------------------------------------------
(* Commands that run one after the other.                                  *)

\* A command starts only when the others hold nothing, and writes do not fail.
Sequential == OneAtATime /\ ~DbFaults

\* One process at a time holds a copy, an authorization or an access it owes.
OneBusy == \A p, q \in Procs : ~Quiet(p) /\ ~Quiet(q) => p = q

\* Where a session stands once the child has approved of it.
PastApproval == Granted \cup {"EXPIRED"}

\* The decision a command has yet to write, and the session row it wrote first.
Owed == {<<"PENDING", "PENDING_CHILD_APPROVAL">>, <<"APPROVED", "APPROVED">>, <<"DENIED", "DENIED">>}

\* A copy is what its row says, but for the one that Orion's stop ended alone.
Current(w, st) == w.st = st \/ (w.st = "STOPPED" /\ st = "ACTIVE")

SessionRows(s) ==
  /\ s \notin drawn => sessRow[s] = None /\ authRow[s] = None
  /\ sessRow[s] # "REQUESTED"
  /\ s \in refused => sessRow[s] = "DENIED"
  /\ s \in consented => sessRow[s] \in PastApproval
  /\ authRow[s] = "APPROVED" => sessRow[s] \in PastApproval
  /\ authRow[s] = "DENIED" => sessRow[s] = "DENIED"
  /\ authRow[s] # None => sessRow[s] # None

SessionCopies(s) ==
  /\ \A p \in Procs : mem[p][s] # None => Current(mem[p][s], sessRow[s])
  /\ \A p \in Procs :
       pc[p] = [op |-> "save", s |-> s] => <<auth[p][s], sessRow[s]>> \in Owed
  /\ \A p \in Procs : pc[p] = [op |-> "recover", s |-> s] => authRow[s] # None

\* With one command at a time, copies and rows agree on every session, so what a
\* command decides on its copy is a decision on the row.
SequentialInv ==
  /\ CoreInv
  /\ OneBusy
  /\ \A s \in Sessions : SessionRows(s) /\ SessionCopies(s)

\* What process q holds stays as it is.
Untouched(q) == mem'[q] = mem[q] /\ auth'[q] = auth[q] /\ pc'[q] = pc[q]

\* While process p takes a step, the others are quiet and stay so.
OthersQuiet(p) == \A q \in Procs \ {p} : Quiet(q) /\ Untouched(q)

LEMMA QuietStays ==
  ASSUME NEW q \in Procs, Quiet(q), Untouched(q)
  PROVE  Quiet(q)'
BY DEF Quiet, Untouched

LEMMA OneStaysBusy ==
  ASSUME NEW p \in Procs, OthersQuiet(p)
  PROVE  OneBusy'
<1>1. \A q \in Procs \ {p} : Quiet(q)'
  BY QuietStays DEF OthersQuiet
<1> QED BY <1>1 DEF OneBusy

\* A process that may begin finds the others quiet; one that owes an access is busy.
LEMMA OthersAreQuiet ==
  ASSUME Sequential, OneBusy, NEW p \in Procs, Free(p) \/ pc[p] # Idle
  PROVE  \A q \in Procs \ {p} : Quiet(q)
<1>1. CASE Free(p)
  BY <1>1 DEF Free, Alone, Sequential
<1>2. CASE pc[p] # Idle
  BY <1>2 DEF OneBusy, Quiet
<1> QED BY <1>1, <1>2

\* A step that leaves session t alone, or forgets what a process held of it.
LEMMA Elsewhere ==
  ASSUME NEW t \in Sessions, SessionRows(t), SessionCopies(t),
         sessRow'[t] = sessRow[t], authRow'[t] = authRow[t],
         t \in drawn' <=> t \in drawn, t \in consented' <=> t \in consented,
         t \in refused' <=> t \in refused,
         \A q \in Procs : mem'[q][t] = None \/ mem'[q][t] = mem[q][t],
         \A q \in Procs : pc'[q].s = t => pc'[q] = pc[q] /\ auth'[q][t] = auth[q][t]
  PROVE  (SessionRows(t) /\ SessionCopies(t))'
<1>1. SessionRows(t)'
  BY DEF SessionRows
<1>2. \A q \in Procs : mem'[q][t] # None => Current(mem'[q][t], sessRow'[t])
  BY DEF SessionCopies
<1>3. \A q \in Procs : \A op \in {"save", "recover"} :
        pc'[q] = [op |-> op, s |-> t] => pc[q] = [op |-> op, s |-> t] /\ auth'[q][t] = auth[q][t]
  BY DEF SessionCopies
<1> QED BY <1>1, <1>2, <1>3 DEF SessionCopies

\* A step of p that concerns session s alone.
OnlyAbout(p, s) ==
  /\ OthersQuiet(p)
  /\ pc'[p].s \in {None, s}
  /\ \A t \in Sessions \ {s} :
       /\ sessRow'[t] = sessRow[t] /\ authRow'[t] = authRow[t]
       /\ t \in drawn' <=> t \in drawn
       /\ t \in consented' <=> t \in consented
       /\ t \in refused' <=> t \in refused
       /\ mem'[p][t] = mem[p][t]

\* What p then holds of s.
HoldsWell(p, s) ==
  /\ mem[p][s] # None => Current(mem[p][s], sessRow[s])
  /\ pc[p].op = "save" => <<auth[p][s], sessRow[s]>> \in Owed
  /\ pc[p].op = "recover" => authRow[s] # None

\* What is left to show is what becomes of s.
LEMMA OneSession ==
  ASSUME SequentialInv, CoreInv', NEW p \in Procs, NEW s \in Sessions,
         OnlyAbout(p, s), SessionRows(s)', HoldsWell(p, s)'
  PROVE  SequentialInv'
<1> USE DEF OnlyAbout
<1>1. OneBusy'
  BY OneStaysBusy
<1>2. \A q \in Procs \ {p} : mem'[q][s] = None /\ pc'[q] = Idle
  BY DEF OthersQuiet, Untouched, Quiet
<1>3. SessionCopies(s)'
  BY <1>2 DEF SessionCopies, HoldsWell, Idle
<1>4. ASSUME NEW t \in Sessions \ {s} PROVE (SessionRows(t) /\ SessionCopies(t))'
  <2>1. \A q \in Procs : mem'[q][t] = None \/ mem'[q][t] = mem[q][t]
    BY DEF OthersQuiet, Untouched
  <2>2. \A q \in Procs : pc'[q].s = t => pc'[q] = pc[q] /\ auth'[q][t] = auth[q][t]
    BY DEF OthersQuiet, Untouched
  <2> QED BY <2>1, <2>2, Elsewhere DEF SequentialInv
<1> QED BY <1>1, <1>3, <1>4 DEF SequentialInv

\* One database write when none fails.
LEMMA SureWrite ==
  ASSUME Sequential, TypeOK, NEW s \in Sessions, NEW st, Persist(s, st)
  PROVE  /\ sessRow'[s] = st
         /\ \A t \in Sessions \ {s} : sessRow'[t] = sessRow[t]
BY DEF Persist, Sequential, TypeOK

LEMMA CopyPut ==
  ASSUME TypeOK, NEW p \in Procs, NEW s \in Sessions, NEW w, Put(p, s, w)
  PROVE  /\ mem'[p][s] = w
         /\ \A t \in Sessions \ {s} : mem'[p][t] = mem[p][t]
         /\ \A q \in Procs \ {p} : mem'[q] = mem[q]
BY DEF Put, TypeOK

\* What a copy that a command works on says is what the row says.
LEMMA CopyIsRow ==
  ASSUME SequentialInv, NEW p \in Procs, NEW s \in Sessions, mem[p][s] # None,
         mem[p][s].st # "STOPPED"
  PROVE  sessRow[s] = mem[p][s].st
BY DEF SequentialInv, SessionCopies, Current

\* Ending a session that may be ended.
LEMMA TearDownSequential ==
  ASSUME Sequential, SequentialInv, CoreInv', NEW p \in Procs, NEW s \in Sessions,
         NEW st \in {"STOPPED", "EXPIRED", "REVOKED"}, Free(p), TearDown(p, s, st)
  PROVE  SequentialInv'
<1>1. TypeOK /\ SessionRows(s) /\ pc[p] = Idle
  BY DEF SequentialInv, CoreInv, Free
<1>2. /\ mem[p][s] # None /\ Legal(mem[p][s].st, st)
      /\ Put(p, s, Ended(mem[p][s], st)) /\ Persist(s, st)
      /\ UNCHANGED <<authRow, auth, pc, drawn, consented, refused>>
  BY DEF TearDown
<1>3. OthersQuiet(p)
  BY <1>1, <1>2, OthersAreQuiet, CopyPut DEF OthersQuiet, Untouched, SequentialInv
<1>4. sessRow'[s] = st /\ \A t \in Sessions \ {s} : sessRow'[t] = sessRow[t]
  BY <1>1, <1>2, SureWrite
<1>5. mem'[p][s].st = st /\ \A t \in Sessions \ {s} : mem'[p][t] = mem[p][t]
  BY <1>1, <1>2, CopyPut DEF Ended
<1>6. /\ mem[p][s].st \in {"REQUESTED", "PENDING_CHILD_APPROVAL", "APPROVED", "ACTIVE"}
      /\ st # "EXPIRED" => mem[p][s].st \in {"APPROVED", "ACTIVE"}
  BY <1>2 DEF Legal, LegalTransitions
<1>7. sessRow[s] = mem[p][s].st
  BY <1>2, <1>6, CopyIsRow
<1>8. SessionRows(s)'
  BY <1>1, <1>2, <1>4, <1>6, <1>7 DEF SessionRows, PastApproval, Granted, ScreenSessionState
<1>9. HoldsWell(p, s)'
  BY <1>1, <1>2, <1>4, <1>5 DEF Current, HoldsWell, Idle
<1>10. OnlyAbout(p, s)
  BY <1>1, <1>2, <1>3, <1>4, <1>5 DEF OnlyAbout, Idle
<1> QED BY <1>8, <1>9, <1>10, OneSession

\* Each step keeps the sequential invariant: a session is decided on in its row.
LEMMA SequentialStep ==
  ASSUME Sequential, SequentialInv, CoreInv', [Next]_vars
  PROVE  SequentialInv'
<1> USE DEF rows
<1>0. TypeOK /\ \A s \in Sessions : SessionRows(s) /\ SessionCopies(s)
  BY DEF SequentialInv, CoreInv
<1>a. ASSUME NEW p \in Procs, Free(p) \/ pc[p] # Idle
      PROVE  \A q \in Procs \ {p} : Quiet(q)
  BY <1>a, OthersAreQuiet DEF SequentialInv
\* Steps that change no row and forget copies at most.
<1>b. ASSUME NEW p \in Procs, OthersQuiet(p),
             UNCHANGED <<sessRow, authRow, drawn, consented, refused>>,
             \A s \in Sessions : mem'[p][s] = None \/ mem'[p][s] = mem[p][s],
             pc'[p].s \in Sessions => pc'[p] = pc[p] /\ auth'[p] = auth[p]
      PROVE  SequentialInv'
  <2>1. ASSUME NEW t \in Sessions PROVE (SessionRows(t) /\ SessionCopies(t))'
    <3>1. \A q \in Procs : mem'[q][t] = None \/ mem'[q][t] = mem[q][t]
      BY <1>b DEF OthersQuiet, Untouched
    <3>2. \A q \in Procs : pc'[q].s = t => pc'[q] = pc[q] /\ auth'[q][t] = auth[q][t]
      BY <1>b DEF OthersQuiet, Untouched
    <3> QED BY <1>0, <1>b, <3>1, <3>2, Elsewhere
  <2> QED BY <1>b, <2>1, OneStaysBusy DEF SequentialInv
<1>1. ASSUME NEW p \in Procs, CheckTrust(p) \/ ExpireDue(p) PROVE SequentialInv'
  <2>1. OthersQuiet(p)
    BY <1>0, <1>1, <1>a DEF CheckTrust, ExpireDue, OthersQuiet, Untouched, TypeOK
  <2>2. pc'[p].s = None
    BY <1>0, <1>1 DEF CheckTrust, ExpireDue, Free, Idle, TypeOK
  <2> QED BY <1>1, <1>b, <2>1, <2>2 DEF CheckTrust, ExpireDue
<1>2. ASSUME NEW p \in Procs, LoadAuth(p) \/ Exit(p) PROVE SequentialInv'
  <2>1. pc[p] # Idle \/ ~Quiet(p)
    BY <1>2 DEF LoadAuth, Exit, Idle
  <2>2. \A q \in Procs \ {p} : Quiet(q)
    BY <2>1 DEF SequentialInv, OneBusy, Quiet
  <2>3. OthersQuiet(p)
    BY <1>0, <1>2, <2>2 DEF LoadAuth, Exit, OthersQuiet, Untouched, TypeOK
  <2>4. pc'[p].s = None /\ \A s \in Sessions : mem'[p][s] = None \/ mem'[p][s] = mem[p][s]
    BY <1>0, <1>2 DEF LoadAuth, Exit, Idle, TypeOK
  <2> QED BY <1>2, <1>b, <2>3, <2>4 DEF LoadAuth, Exit
<1>3. ASSUME NEW p \in Procs, SaveAuth(p) PROVE SequentialInv'
  <2>1. PICK s \in Sessions : pc[p] = [op |-> "save", s |-> s]
    BY <1>0, <1>3 DEF SaveAuth, TypeOK, Pc
  <2>2. OthersQuiet(p)
    BY <1>0, <1>3, <1>a, <2>1 DEF SaveAuth, OthersQuiet, Untouched, TypeOK, Idle
  <2>3. authRow'[s] = auth[p][s] /\ \A t \in Sessions \ {s} : authRow'[t] = authRow[t]
    BY <1>0, <1>3, <2>1 DEF SaveAuth, TypeOK, Sequential
  <2>4. <<auth[p][s], sessRow[s]>> \in Owed
    BY <1>0, <2>1 DEF SessionCopies
  <2>5. pc'[p] = Idle /\ UNCHANGED <<sessRow, mem, drawn, consented, refused>>
    BY <1>0, <1>3 DEF SaveAuth, TypeOK
  <2>6. SessionRows(s)'
    BY <1>0, <2>1, <2>3, <2>4, <2>5 DEF SessionRows, Owed, PastApproval, Granted, ScreenSessionState,
       AuthorizationDecision
  <2>7. mem'[p][s] # None => Current(mem'[p][s], sessRow'[s])
    BY <1>0, <2>1, <2>5 DEF SessionCopies
  <2>8. OnlyAbout(p, s)
    BY <2>1, <2>2, <2>3, <2>5, <2>6, <2>7 DEF OnlyAbout, Idle
  <2>9. HoldsWell(p, s)'
    BY <2>1, <2>2, <2>3, <2>5, <2>6, <2>7 DEF HoldsWell, Idle, Owed
  <2> QED BY <2>6, <2>8, <2>9, OneSession
<1>4. ASSUME NEW p \in Procs, RecoverWrite(p) PROVE SequentialInv'
  <2>1. PICK s \in Sessions : pc[p] = [op |-> "recover", s |-> s]
    BY <1>0, <1>4 DEF RecoverWrite, TypeOK, Pc
  <2>2. OthersQuiet(p)
    BY <1>0, <1>4, <1>a, <2>1 DEF RecoverWrite, OthersQuiet, Untouched, TypeOK, Idle
  <2>3. authRow'[s] = "EXPIRED" /\ \A t \in Sessions \ {s} : authRow'[t] = authRow[t]
    BY <1>0, <1>4, <2>1 DEF RecoverWrite, TypeOK
  <2>4. authRow[s] # None
    BY <1>0, <2>1 DEF SessionCopies
  <2>5. pc'[p] = Idle /\ UNCHANGED <<sessRow, mem, drawn, consented, refused>>
    BY <1>0, <1>4 DEF RecoverWrite, TypeOK
  <2>6. SessionRows(s)'
    BY <1>0, <2>1, <2>3, <2>4, <2>5 DEF SessionRows, AuthorizationDecision
  <2>7. mem'[p][s] # None => Current(mem'[p][s], sessRow'[s])
    BY <1>0, <2>1, <2>5 DEF SessionCopies
  <2>8. OnlyAbout(p, s)
    BY <2>1, <2>2, <2>3, <2>5, <2>6, <2>7 DEF OnlyAbout, Idle
  <2>9. HoldsWell(p, s)'
    BY <2>1, <2>2, <2>3, <2>5, <2>6, <2>7 DEF HoldsWell, Idle, Owed
  <2> QED BY <2>6, <2>8, <2>9, OneSession
<1>5. ASSUME NEW p \in Procs, NEW s \in Sessions, RequestView(p, s) PROVE SequentialInv'
  <2>1. OthersQuiet(p)
    <3>1. \A q \in Procs \ {p} : mem'[q] = mem[q]
      BY <1>0, <1>5, CopyPut DEF RequestView
    <3>2. \A q \in Procs \ {p} : auth'[q] = auth[q] /\ pc'[q] = pc[q]
      BY <1>0, <1>5 DEF RequestView, TypeOK
    <3>3. \A q \in Procs \ {p} : Quiet(q)
      BY <1>0, <1>5, <1>a DEF RequestView, Idle
    <3> QED BY <3>1, <3>2, <3>3 DEF OthersQuiet, Untouched
  <2>2. /\ sessRow'[s] = "PENDING_CHILD_APPROVAL"
        /\ \A t \in Sessions \ {s} : sessRow'[t] = sessRow[t]
    BY <1>0, <1>5, SureWrite DEF RequestView
  <2>3. mem'[p][s] = Requested /\ \A t \in Sessions \ {s} : mem'[p][t] = mem[p][t]
    BY <1>0, <1>5, CopyPut DEF RequestView
  <2>4. /\ authRow[s] = None /\ s \notin refused /\ s \notin consented
        /\ drawn' = drawn \cup {s} /\ UNCHANGED <<authRow, consented, refused>>
    BY <1>0, <1>5 DEF RequestView, SessionRows, PastApproval, Granted, ScreenSessionState
  <2>5. SessionRows(s)'
    BY <2>2, <2>4 DEF SessionRows, AuthorizationDecision
  <2>6. \/ pc'[p] = Idle
        \/ pc'[p] = [op |-> "save", s |-> s] /\ auth'[p][s] = "PENDING"
    BY <1>0, <1>5 DEF RequestView, TypeOK
  <2>7. Current(mem'[p][s], sessRow'[s])
    BY <2>2, <2>3 DEF Current, Requested
  <2>8. OnlyAbout(p, s)
    BY <2>1, <2>2, <2>3, <2>4, <2>5, <2>6, <2>7 DEF OnlyAbout, Idle
  <2>9. HoldsWell(p, s)'
    BY <2>1, <2>2, <2>3, <2>4, <2>5, <2>6, <2>7 DEF HoldsWell, Idle, Owed
  <2> QED BY <2>5, <2>8, <2>9, OneSession
<1>6. ASSUME NEW p \in Procs, NEW s \in Sessions, Rehydrate(p, s) PROVE SequentialInv'
  <2>1. OthersQuiet(p)
    BY <1>0, <1>6, <1>a, CopyPut DEF Rehydrate, OthersQuiet, Untouched, TypeOK
  <2>2. mem'[p][s] = Wrap(sessRow[s]) /\ \A t \in Sessions \ {s} : mem'[p][t] = mem[p][t]
    BY <1>0, <1>6, CopyPut DEF Rehydrate
  <2>3. pc'[p] = [op |-> "load", s |-> s] /\ UNCHANGED <<rows, drawn, consented, refused>>
    BY <1>0, <1>6 DEF Rehydrate, TypeOK
  <2>4. SessionRows(s)'
    BY <1>0, <2>3 DEF SessionRows
  <2>5. Current(mem'[p][s], sessRow'[s])
    BY <2>2, <2>3 DEF Current, Wrap
  <2>6. OnlyAbout(p, s)
    BY <2>1, <2>2, <2>3, <2>4, <2>5 DEF OnlyAbout, Idle
  <2>7. HoldsWell(p, s)'
    BY <2>1, <2>2, <2>3, <2>4, <2>5 DEF HoldsWell, Idle, Owed
  <2> QED BY <2>4, <2>6, <2>7, OneSession
<1>7. ASSUME NEW p \in Procs, NEW s \in Sessions, Approve(p, s) PROVE SequentialInv'
  <2>1. Free(p) /\ pc[p] = Idle /\ \A q \in Procs \ {p} : Quiet(q)
    BY <1>7, <1>a DEF Approve, Free
  <2>2. CASE Legal(mem[p][s].st, "APPROVED")
    <3>1. /\ Put(p, s, Approved(mem[p][s])) /\ Persist(s, "APPROVED")
          /\ pc' = [pc EXCEPT ![p] = [op |-> "save", s |-> s]]
          /\ auth' = [auth EXCEPT ![p][s] = "APPROVED"]
          /\ consented' = consented \cup {s} /\ UNCHANGED <<authRow, drawn, refused>>
          /\ mem[p][s] # None
      BY <1>7, <2>2 DEF Approve
    <3>2. OthersQuiet(p)
      BY <1>0, <2>1, <3>1, CopyPut DEF OthersQuiet, Untouched, TypeOK
    <3>3. sessRow'[s] = "APPROVED" /\ \A t \in Sessions \ {s} : sessRow'[t] = sessRow[t]
      BY <1>0, <3>1, SureWrite
    <3>4. /\ mem'[p][s] = Approved(mem[p][s])
          /\ \A t \in Sessions \ {s} : mem'[p][t] = mem[p][t]
      BY <1>0, <3>1, CopyPut
    <3>5. mem[p][s] \in Wrapper
      BY <1>0, <3>1 DEF TypeOK
    <3>6. Current(mem'[p][s], sessRow'[s])
      BY <3>3, <3>4, <3>5 DEF Current, Approved, Wrapper
    <3>7. mem[p][s].st = "PENDING_CHILD_APPROVAL"
      BY <2>2 DEF Legal, LegalTransitions
    <3>8. sessRow[s] = "PENDING_CHILD_APPROVAL"
      BY <3>1, <3>7, CopyIsRow
    <3>9. SessionRows(s)'
      BY <1>0, <3>1, <3>3, <3>8 DEF SessionRows, PastApproval, Granted, ScreenSessionState
    <3>10. pc'[p] = [op |-> "save", s |-> s] /\ auth'[p][s] = "APPROVED"
      BY <1>0, <3>1 DEF TypeOK
    <3>11. OnlyAbout(p, s)
      BY <3>1, <3>2, <3>3, <3>4, <3>6, <3>9, <3>10 DEF OnlyAbout, Idle
    <3>12. HoldsWell(p, s)'
      BY <3>1, <3>2, <3>3, <3>4, <3>6, <3>9, <3>10 DEF HoldsWell, Idle, Owed
    <3> QED BY <3>9, <3>11, <3>12, OneSession
  <2>3. CASE ~Legal(mem[p][s].st, "APPROVED")
    <3>1. /\ UNCHANGED <<sessRow, mem, pc, consented, authRow, drawn, refused>>
          /\ auth' = [auth EXCEPT ![p][s] = "APPROVED"]
      BY <1>7, <2>3 DEF Approve
    <3>2. OthersQuiet(p)
      BY <1>0, <2>1, <3>1 DEF OthersQuiet, Untouched, TypeOK
    <3> QED BY <1>b, <2>1, <3>1, <3>2 DEF Idle
  <2> QED BY <2>2, <2>3
<1>8. ASSUME NEW p \in Procs, NEW s \in Sessions, Deny(p, s) PROVE SequentialInv'
  <2>1. Free(p) /\ pc[p] = Idle /\ \A q \in Procs \ {p} : Quiet(q)
    BY <1>8, <1>a DEF Deny, Free
  <2>2. CASE Legal(mem[p][s].st, "DENIED")
    <3>1. /\ Put(p, s, Denied(mem[p][s])) /\ Persist(s, "DENIED")
          /\ pc' = [pc EXCEPT ![p] = [op |-> "save", s |-> s]]
          /\ auth' = [auth EXCEPT ![p][s] = "DENIED"]
          /\ refused' = refused \cup {s} /\ UNCHANGED <<authRow, drawn, consented>>
          /\ mem[p][s] # None
      BY <1>8, <2>2 DEF Deny
    <3>2. OthersQuiet(p)
      BY <1>0, <2>1, <3>1, CopyPut DEF OthersQuiet, Untouched, TypeOK
    <3>3. sessRow'[s] = "DENIED" /\ \A t \in Sessions \ {s} : sessRow'[t] = sessRow[t]
      BY <1>0, <3>1, SureWrite
    <3>4. /\ mem'[p][s] = Denied(mem[p][s])
          /\ \A t \in Sessions \ {s} : mem'[p][t] = mem[p][t]
      BY <1>0, <3>1, CopyPut
    <3>5. Current(mem'[p][s], sessRow'[s])
      BY <3>3, <3>4 DEF Current, Denied
    <3>6. mem[p][s].st \in {"REQUESTED", "PENDING_CHILD_APPROVAL"}
      BY <2>2 DEF Legal, LegalTransitions
    <3>7. sessRow[s] = "PENDING_CHILD_APPROVAL"
      BY <1>0, <3>1, <3>6, CopyIsRow DEF SessionRows
    <3>8. s \in drawn
      BY <1>0, <3>7 DEF SessionRows, ScreenSessionState
    <3>9. SessionRows(s)'
      BY <1>0, <3>1, <3>3, <3>7, <3>8 DEF SessionRows, PastApproval, Granted, ScreenSessionState
    <3>10. pc'[p] = [op |-> "save", s |-> s] /\ auth'[p][s] = "DENIED"
      BY <1>0, <3>1 DEF TypeOK
    <3>11. OnlyAbout(p, s)
      BY <3>1, <3>2, <3>3, <3>4, <3>5, <3>9, <3>10 DEF OnlyAbout, Idle
    <3>12. HoldsWell(p, s)'
      BY <3>1, <3>2, <3>3, <3>4, <3>5, <3>9, <3>10 DEF HoldsWell, Idle, Owed
    <3> QED BY <3>9, <3>11, <3>12, OneSession
  <2>3. CASE ~Legal(mem[p][s].st, "DENIED")
    <3>1. /\ UNCHANGED <<sessRow, mem, pc, consented, authRow, drawn, refused>>
          /\ auth' = [auth EXCEPT ![p][s] = "DENIED"]
      BY <1>8, <2>3 DEF Deny
    <3>2. OthersQuiet(p)
      BY <1>0, <2>1, <3>1 DEF OthersQuiet, Untouched, TypeOK
    <3> QED BY <1>b, <2>1, <3>1, <3>2 DEF Idle
  <2> QED BY <2>2, <2>3
<1>9. ASSUME NEW p \in Procs, NEW s \in Sessions,
             DecideTooLate(p, s) \/ DecideAgain(p, s) \/ RevokeAuthorization(p, s)
      PROVE  SequentialInv'
  <2>1. OthersQuiet(p) /\ pc[p] = Idle
    BY <1>0, <1>9, <1>a DEF DecideTooLate, DecideAgain, RevokeAuthorization, Free,
       OthersQuiet, Untouched, TypeOK
  <2> QED BY <1>9, <1>b, <2>1 DEF DecideTooLate, DecideAgain, RevokeAuthorization, Idle
<1>10. ASSUME NEW p \in Procs, NEW s \in Sessions, StartSession(p, s) PROVE SequentialInv'
  <2> DEFINE w == [st |-> "ACTIVE", on |-> TRUE, buf |-> mem[p][s].buf]
  <2>1. /\ Free(p) /\ pc[p] = Idle /\ mem[p][s] # None /\ mem[p][s].st = "APPROVED"
        /\ Put(p, s, w) /\ Persist(s, "ACTIVE")
        /\ UNCHANGED <<authRow, auth, pc, drawn, consented, refused>>
    BY <1>10 DEF StartSession, Startable, Free
  <2>2. mem'[p][s] = w /\ \A t \in Sessions \ {s} : mem'[p][t] = mem[p][t]
    BY <1>0, <2>1, CopyPut
  <2>3. OthersQuiet(p)
    BY <1>0, <1>a, <2>1, CopyPut DEF OthersQuiet, Untouched
  <2>4. sessRow'[s] = "ACTIVE" /\ \A t \in Sessions \ {s} : sessRow'[t] = sessRow[t]
    BY <1>0, <2>1, SureWrite
  <2>5. sessRow[s] = "APPROVED"
    BY <2>1, CopyIsRow
  <2>6. SessionRows(s)'
    BY <1>0, <2>1, <2>4, <2>5 DEF SessionRows, PastApproval, Granted, ScreenSessionState
  <2>7. Current(mem'[p][s], sessRow'[s])
    BY <2>2, <2>4 DEF Current
  <2>8. OnlyAbout(p, s)
    BY <2>1, <2>2, <2>3, <2>4, <2>6, <2>7 DEF OnlyAbout, Idle
  <2>9. HoldsWell(p, s)'
    BY <2>1, <2>2, <2>3, <2>4, <2>6, <2>7 DEF HoldsWell, Idle, Owed
  <2> QED BY <2>6, <2>8, <2>9, OneSession
<1>11. ASSUME NEW p \in Procs, NEW s \in Sessions, IngestFrame(p, s) PROVE SequentialInv'
  <2> DEFINE w == [mem[p][s] EXCEPT !.buf = @ + 1]
  <2>1. /\ Free(p) /\ pc[p] = Idle /\ mem[p][s] # None /\ mem[p][s].st = "ACTIVE"
        /\ Put(p, s, w) /\ Persist(s, "ACTIVE")
        /\ UNCHANGED <<authRow, auth, pc, drawn, consented, refused>>
    BY <1>11 DEF IngestFrame, Holds, Free
  <2>2. mem'[p][s] = w /\ \A t \in Sessions \ {s} : mem'[p][t] = mem[p][t]
    BY <1>0, <2>1, CopyPut
  <2>3. OthersQuiet(p)
    BY <1>0, <1>a, <2>1, CopyPut DEF OthersQuiet, Untouched
  <2>4. sessRow'[s] = "ACTIVE" /\ \A t \in Sessions \ {s} : sessRow'[t] = sessRow[t]
    BY <1>0, <2>1, SureWrite
  <2>5. sessRow[s] = "ACTIVE"
    BY <2>1, CopyIsRow
  <2>6. SessionRows(s)'
    BY <1>0, <2>1, <2>4, <2>5 DEF SessionRows
  <2>7. mem[p][s] \in Wrapper
    BY <1>0, <2>1 DEF TypeOK
  <2>8. Current(mem'[p][s], sessRow'[s])
    BY <2>1, <2>2, <2>4, <2>7 DEF Current, Wrapper
  <2>9. OnlyAbout(p, s)
    BY <2>1, <2>2, <2>3, <2>4, <2>6, <2>8 DEF OnlyAbout, Idle
  <2>10. HoldsWell(p, s)'
    BY <2>1, <2>2, <2>3, <2>4, <2>6, <2>8 DEF HoldsWell, Idle, Owed
  <2> QED BY <2>6, <2>9, <2>10, OneSession
<1>12. ASSUME NEW p \in Procs, NEW s \in Sessions, DrainFrames(p, s) PROVE SequentialInv'
  <2>1. /\ Free(p) /\ pc[p] = Idle /\ mem[p][s] # None
        /\ Put(p, s, [mem[p][s] EXCEPT !.buf = 0])
        /\ UNCHANGED <<rows, auth, pc, drawn, consented, refused>>
    BY <1>12 DEF DrainFrames, Free
  <2>2. /\ mem'[p][s] = [mem[p][s] EXCEPT !.buf = 0]
        /\ \A t \in Sessions \ {s} : mem'[p][t] = mem[p][t]
    BY <1>0, <2>1, CopyPut
  <2>3. OthersQuiet(p)
    BY <1>0, <1>a, <2>1, CopyPut DEF OthersQuiet, Untouched
  <2>4. mem[p][s] \in Wrapper /\ Current(mem[p][s], sessRow[s]) /\ SessionRows(s)'
    BY <1>0, <2>1 DEF TypeOK, SessionCopies, SessionRows
  <2>5. Current(mem'[p][s], sessRow'[s])
    BY <2>1, <2>2, <2>4 DEF Current, Wrapper
  <2>6. OnlyAbout(p, s)
    BY <2>1, <2>2, <2>3, <2>4, <2>5 DEF OnlyAbout, Idle
  <2>7. HoldsWell(p, s)'
    BY <2>1, <2>2, <2>3, <2>4, <2>5 DEF HoldsWell, Idle, Owed
  <2> QED BY <2>4, <2>6, <2>7, OneSession
<1>13. ASSUME NEW p \in Procs, NEW s \in Sessions,
              StopSession(p, s) \/ RevokeSession(p, s) \/ CheckLifecycle(p, s)
       PROVE  SequentialInv'
  BY <1>13, TearDownSequential DEF StopSession, RevokeSession, CheckLifecycle
<1>14. ASSUME NEW p \in Procs, NEW s \in Sessions, OrionStop(p, s) PROVE SequentialInv'
  <2>1. /\ Free(p) /\ pc[p] = Idle /\ mem[p][s] # None /\ mem[p][s].st = "ACTIVE"
        /\ Put(p, s, Ended(mem[p][s], "STOPPED"))
        /\ UNCHANGED <<rows, auth, pc, drawn, consented, refused>>
    BY <1>14 DEF OrionStop, Holds, Free
  <2>2. mem'[p][s].st = "STOPPED" /\ \A t \in Sessions \ {s} : mem'[p][t] = mem[p][t]
    BY <1>0, <2>1, CopyPut DEF Ended
  <2>3. OthersQuiet(p)
    BY <1>0, <1>a, <2>1, CopyPut DEF OthersQuiet, Untouched
  <2>4. sessRow[s] = "ACTIVE" /\ SessionRows(s)'
    BY <1>0, <2>1, CopyIsRow DEF SessionRows
  <2>5. Current(mem'[p][s], sessRow'[s])
    BY <2>1, <2>2, <2>4 DEF Current
  <2>6. OnlyAbout(p, s)
    BY <2>1, <2>2, <2>3, <2>4, <2>5 DEF OnlyAbout, Idle
  <2>7. HoldsWell(p, s)'
    BY <2>1, <2>2, <2>3, <2>4, <2>5 DEF HoldsWell, Idle, Owed
  <2> QED BY <2>4, <2>6, <2>7, OneSession
<1>15. ASSUME NEW p \in Procs, NEW s \in Sessions, RecoverSelect(p, s) PROVE SequentialInv'
  <2>1. /\ pc'[p] = [op |-> "recover", s |-> s] /\ authRow[s] = "APPROVED"
        /\ UNCHANGED <<rows, mem, auth, drawn, consented, refused>>
    BY <1>0, <1>15 DEF RecoverSelect, TypeOK
  <2>2. OthersQuiet(p)
    BY <1>0, <1>15, <1>a DEF RecoverSelect, OthersQuiet, Untouched, TypeOK
  <2>3. /\ SessionRows(s)' /\ authRow'[s] # None
        /\ mem'[p][s] # None => Current(mem'[p][s], sessRow'[s])
    BY <1>0, <2>1 DEF SessionRows, SessionCopies, AuthorizationDecision
  <2>4. OnlyAbout(p, s)
    BY <2>1, <2>2, <2>3 DEF OnlyAbout, Idle
  <2>5. HoldsWell(p, s)'
    BY <2>1, <2>2, <2>3 DEF HoldsWell, Idle, Owed
  <2> QED BY <2>3, <2>4, <2>5, OneSession
<1>16. ASSUME UNCHANGED <<rows, mem, auth, pc, drawn, consented, refused>>
       PROVE  SequentialInv'
  BY <1>0, <1>16 DEF SequentialInv, OneBusy, Quiet, SessionRows, SessionCopies
<1>17. ASSUME NEW s \in Sessions, Elapse(s) PROVE SequentialInv'
  BY <1>16, <1>17 DEF Elapse
<1>18. CASE ChangeTrust \/ UNCHANGED vars
  BY <1>16, <1>18 DEF ChangeTrust, vars
<1> QED
  BY <1>1, <1>2, <1>3, <1>4, <1>5, <1>6, <1>7, <1>8, <1>9, <1>10, <1>11, <1>12, <1>13,
     <1>14, <1>15, <1>17, <1>18
  DEF Next, ScreenRequest, ScreenCommand, WebConsole, Embedded, Reconcile

LEMMA SequentialInvariant == ASSUME Sequential PROVE Spec => []SequentialInv
<1>1. Init => SequentialInv
  <2>1. Init => CoreInv
    BY DEF Init, CoreInv, TypeOK, Idle, Pc, Elapsed, IndicatorShowsActive, ViewNeedsConsent,
           FramesOnlyWhileActive, Granted, ScreenSessionState
  <2>2. Init => OneBusy
    BY DEF Init, OneBusy, Quiet
  <2>3. Init => \A s \in Sessions : SessionRows(s) /\ SessionCopies(s)
    BY DEF Init, SessionRows, SessionCopies, Idle, PastApproval, Granted, ScreenSessionState,
           AuthorizationDecision
  <2> QED BY <2>1, <2>2, <2>3 DEF SequentialInv
<1>2. SequentialInv /\ CoreInv' /\ [Next]_vars => SequentialInv'
  BY SequentialStep
<1> QED BY <1>1, <1>2, CoreInvariant, PTL DEF Spec

\* The child's answer is one answer: no session is both approved and denied, when
\* commands run one after the other and may be killed between their commits
\* (controller.py 244-248, 276-280).
THEOREM OneDecisionTheorem == ASSUME Sequential PROVE Spec => []OneDecision
<1>1. SequentialInv => OneDecision
  <2> SUFFICES ASSUME SequentialInv, NEW s \in consented, s \in refused PROVE FALSE
    BY DEF OneDecision
  <2>1. s \in Sessions
    BY DEF SequentialInv, CoreInv, TypeOK
  <2> QED BY <2>1 DEF SequentialInv, SessionRows, PastApproval, Granted
<1> QED BY <1>1, SequentialInvariant, PTL

\* The authorization row never claims a decision the session row does not carry
\* (controller.py 205, 246, 278).
THEOREM DecisionRowsTheorem == ASSUME Sequential PROVE Spec => []DecisionRowsAgree
<1>1. SequentialInv => DecisionRowsAgree
  BY DEF SequentialInv, SessionRows, PastApproval, Granted, DecisionRowsAgree
<1> QED BY <1>1, SequentialInvariant, PTL

-----------------------------------------------------------------------------
(* The promise to the child, step by step.                                 *)

Phases == [s \in Sessions |-> Phase(sessRow[s])]
Shows(p, s) == mem[p][s] # None /\ mem[p][s].buf > 0
Showing == {s \in Sessions : \E p \in Procs : Shows(p, s)}

\* How the states of a row appear in the promise.
LEMMA PhaseIs ==
  /\ Phase(None) = "none"
  /\ Phase("REQUESTED") = "none"
  /\ Phase("PENDING_CHILD_APPROVAL") = "asked"
  /\ Phase("APPROVED") = "granted"
  /\ Phase("ACTIVE") = "live"
  /\ \A st \in Terminal : Phase(st) = "over"
BY DEF Phase, Terminal, ScreenSessionState

\* One row written is one phase changed.
LEMMA PhasesChange ==
  ASSUME NEW s \in Sessions, NEW st, sessRow'[s] = st,
         \A t \in Sessions \ {s} : sessRow'[t] = sessRow[t]
  PROVE  Phases' = [Phases EXCEPT ![s] = Phase(st)]
BY DEF Phases

LEMMA PhasesStay ==
  ASSUME sessRow' = sessRow
  PROVE  Phases' = Phases
BY DEF Phases

\* The state functions the promise is told of.
LEMMA PromiseIsTold ==
  /\ Consent!vars = <<Phases, consented, Showing>>
  /\ Consent!vars' = <<Phases', consented', Showing'>>
BY DEF Consent!vars, Phases, Showing, Shows

LEMMA ShowingStays ==
  ASSUME mem' = mem
  PROVE  Showing' = Showing
BY DEF Showing, Shows

\* When the others hold nothing, one copy decides whether its session shows.
LEMMA ShowingChanges ==
  ASSUME NEW p \in Procs, NEW s \in Sessions,
         \A q \in Procs \ {p} : Quiet(q) /\ mem'[q] = mem[q],
         \A t \in Sessions \ {s} : mem'[p][t] = mem[p][t]
  PROVE  /\ Shows(p, s)' => Showing' = Showing \cup {s}
         /\ ~Shows(p, s)' => Showing' = Showing \ {s}
         /\ (Shows(p, s)' <=> Shows(p, s)) => Showing' = Showing
<1>1. \A q \in Procs \ {p} : ~Shows(q, s) /\ ~Shows(q, s)'
  BY DEF Quiet, Shows
<1>2. \A q \in Procs, t \in Sessions : t # s => (Shows(q, t)' <=> Shows(q, t))
  BY DEF Shows
<1>3. \A t \in Sessions : t # s => (t \in Showing' <=> t \in Showing)
  BY <1>2 DEF Showing
<1>4. (s \in Showing' <=> Shows(p, s)') /\ (s \in Showing <=> Shows(p, s))
  BY <1>1 DEF Showing
<1>5. Showing \subseteq Sessions /\ Showing' \subseteq Sessions
  BY DEF Showing
<1> QED BY <1>3, <1>4, <1>5

\* A step of the promise, with the disjuncts of ScreenConsent's Next spelled out.
ConsentStep ==
  \/ \E S \in SUBSET Sessions :
       Phases' = Phases /\ consented' = consented /\ Showing' = Showing \ S
  \/ \E s \in Sessions :
       \/ /\ Phases[s] = "none" /\ Phases' = [Phases EXCEPT ![s] = "asked"]
          /\ consented' = consented /\ Showing' = Showing
       \/ /\ Phases[s] = "asked" /\ Phases' = [Phases EXCEPT ![s] = "granted"]
          /\ consented' = consented \cup {s} /\ Showing' = Showing
       \/ /\ Phases[s] = "granted" /\ s \in consented
          /\ Phases' = [Phases EXCEPT ![s] = "live"]
          /\ consented' = consented /\ Showing' = Showing
       \/ /\ Phases[s] \in {"asked", "granted", "live"}
          /\ Phases' = [Phases EXCEPT ![s] = "over"]
          /\ consented' = consented /\ Showing' = Showing \ {s}
       \/ /\ Phases[s] = "live" /\ Phases' = Phases
          /\ consented' = consented /\ Showing' = Showing \cup {s}

LEMMA NothingShown ==
  ASSUME UNCHANGED <<sessRow, mem, consented>>
  PROVE  ConsentStep
<1>1. Phases' = Phases /\ Showing' = Showing \ {} /\ {} \in SUBSET Sessions
  BY PhasesStay, ShowingStays
<1> QED BY <1>1 DEF ConsentStep

\* A session that is torn down is over, and shows nothing more.
LEMMA TearDownEnds ==
  ASSUME Sequential, SequentialInv, NEW p \in Procs, NEW s \in Sessions,
         NEW st \in {"STOPPED", "EXPIRED", "REVOKED"}, Free(p), TearDown(p, s, st)
  PROVE  ConsentStep
<1>1. TypeOK /\ \A q \in Procs \ {p} : Quiet(q)
  BY OthersAreQuiet DEF SequentialInv, CoreInv
<1>2. /\ mem[p][s] # None /\ Legal(mem[p][s].st, st) /\ consented' = consented
      /\ Put(p, s, Ended(mem[p][s], st)) /\ Persist(s, st)
  BY DEF TearDown
<1>3. /\ mem'[p][s].buf = 0 /\ \A t \in Sessions \ {s} : mem'[p][t] = mem[p][t]
      /\ \A q \in Procs \ {p} : mem'[q] = mem[q]
  BY <1>1, <1>2, CopyPut DEF Ended
<1>4. Showing' = Showing \ {s}
  BY <1>1, <1>3, ShowingChanges DEF Shows
<1>5. sessRow'[s] = st /\ \A t \in Sessions \ {s} : sessRow'[t] = sessRow[t]
  BY <1>1, <1>2, SureWrite
<1>6. Phases' = [Phases EXCEPT ![s] = "over"]
  BY <1>5, PhasesChange, PhaseIs DEF Terminal
<1>7. /\ mem[p][s].st \in {"REQUESTED", "PENDING_CHILD_APPROVAL", "APPROVED", "ACTIVE"}
      /\ sessRow[s] # "REQUESTED"
  BY <1>2 DEF Legal, LegalTransitions, SequentialInv, SessionRows
<1>8. sessRow[s] \in {"PENDING_CHILD_APPROVAL", "APPROVED", "ACTIVE"}
  BY <1>2, <1>7, CopyIsRow
<1>9. Phases[s] \in {"asked", "granted", "live"}
  BY <1>8, PhaseIs DEF Phases
<1> QED BY <1>2, <1>4, <1>6, <1>9 DEF ConsentStep

\* Every step of one command at a time is a step of the promise, or none.
LEMMA SequentialKeepsConsent ==
  ASSUME Sequential, SequentialInv, [Next]_vars
  PROVE  ConsentStep
<1> USE DEF rows
<1>0. TypeOK /\ CoreInv /\ \A s \in Sessions : SessionRows(s) /\ SessionCopies(s)
  BY DEF SequentialInv, CoreInv
<1>a. ASSUME NEW p \in Procs, Free(p) \/ pc[p] # Idle
      PROVE  \A q \in Procs \ {p} : Quiet(q)
  BY <1>a, OthersAreQuiet DEF SequentialInv
\* What one copy written by p means for what shows.
<1>b. ASSUME NEW p \in Procs, NEW s \in Sessions, NEW w \in Wrapper,
             Free(p) \/ pc[p] # Idle, Put(p, s, w)
      PROVE  /\ w.buf > 0 => Showing' = Showing \cup {s}
             /\ ~(w.buf > 0) => Showing' = Showing \ {s}
             /\ mem[p][s] # None /\ (w.buf > 0 <=> mem[p][s].buf > 0) => Showing' = Showing
  <2>1. /\ mem'[p][s] = w /\ \A t \in Sessions \ {s} : mem'[p][t] = mem[p][t]
        /\ \A q \in Procs \ {p} : Quiet(q) /\ mem'[q] = mem[q]
    BY <1>0, <1>a, <1>b, CopyPut
  <2>2. w # None
    BY DEF Wrapper
  <2> QED BY <1>b, <2>1, <2>2, ShowingChanges DEF Shows
<1>1. ASSUME NEW p \in Procs,
             \/ CheckTrust(p) \/ ExpireDue(p) \/ LoadAuth(p) \/ SaveAuth(p) \/ RecoverWrite(p)
             \/ \E s \in Sessions :
                  \/ DecideTooLate(p, s) \/ DecideAgain(p, s) \/ RevokeAuthorization(p, s)
                  \/ RecoverSelect(p, s)
      PROVE  ConsentStep
  BY <1>1, NothingShown DEF CheckTrust, ExpireDue, LoadAuth, SaveAuth, RecoverWrite,
     DecideTooLate, DecideAgain, RevokeAuthorization, RecoverSelect
<1>2. ASSUME NEW p \in Procs, Exit(p) PROVE ConsentStep
  <2>1. \A q \in Procs, t \in Sessions : mem'[q][t] = None \/ mem'[q][t] = mem[q][t]
    BY <1>0, <1>2 DEF Exit, TypeOK
  <2>2. Showing' \subseteq Showing /\ Showing \subseteq Sessions
    BY <2>1 DEF Showing, Shows
  <2>3. Showing' = Showing \ (Showing \ Showing') /\ Showing \ Showing' \in SUBSET Sessions
    BY <2>2
  <2>4. Phases' = Phases /\ consented' = consented
    BY <1>2, PhasesStay DEF Exit
  <2> QED BY <2>3, <2>4 DEF ConsentStep
<1>3. ASSUME NEW p \in Procs, NEW s \in Sessions, RequestView(p, s) PROVE ConsentStep
  <2>1. /\ pc[p] # Idle /\ Put(p, s, Requested) /\ Persist(s, "PENDING_CHILD_APPROVAL")
        /\ s \notin drawn /\ consented' = consented
    BY <1>3 DEF RequestView, Idle
  <2>2. sessRow[s] = None /\ \A q \in Procs : mem[q][s] = None
    <3>1. sessRow[s] = None
      BY <1>0, <2>1 DEF SessionRows
    <3>2. \A w \in Wrapper : w.st \in ScreenSessionState
      BY DEF Wrapper
    <3>3. \A q \in Procs : mem[q][s] \in Wrapper \cup {None}
      BY <1>0 DEF TypeOK
    <3> QED BY <1>0, <3>1, <3>2, <3>3 DEF SessionCopies, Current, ScreenSessionState
  <2>3. Requested \in Wrapper /\ ~(Requested.buf > 0)
    BY DEF Requested, Wrapper, ScreenSessionState
  <2>4. Showing' = Showing \ {s}
    BY <1>b, <2>1, <2>3
  <2>5. s \notin Showing
    BY <2>2 DEF Showing, Shows
  <2>6. Phases' = [Phases EXCEPT ![s] = "asked"] /\ Phases[s] = "none"
    BY <1>0, <2>1, <2>2, SureWrite, PhasesChange, PhaseIs DEF Phases
  <2> QED BY <2>1, <2>4, <2>5, <2>6 DEF ConsentStep
<1>4. ASSUME NEW p \in Procs, NEW s \in Sessions, Rehydrate(p, s) PROVE ConsentStep
  <2>1. /\ Free(p) /\ Put(p, s, Wrap(sessRow[s])) /\ sessRow' = sessRow /\ consented' = consented
        /\ sessRow[s] \in ScreenSessionState
    BY <1>0, <1>4 DEF Rehydrate, TypeOK
  <2>2. Wrap(sessRow[s]) \in Wrapper /\ ~(Wrap(sessRow[s]).buf > 0)
    BY <2>1 DEF Wrap, Wrapper
  <2>3. Showing' = Showing \ {s}
    BY <1>b, <2>1, <2>2
  <2> QED BY <2>1, <2>3, PhasesStay DEF ConsentStep
<1>5. ASSUME NEW p \in Procs, NEW s \in Sessions, Approve(p, s) PROVE ConsentStep
  <2>1. CASE Legal(mem[p][s].st, "APPROVED")
    <3> DEFINE w == Approved(mem[p][s])
    <3>1. /\ Free(p) /\ Put(p, s, w) /\ Persist(s, "APPROVED") /\ consented' = consented \cup {s}
          /\ mem[p][s] \in Wrapper /\ mem[p][s] # None
      BY <1>0, <1>5, <2>1 DEF Approve, TypeOK
    <3>2. w \in Wrapper /\ w.buf = mem[p][s].buf
      BY <3>1 DEF Approved, Wrapper, ScreenSessionState
    <3>3. Showing' = Showing
      BY <1>b, <3>1, <3>2
    <3>4. sessRow[s] = "PENDING_CHILD_APPROVAL"
      BY <2>1, <3>1, CopyIsRow DEF Legal, LegalTransitions
    <3>5. Phases' = [Phases EXCEPT ![s] = "granted"] /\ Phases[s] = "asked"
      BY <1>0, <3>1, <3>4, SureWrite, PhasesChange, PhaseIs DEF Phases
    <3> QED BY <3>1, <3>3, <3>5 DEF ConsentStep
  <2>2. CASE ~Legal(mem[p][s].st, "APPROVED")
    BY <1>5, <2>2, NothingShown DEF Approve
  <2> QED BY <2>1, <2>2
<1>6. ASSUME NEW p \in Procs, NEW s \in Sessions, Deny(p, s) PROVE ConsentStep
  <2>1. CASE Legal(mem[p][s].st, "DENIED")
    <3> DEFINE w == Denied(mem[p][s])
    <3>1. /\ Free(p) /\ Put(p, s, w) /\ Persist(s, "DENIED") /\ consented' = consented
          /\ mem[p][s] \in Wrapper /\ mem[p][s] # None
      BY <1>0, <1>6, <2>1 DEF Deny, TypeOK
    <3>2. mem[p][s].st \in {"REQUESTED", "PENDING_CHILD_APPROVAL"}
      BY <2>1 DEF Legal, LegalTransitions
    <3>3. ~(mem[p][s].buf > 0)
      BY <1>0, <3>1, <3>2 DEF CoreInv, FramesOnlyWhileActive
    <3>4. w \in Wrapper /\ w.buf = mem[p][s].buf
      BY <3>1 DEF Denied, Wrapper, ScreenSessionState
    <3>5. Showing' = Showing \ {s}
      BY <1>b, <3>1, <3>3, <3>4
    <3>6. sessRow[s] = "PENDING_CHILD_APPROVAL"
      BY <1>0, <3>1, <3>2, CopyIsRow DEF SessionRows
    <3>7. Phases' = [Phases EXCEPT ![s] = "over"] /\ Phases[s] = "asked"
      BY <1>0, <3>1, <3>6, SureWrite, PhasesChange, PhaseIs DEF Phases, Terminal
    <3> QED BY <3>1, <3>5, <3>7 DEF ConsentStep
  <2>2. CASE ~Legal(mem[p][s].st, "DENIED")
    BY <1>6, <2>2, NothingShown DEF Deny
  <2> QED BY <2>1, <2>2
<1>7. ASSUME NEW p \in Procs, NEW s \in Sessions, StartSession(p, s) PROVE ConsentStep
  <2> DEFINE w == [st |-> "ACTIVE", on |-> TRUE, buf |-> mem[p][s].buf]
  <2>1. /\ Free(p) /\ Put(p, s, w) /\ Persist(s, "ACTIVE") /\ consented' = consented
        /\ mem[p][s] \in Wrapper /\ mem[p][s] # None /\ mem[p][s].st = "APPROVED"
    BY <1>0, <1>7 DEF StartSession, Startable, TypeOK
  <2>2. w \in Wrapper
    BY <2>1 DEF Wrapper, ScreenSessionState
  <2>3. Showing' = Showing
    BY <1>b, <2>1, <2>2
  <2>4. sessRow[s] = "APPROVED" /\ s \in consented
    BY <1>0, <2>1, CopyIsRow DEF CoreInv, ViewNeedsConsent, Granted
  <2>5. Phases' = [Phases EXCEPT ![s] = "live"] /\ Phases[s] = "granted"
    BY <1>0, <2>1, <2>4, SureWrite, PhasesChange, PhaseIs DEF Phases
  <2> QED BY <2>1, <2>3, <2>4, <2>5 DEF ConsentStep
<1>8. ASSUME NEW p \in Procs, NEW s \in Sessions, IngestFrame(p, s) PROVE ConsentStep
  <2> DEFINE w == [mem[p][s] EXCEPT !.buf = @ + 1]
  <2>1. /\ Free(p) /\ Put(p, s, w) /\ Persist(s, "ACTIVE") /\ consented' = consented
        /\ mem[p][s] \in Wrapper /\ mem[p][s] # None /\ mem[p][s].st = "ACTIVE" /\ HasRoom(mem[p][s])
    BY <1>0, <1>8 DEF IngestFrame, Holds, TypeOK
  <2>2. w \in Wrapper /\ w.buf > 0
    BY <2>1 DEF Wrapper, HasRoom
  <2>3. Showing' = Showing \cup {s}
    BY <1>b, <2>1, <2>2
  <2>4. sessRow[s] = "ACTIVE"
    BY <2>1, CopyIsRow
  <2>5. Phases[s] = "live" /\ Phases' = Phases
    BY <1>0, <2>1, <2>4, SureWrite, PhasesChange, PhaseIs DEF Phases
  <2> QED BY <2>1, <2>3, <2>5 DEF ConsentStep
<1>9. ASSUME NEW p \in Procs, NEW s \in Sessions, DrainFrames(p, s) \/ OrionStop(p, s)
      PROVE  ConsentStep
  <2>1. PICK w \in Wrapper : Free(p) /\ Put(p, s, w) /\ w.buf = 0
    <3>1. CASE DrainFrames(p, s)
      <4>1. mem[p][s] \in Wrapper
        BY <1>0, <3>1 DEF DrainFrames, TypeOK
      <4>2. [mem[p][s] EXCEPT !.buf = 0] \in Wrapper
        BY <4>1 DEF Wrapper
      <4> QED BY <3>1, <4>1, <4>2 DEF DrainFrames, Wrapper
    <3>2. CASE OrionStop(p, s)
      <4>1. mem[p][s] \in Wrapper /\ "STOPPED" \in ScreenSessionState
        BY <1>0, <3>2 DEF OrionStop, Holds, TypeOK, ScreenSessionState
      <4> QED BY <3>2, <4>1, EndedIsWrapper DEF OrionStop
    <3> QED BY <1>9, <3>1, <3>2
  <2>2. sessRow' = sessRow /\ consented' = consented
    BY <1>9 DEF DrainFrames, OrionStop
  <2>3. Showing' = Showing \ {s}
    BY <1>b, <2>1 DEF Wrapper
  <2> QED BY <2>2, <2>3, PhasesStay DEF ConsentStep
<1>10. ASSUME NEW p \in Procs, NEW s \in Sessions,
              StopSession(p, s) \/ RevokeSession(p, s) \/ CheckLifecycle(p, s)
       PROVE  ConsentStep
  BY <1>10, TearDownEnds DEF StopSession, RevokeSession, CheckLifecycle
<1>11. ASSUME \/ ChangeTrust \/ UNCHANGED vars \/ \E s \in Sessions : Elapse(s)
       PROVE  ConsentStep
  BY <1>11, NothingShown DEF ChangeTrust, vars, Elapse
<1> QED
  BY <1>1, <1>2, <1>3, <1>4, <1>5, <1>6, <1>7, <1>8, <1>9, <1>10, <1>11
  DEF Next, ScreenRequest, ScreenCommand, WebConsole, Embedded, Reconcile

\* Rows and frame buffers together keep the promise of ScreenConsent: a view is asked
\* for, granted, live and over in that order, and shows frames only while it is live,
\* although every command works on a copy and may die between its writes
\* (controller.py 221-290, 411-474).
THEOREM ScreenConsentKept == ASSUME Sequential PROVE Spec => KeepsScreenConsent
<1>1. Init => Consent!Init
  <2>1. Init => Phases = [s \in Sessions |-> "none"]
    BY PhaseIs DEF Init, Phases
  <2>2. Init => Showing = {}
    BY DEF Init, Showing, Shows
  <2> QED BY <2>1, <2>2 DEF Init, Consent!Init, Phases, Showing, Shows
<1>2. SequentialInv /\ [Next]_vars => [Consent!Next]_(Consent!vars)
  <2> SUFFICES ASSUME SequentialInv, [Next]_vars PROVE [Consent!Next]_(Consent!vars)
    OBVIOUS
  <2>1. ConsentStep
    BY SequentialKeepsConsent
  <2>2. Consent!Next \/ Consent!vars' = Consent!vars
    BY <2>1 DEF ConsentStep, Consent!vars, Consent!Next, Consent!Ask, Consent!Grant,
       Consent!Begin, Consent!End, Consent!Show, Consent!Hide, Phases, Showing, Shows
  <2> QED BY <2>2
<1> QED
  BY <1>1, <1>2, SequentialInvariant, PTL DEF Spec, KeepsScreenConsent, Consent!Spec
=============================================================================
