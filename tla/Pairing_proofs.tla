--------------------------- MODULE Pairing_proofs ---------------------------
(*****************************************************************************)
(* Proofs about Pairing, for any number of sessions, challenges and          *)
(* commands.                                                                 *)
(*                                                                           *)
(* Earned: whatever overlaps, trust comes of a verified passcode and of an   *)
(*   approval signed with the key that is trusted.                           *)
(* PairingInv: when commands run one after the other, a command under way    *)
(*   holds the row as it stands, so that every write moves its row forward,  *)
(*   counts the guesses and respects what the child has said.                *)
(*****************************************************************************)
EXTENDS Pairing, TLAPS

USE PairingAssumption DEF PairingAssumption

\* A command under way has a session, a copy of its row and, once it submits an
\* answer, the decision.
LEMMA CommandType ==
  ASSUME cmd \in [Procs -> Command], NEW p \in Procs, cmd[p] # Idle
  PROVE  /\ cmd[p].op \in Op \cup SubmitOp
         /\ cmd[p].s \in Sessions
         /\ cmd[p].copy \in Row
         /\ cmd[p].op \in SubmitOp =>
              /\ cmd[p] \in [op : SubmitOp, s : Sessions, copy : Row, d : Decision]
              /\ cmd[p].d \in Decision /\ cmd[p].d.n \in Nonces
              /\ cmd[p].d.c \in Children /\ cmd[p].d.key \in Children
<1>1. cmd[p] \in Command OBVIOUS
<1>2. CASE cmd[p] \in [op : Op, s : Sessions, copy : Row]
  <2>1. cmd[p].op \in Op /\ cmd[p].s \in Sessions /\ cmd[p].copy \in Row BY <1>2
  <2>2. cmd[p].op \notin SubmitOp BY <2>1 DEF Op, SubmitOp
  <2>. QED BY <2>1, <2>2
<1>3. CASE cmd[p] \in [op : SubmitOp, s : Sessions, copy : Row, d : Decision]
  BY <1>3 DEF Decision
<1>. QED BY <1>1, <1>2, <1>3 DEF Command

\* Idling is a command, and is told from the others by its op.
LEMMA IdleCommand ==
  ASSUME cmd \in [Procs -> Command], NEW p \in Procs
  PROVE  /\ Idle \in Command
         /\ cmd[p] = Idle => cmd[p].op = "idle"
         /\ cmd[p].op \in Op \cup SubmitOp => cmd[p] # Idle
BY DEF Idle, Command, Op, SubmitOp

\* Moving one command on keeps the commands well-typed.
LEMMA GotoType ==
  ASSUME cmd \in [Procs -> Command], NEW p \in Procs, NEW place \in Command, Goto(p, place)
  PROVE  cmd' \in [Procs -> Command]
BY DEF Goto

\* So does writing one row.
LEMMA WriteType ==
  ASSUME row \in [Sessions -> Row \cup {None}], NEW s \in Sessions, NEW r \in Row, Write(s, r)
  PROVE  row' \in [Sessions -> Row \cup {None}]
BY DEF Write

\* The rows that commands write are rows.
LEMMA RowsWritten ==
  ASSUME NEW r \in Row
  PROVE  /\ \A c \in Children \cup {None} : NewRow(c) \in Row
         /\ \A st \in PairingState : WithState(r, st) \in Row
         /\ \A b \in BOOLEAN, st \in PairingState : [r EXCEPT !.st = st, !.otp = b] \in Row
         /\ \A b \in BOOLEAN, st \in PairingState :
              [r EXCEPT !.st = st, !.otp = b, !.att = AttemptsKept(r)] \in Row
         /\ \A c \in Children, st \in PairingState : [r EXCEPT !.st = st, !.child = c] \in Row
         /\ AttemptLeft(r) => Attempted(r) \in Row /\ Rejected(r) \in Row
         /\ "EXPIRED" \in PairingState /\ "CANCELLED" \in PairingState
<1>1. AttemptLeft(r) => r.att + 1 \in 0 .. MaxAttempts BY DEF Row, AttemptLeft
<1>2. AttemptLeft(r) => Attempted(r) \in Row BY <1>1 DEF Row, Attempted
<1>3. "EXPIRED" \in PairingState /\ "CANCELLED" \in PairingState BY DEF PairingState
<1>4. AttemptLeft(r) => Rejected(r) \in Row
  BY <1>2, <1>3 DEF Row, Rejected, WithState
<1>5. \A c \in Children \cup {None} : NewRow(c) \in Row BY DEF Row, NewRow, PairingState
<1>. QED BY <1>2, <1>3, <1>4, <1>5 DEF Row, WithState, AttemptsKept

-----------------------------------------------------------------------------
(* What a command under way refers to is there: its session's row, the     *)
(* decision it submits and, once it has looked it up, the challenge.       *)

TrustRecord ==
  [status : {"none", "ACTIVE", "REVOKED"}, via : Sessions \cup {None}, key : Children \cup {None}]

LookedUp == SubmitOp \ {"submit"}

Linked ==
  /\ \A p \in Procs : cmd[p] # Idle => row[cmd[p].s] # None
  /\ \A n \in Nonces : nonce[n] # None => row[nonce[n].s] # None
  /\ \A p \in Procs : cmd[p].op \in SubmitOp => cmd[p].d \in answers
  /\ \A p \in Procs : cmd[p].op \in LookedUp =>
       nonce[cmd[p].d.n] # None /\ nonce[cmd[p].d.n].s = cmd[p].s

\* Every step keeps the types, given what the commands refer to.
LEMMA TypeStep == TypeOK /\ Linked /\ [Next]_vars => TypeOK'
<1>. SUFFICES ASSUME TypeOK, Linked, [Next]_vars PROVE TypeOK'
  OBVIOUS
<1>. USE DEF TypeOK
<1>a. \A p \in Procs : Idle \in Command
  BY IdleCommand
<1>1. CASE UNCHANGED vars
  BY <1>1 DEF vars
<1>2. ASSUME NEW p \in Procs, Step(p) PROVE TypeOK'
  <2>1. cmd[p] # Idle
    BY <1>2, IdleCommand DEF Step, Deliver, DeliverFails, Resend, Cancel, End, VerifyRight, VerifyWrong, VerifyStale,
       VerifyTooLate, Enterable, CheckNonce, ConsumeNonce, RecordDenial, RecordApproval, EstablishTrust,
       AuthorizeTooLate, Op, SubmitOp
  <2>2. /\ cmd[p].s \in Sessions
        /\ Copy(p) \in Row
        /\ cmd[p].op \in SubmitOp =>
            /\ cmd[p] \in [op : SubmitOp, s : Sessions, copy : Row, d : Decision]
            /\ cmd[p].d.n \in Nonces /\ cmd[p].d.c \in Children /\ cmd[p].d.key \in Children
    BY <2>1, CommandType DEF Copy
  <2>. DEFINE Same == UNCHANGED <<nonce, answers, trust, lapsed, verified, denied, wrong>>
  <2>3. ASSUME Done(p) PROVE cmd' \in [Procs -> Command]
    BY <2>3, <1>a, GotoType DEF Done
  <2>4. ASSUME Expire(p), Same PROVE TypeOK'
    <3>1. WithState(Copy(p), "EXPIRED") \in Row BY <2>2, RowsWritten
    <3>2. row' \in [Sessions -> Row \cup {None}] BY <2>2, <2>4, <3>1, WriteType DEF Expire
    <3>. QED BY <2>3, <2>4, <3>2 DEF Expire
  <2>5. CASE Deliver(p)
    <3>1. WithState(Copy(p), "VERIFICATION_PENDING") \in Row BY <2>2, RowsWritten DEF PairingState
    <3>2. row' \in [Sessions -> Row \cup {None}] BY <2>2, <2>5, <3>1, WriteType DEF Deliver
    <3>3. cmd[p] \in [op : Op, s : Sessions, copy : Row]
      BY <2>1, <2>5 DEF Deliver, Command, SubmitOp
    <3>4. [cmd[p] EXCEPT !.copy = WithState(cmd[p].copy, "VERIFICATION_PENDING")] \in Command
      BY <3>1, <3>3 DEF Command, Copy
    <3>5. cmd' \in [Procs -> Command] BY <2>5, <3>4, GotoType DEF Deliver
    <3>. QED BY <2>5, <3>2, <3>5 DEF Deliver, history
  <2>19. CASE DeliverFails(p)
    <3>1. WithState(Copy(p), "CANCELLED") \in Row BY <2>2, RowsWritten
    <3>2. row' \in [Sessions -> Row \cup {None}] BY <2>2, <2>19, <3>1, WriteType DEF DeliverFails
    <3>. QED BY <2>3, <2>19, <3>2 DEF DeliverFails, history
  <2>6. CASE Resend(p)
    <3>1. CASE Expire(p)
      BY <2>4, <2>6, <3>1 DEF Resend, history
    <3>2. CASE Write(cmd[p].s, [Copy(p) EXCEPT !.st = "VERIFICATION_PENDING", !.otp = TRUE,
                                               !.att = AttemptsKept(Copy(p))]) /\ Done(p)
      <4>1. [Copy(p) EXCEPT !.st = "VERIFICATION_PENDING", !.otp = TRUE,
                            !.att = AttemptsKept(Copy(p))] \in Row
        BY <2>2, RowsWritten DEF PairingState
      <4>2. row' \in [Sessions -> Row \cup {None}] BY <2>2, <3>2, <4>1, WriteType
      <4>. QED BY <2>3, <2>6, <3>2, <4>2 DEF Resend, history
    <3>3. CASE UNCHANGED row /\ Done(p)
      BY <2>3, <2>6, <3>3 DEF Resend, history
    <3>. QED BY <2>6, <3>1, <3>2, <3>3 DEF Resend
  <2>7. CASE Cancel(p)
    <3>1. WithState(Copy(p), "CANCELLED") \in Row BY <2>2, RowsWritten
    <3>2. row' \in [Sessions -> Row \cup {None}] BY <2>2, <2>7, <3>1, WriteType DEF Cancel
    <3>. QED BY <2>3, <2>7, <3>2 DEF Cancel, history
  <2>8. CASE End(p)
    BY <2>3, <2>8 DEF End, history
  <2>9. CASE VerifyRight(p)
    <3>1. [Copy(p) EXCEPT !.st = "CHILD_AUTHORIZATION_PENDING", !.otp = FALSE] \in Row
      BY <2>2, RowsWritten DEF PairingState
    <3>2. row' \in [Sessions -> Row \cup {None}] BY <2>2, <2>9, <3>1, WriteType DEF VerifyRight
    <3>. QED BY <2>2, <2>3, <2>9, <3>2 DEF VerifyRight
  <2>10. CASE VerifyWrong(p)
    <3>1. Rejected(Copy(p)) \in Row BY <2>2, <2>10, RowsWritten DEF VerifyWrong, Enterable
    <3>2. row' \in [Sessions -> Row \cup {None}] BY <2>2, <2>10, <3>1, WriteType DEF VerifyWrong
    <3>3. \A i \in 0 .. MaxAttempts + 1 :
            (IF i <= MaxAttempts THEN i + 1 ELSE i) \in 0 .. MaxAttempts + 1
      OBVIOUS
    <3>4. wrong' \in [Sessions -> 0 .. MaxAttempts + 1] BY <2>2, <2>10, <3>3 DEF VerifyWrong
    <3>. QED BY <2>3, <2>10, <3>2, <3>4 DEF VerifyWrong
  <2>11. CASE VerifyStale(p)
    <3>1. Attempted(Copy(p)) \in Row BY <2>2, <2>11, RowsWritten DEF VerifyStale, Enterable
    <3>2. row' \in [Sessions -> Row \cup {None}] BY <2>2, <2>11, <3>1, WriteType DEF VerifyStale
    <3>. QED BY <2>3, <2>11, <3>2 DEF VerifyStale, history
  <2>12. CASE VerifyTooLate(p)
    BY <2>4, <2>12 DEF VerifyTooLate, history
  <2>13. CASE CheckNonce(p)
    <3>1. [cmd[p] EXCEPT !.op = "consume"] \in Command BY <2>2, <2>13 DEF CheckNonce, Command, SubmitOp
    <3>2. cmd' \in [Procs -> Command] BY <2>13, <3>1, GotoType DEF CheckNonce
    <3>. QED BY <2>13, <3>2 DEF CheckNonce, history
  <2>14. CASE ConsumeNonce(p)
    <3>1. [cmd[p] EXCEPT !.op = "decide"] \in Command BY <2>2, <2>14 DEF ConsumeNonce, Command, SubmitOp
    <3>2. cmd' \in [Procs -> Command] BY <2>14, <3>1, GotoType DEF ConsumeNonce
    <3>3. nonce[cmd[p].d.n] \in Challenge
      BY <2>2, <2>14 DEF ConsumeNonce, SubmitOp, LookedUp, Linked
    <3>4. [nonce[cmd[p].d.n] EXCEPT !.used = TRUE] \in Challenge
      BY <3>3 DEF Challenge
    <3>5. nonce' \in [Nonces -> Challenge \cup {None}]
      BY <2>2, <2>14, <3>4 DEF ConsumeNonce, SubmitOp, Signed
    <3>. QED BY <2>14, <3>2, <3>5 DEF ConsumeNonce, history
  <2>15. CASE RecordDenial(p)
    <3>1. Signed(p).c \in Children
      BY <2>2, <2>15 DEF RecordDenial, SubmitOp, Signed
    <3>2. [Copy(p) EXCEPT !.st = AfterDenial, !.child = Signed(p).c] \in Row
      BY <2>2, <3>1, RowsWritten DEF PairingState, AfterDenial
    <3>3. row' \in [Sessions -> Row \cup {None}] BY <2>2, <2>15, <3>2, WriteType DEF RecordDenial
    <3>. QED BY <2>2, <2>3, <2>15, <3>3 DEF RecordDenial
  <2>16. CASE RecordApproval(p)
    <3>1. Signed(p).c \in Children
      BY <2>2, <2>16 DEF RecordApproval, SubmitOp, Signed
    <3>2. [Copy(p) EXCEPT !.st = "PAIRED", !.child = Signed(p).c] \in Row
      BY <2>2, <3>1, RowsWritten DEF PairingState
    <3>3. row' \in [Sessions -> Row \cup {None}] BY <2>2, <2>16, <3>2, WriteType DEF RecordApproval
    <3>4. [cmd[p] EXCEPT !.op = "establish"] \in Command BY <2>2, <2>16 DEF RecordApproval, Command, SubmitOp
    <3>5. cmd' \in [Procs -> Command] BY <2>16, <3>4, GotoType DEF RecordApproval
    <3>. QED BY <2>16, <3>3, <3>5 DEF RecordApproval, history
  <2>17. CASE EstablishTrust(p)
    <3>1. [status |-> "ACTIVE", via |-> cmd[p].s, key |-> Signed(p).key] \in TrustRecord
      BY <2>2, <2>17 DEF EstablishTrust, SubmitOp, Signed, TrustRecord
    <3>2. trust' \in [Children -> TrustRecord]
      BY <2>17, <3>1 DEF EstablishTrust, TrustRecord
    <3>. QED BY <2>3, <2>17, <3>2 DEF EstablishTrust, TrustRecord, history
  <2>18. CASE AuthorizeTooLate(p)
    BY <2>4, <2>18 DEF AuthorizeTooLate, history
  <2>. QED BY <1>2, <2>5, <2>6, <2>7, <2>8, <2>9, <2>10, <2>11, <2>12, <2>13, <2>14, <2>15, <2>16,
              <2>17, <2>18, <2>19 DEF Step
<1>3. ASSUME NEW p \in Procs, NEW s \in Sessions, NEW c \in Children \cup {None},
             CreateSession(p, s, c) PROVE TypeOK'
  <2>1. NewRow(c) \in Row BY DEF NewRow, Row, PairingState
  <2>2. row' \in [Sessions -> Row \cup {None}] BY <1>3, <2>1, WriteType DEF CreateSession
  <2>3. [op |-> "deliver", s |-> s, copy |-> NewRow(c)] \in Command BY <2>1 DEF Command, Op
  <2>4. cmd' \in [Procs -> Command] BY <1>3, <2>3, GotoType DEF CreateSession
  <2>. QED BY <1>3, <2>2, <2>4 DEF CreateSession, history
<1>4. ASSUME NEW p \in Procs, NEW s \in Sessions, NEW op \in Op, Begin(p, op, s) PROVE TypeOK'
  <2>1. [op |-> op, s |-> s, copy |-> row[s]] \in Command BY <1>4 DEF Begin, Command
  <2>2. cmd' \in [Procs -> Command] BY <1>4, <2>1, GotoType DEF Begin
  <2>. QED BY <1>4, <2>2 DEF Begin, history
<1>5. ASSUME NEW p \in Procs, NEW s \in Sessions, NEW d \in answers, BeginSubmit(p, s, d) PROVE TypeOK'
  <2>1. row[s] \in Row /\ d \in Decision BY <1>5 DEF BeginSubmit
  <2>2. [op |-> "submit", s |-> s, copy |-> row[s], d |-> d] \in Command
    BY <2>1 DEF Command, SubmitOp
  <2>3. cmd' \in [Procs -> Command] BY <1>5, <2>2, GotoType DEF BeginSubmit
  <2>. QED BY <1>5, <2>3 DEF BeginSubmit, history
<1>6. ASSUME NEW p \in Procs, NEW n \in Nonces, NEW c \in Children, CreateChallenge(p, c, n) PROVE TypeOK'
  <2>1. cmd[p] # Idle BY <1>6, IdleCommand DEF CreateChallenge, Op
  <2>2. cmd[p].s \in Sessions /\ row[cmd[p].s] \in Row BY <2>1, CommandType DEF Linked
  <2>3. [row[cmd[p].s] EXCEPT !.child = c] \in Row BY <2>2 DEF Row
  <2>4. row' \in [Sessions -> Row \cup {None}] BY <1>6, <2>2, <2>3 DEF CreateChallenge
  <2>5. [s |-> cmd[p].s, c |-> c, used |-> FALSE] \in Challenge
    BY <2>2 DEF Challenge
  <2>6. nonce' \in [Nonces -> Challenge \cup {None}] BY <1>6, <2>5 DEF CreateChallenge
  <2>7. cmd' \in [Procs -> Command] BY <1>6, <1>a, GotoType DEF CreateChallenge, Done
  <2>. QED BY <1>6, <2>4, <2>6, <2>7 DEF CreateChallenge, history
<1>7. ASSUME NEW d \in Decision, Answer(d) PROVE TypeOK'
  BY <1>7 DEF Answer, history
<1>8. ASSUME NEW c \in Children, RevokeTrust(c) PROVE TypeOK'
  <2>1. \A s \in Sessions : row[s] # None => WithState(row[s], "REVOKED") \in Row
    BY DEF WithState, Row, PairingState
  <2>2. row' \in [Sessions -> Row \cup {None}] BY <1>8, <2>1 DEF RevokeTrust
  <2>3. trust' \in [Children -> TrustRecord] BY <1>8 DEF RevokeTrust, TrustRecord
  <2>. QED BY <1>8, <2>2, <2>3 DEF RevokeTrust, TrustRecord, history
<1>9. ASSUME NEW s \in Sessions, Lapse(s) PROVE TypeOK'
  BY <1>9 DEF Lapse, history
<1>. QED BY <1>1, <1>2, <1>3, <1>4, <1>5, <1>6, <1>7, <1>8, <1>9
  DEF Next, PairStart, PairVerify, PairAuthorize, PairCancel, PairRevoke, ResendOtp, Op

-----------------------------------------------------------------------------
(* What no step takes back: a row stays, a challenge keeps its session and *)
(* its child, a decision stays signed, an entered passcode stays entered.  *)

CAP == "CHILD_AUTHORIZATION_PENDING"

\* A command under way changes at most the row of its session, and puts it in
\* CHILD_AUTHORIZATION_PENDING only when the passcode has been entered.
LEMMA StepWrites ==
  ASSUME TypeOK, NEW p \in Procs, Step(p)
  PROVE  /\ cmd[p] # Idle
         /\ cmd[p].s \in Sessions
         /\ \/ UNCHANGED row
            \/ \E r \in Row : Write(cmd[p].s, r) /\ (r.st = CAP => cmd[p].s \in verified')
<1>1. cmd[p] # Idle
  BY IdleCommand DEF TypeOK, Step, Deliver, DeliverFails, Resend, Cancel, End, VerifyRight, VerifyWrong, VerifyStale,
     VerifyTooLate, Enterable, CheckNonce, ConsumeNonce, RecordDenial, RecordApproval, EstablishTrust,
     AuthorizeTooLate, Op, SubmitOp
<1>2. cmd[p].s \in Sessions /\ Copy(p) \in Row /\ (cmd[p].op \in SubmitOp => cmd[p].d.c \in Children)
  BY <1>1, CommandType DEF TypeOK, Copy
<1>. DEFINE Fits(r) == Write(cmd[p].s, r) /\ r \in Row /\ (r.st = CAP => cmd[p].s \in verified')
<1>. SUFFICES UNCHANGED row \/ \E r : Fits(r)
  BY <1>1, <1>2
<1>3. \A st \in PairingState : WithState(Copy(p), st) \in Row /\ WithState(Copy(p), st).st = st
  BY <1>2, RowsWritten DEF WithState, Row
<1>4. CASE Expire(p)
  BY <1>3, <1>4 DEF Expire, PairingState, CAP
<1>5. CASE Deliver(p) \/ DeliverFails(p)
  BY <1>3, <1>5 DEF Deliver, DeliverFails, PairingState, CAP
<1>6. CASE Resend(p) /\ ~Expire(p)
  <2>1. [Copy(p) EXCEPT !.st = "VERIFICATION_PENDING", !.otp = TRUE,
                        !.att = AttemptsKept(Copy(p))] \in Row
    BY <1>2, RowsWritten DEF PairingState
  <2>2. [Copy(p) EXCEPT !.st = "VERIFICATION_PENDING", !.otp = TRUE,
                        !.att = AttemptsKept(Copy(p))].st # CAP
    BY <1>2 DEF CAP, Row
  <2>3. UNCHANGED row
        \/ Write(cmd[p].s, [Copy(p) EXCEPT !.st = "VERIFICATION_PENDING", !.otp = TRUE,
                                           !.att = AttemptsKept(Copy(p))])
    BY <1>6 DEF Resend
  <2>. QED BY <2>1, <2>2, <2>3
<1>7. CASE Cancel(p)
  BY <1>3, <1>7 DEF Cancel, PairingState, CAP
<1>8. CASE VerifyRight(p)
  <2>1. [Copy(p) EXCEPT !.st = "CHILD_AUTHORIZATION_PENDING", !.otp = FALSE] \in Row
    BY <1>2, RowsWritten DEF PairingState
  <2>. QED BY <1>2, <1>8, <2>1 DEF VerifyRight
<1>9. CASE VerifyWrong(p)
  <2>1. Rejected(Copy(p)) \in Row BY <1>2, <1>9, RowsWritten DEF VerifyWrong, Enterable
  <2>2. Rejected(Copy(p)).st # CAP
    BY <1>2, <1>9 DEF VerifyWrong, Enterable, Rejected, Attempted, WithState, CAP, Row
  <2>. QED BY <1>9, <2>1, <2>2 DEF VerifyWrong
<1>10. CASE VerifyStale(p)
  <2>1. Attempted(Copy(p)) \in Row BY <1>2, <1>10, RowsWritten DEF VerifyStale, Enterable
  <2>2. Attempted(Copy(p)).st # CAP
    BY <1>2, <1>10 DEF VerifyStale, Enterable, Attempted, CAP, Row
  <2>. QED BY <1>10, <2>1, <2>2 DEF VerifyStale
<1>11. CASE RecordDenial(p)
  <2>1. Signed(p).c \in Children
    BY <1>2, <1>11 DEF RecordDenial, SubmitOp, Signed
  <2>2. [Copy(p) EXCEPT !.st = AfterDenial, !.child = Signed(p).c] \in Row
    BY <1>2, <2>1, RowsWritten DEF PairingState, AfterDenial
  <2>3. [Copy(p) EXCEPT !.st = AfterDenial, !.child = Signed(p).c].st # CAP
    BY <1>2 DEF CAP, Row, AfterDenial
  <2>4. Write(cmd[p].s, [Copy(p) EXCEPT !.st = AfterDenial, !.child = Signed(p).c])
    BY <1>11 DEF RecordDenial
  <2>. QED BY <2>2, <2>3, <2>4
<1>12. CASE RecordApproval(p)
  <2>1. Signed(p).c \in Children
    BY <1>2, <1>12 DEF RecordApproval, SubmitOp, Signed
  <2>2. [Copy(p) EXCEPT !.st = "PAIRED", !.child = Signed(p).c] \in Row
    BY <1>2, <2>1, RowsWritten DEF PairingState
  <2>3. [Copy(p) EXCEPT !.st = "PAIRED", !.child = Signed(p).c].st # CAP
    BY <1>2 DEF CAP, Row
  <2>4. Write(cmd[p].s, [Copy(p) EXCEPT !.st = "PAIRED", !.child = Signed(p).c])
    BY <1>12 DEF RecordApproval
  <2>. QED BY <2>2, <2>3, <2>4
<1>13. CASE End(p) \/ CheckNonce(p) \/ ConsumeNonce(p) \/ EstablishTrust(p)
  BY <1>13 DEF End, CheckNonce, ConsumeNonce, EstablishTrust
<1>. QED BY <1>4, <1>5, <1>6, <1>7, <1>8, <1>9, <1>10, <1>11, <1>12, <1>13
         DEF Step, VerifyTooLate, AuthorizeTooLate

\* A command under way goes on with its session, its copy and its decision, or
\* is done; the others stay where they are.
LEMMA StepMoves ==
  ASSUME TypeOK, NEW p \in Procs, Step(p)
  PROVE  \A q \in Procs :
           \/ cmd'[q] = cmd[q]
           \/ cmd'[q] = Idle
           \/ /\ q = p
              /\ cmd[p].op \in SubmitOp
              /\ cmd'[p].op \in SubmitOp
              /\ cmd'[p].s = cmd[p].s /\ cmd'[p].copy = cmd[p].copy /\ cmd'[p].d = cmd[p].d
           \/ /\ q = p
              /\ cmd[p].op = "deliver" /\ cmd'[p].op = "deliver"
              /\ cmd'[p].s = cmd[p].s /\ cmd'[p].copy.st = "VERIFICATION_PENDING"
<1>1. CASE cmd' = [cmd EXCEPT ![p] = Idle]
  BY <1>1 DEF TypeOK
<1>2. ASSUME NEW op \in SubmitOp, cmd[p].op \in SubmitOp, cmd' = [cmd EXCEPT ![p] = [cmd[p] EXCEPT !.op = op]]
      PROVE  \A q \in Procs :
               \/ cmd'[q] = cmd[q]
               \/ /\ q = p
                  /\ cmd'[p].op \in SubmitOp
                  /\ cmd'[p].s = cmd[p].s /\ cmd'[p].copy = cmd[p].copy /\ cmd'[p].d = cmd[p].d
  <2>1. cmd[p] \in [op : SubmitOp, s : Sessions, copy : Row, d : Decision]
    BY <1>2, CommandType, IdleCommand DEF TypeOK
  <2>2. cmd'[p] = [cmd[p] EXCEPT !.op = op] /\ \A q \in Procs : q # p => cmd'[q] = cmd[q]
    BY <1>2 DEF TypeOK
  <2>. QED BY <2>1, <2>2
<1>3. CASE CheckNonce(p) \/ ConsumeNonce(p) \/ RecordApproval(p)
  BY <1>2, <1>3 DEF CheckNonce, ConsumeNonce, RecordApproval, Goto, SubmitOp
<1>5. CASE Deliver(p)
  <2>1. cmd[p] \in [op : Op, s : Sessions, copy : Row]
    BY <1>5, IdleCommand DEF TypeOK, Deliver, Command, Op, SubmitOp
  <2>. DEFINE next == [cmd[p] EXCEPT !.copy = WithState(cmd[p].copy, "VERIFICATION_PENDING")]
  <2>2. next.op = cmd[p].op /\ next.s = cmd[p].s /\ next.copy.st = "VERIFICATION_PENDING"
    BY <2>1 DEF WithState, Row
  <2>3. cmd' = [cmd EXCEPT ![p] = next] BY <1>5 DEF Deliver, Goto
  <2>4. cmd[p].op = "deliver" BY <1>5 DEF Deliver
  <2>. HIDE DEF next
  <2>. QED BY <2>2, <2>3, <2>4 DEF TypeOK
<1>4. CASE ~(CheckNonce(p) \/ ConsumeNonce(p) \/ RecordApproval(p) \/ Deliver(p))
  <2>1. Done(p)
    BY <1>4 DEF Step, DeliverFails, Resend, Cancel, End, VerifyRight, VerifyWrong, VerifyStale, VerifyTooLate,
       RecordDenial, EstablishTrust, AuthorizeTooLate, Expire
  <2>. QED BY <1>1, <2>1 DEF Done, Goto
<1>. QED BY <1>3, <1>4, <1>5

Steady ==
  /\ \A s \in Sessions : row[s] # None => row'[s] # None
  /\ \A n \in Nonces : nonce[n] # None =>
       /\ nonce'[n] # None
       /\ nonce'[n].s = nonce[n].s
       /\ nonce'[n].c = nonce[n].c
  /\ answers \subseteq answers'
  /\ verified \subseteq verified'

\* Every step is steady, however commands overlap.
LEMMA SteadyStep == TypeOK /\ Linked /\ [Next]_vars => Steady
<1>. SUFFICES ASSUME TypeOK, Linked, [Next]_vars PROVE Steady
  OBVIOUS
<1>. USE DEF TypeOK
<1>a. ASSUME NEW n \in Nonces, nonce[n] # None, NEW r, nonce' = [nonce EXCEPT ![n] = r], r # None,
             r.s = nonce[n].s, r.c = nonce[n].c
      PROVE  \A m \in Nonces : nonce[m] # None =>
               /\ nonce'[m] # None
               /\ nonce'[m].s = nonce[m].s
               /\ nonce'[m].c = nonce[m].c
  BY <1>a
<1>1. CASE UNCHANGED vars
  BY <1>1 DEF vars, Steady
<1>2. ASSUME NEW p \in Procs, Step(p) PROVE Steady
  <2>1. \A s \in Sessions : row[s] # None => row'[s] # None
    <3>1. UNCHANGED row \/ \E r \in Row : Write(cmd[p].s, r)
      BY <1>2, StepWrites DEF Linked
    <3>. QED BY <3>1 DEF Write
  <2>2. CASE ConsumeNonce(p)
    <3>1. cmd[p].d.n \in Nonces /\ nonce[cmd[p].d.n] # None
      BY <2>2, CommandType, IdleCommand DEF ConsumeNonce, Linked, SubmitOp, LookedUp
    <3>2. nonce[cmd[p].d.n] \in Challenge BY <3>1
    <3>3. [nonce[cmd[p].d.n] EXCEPT !.used = TRUE] \in Challenge BY <3>2 DEF Challenge
    <3>4. /\ [nonce[cmd[p].d.n] EXCEPT !.used = TRUE].s = nonce[cmd[p].d.n].s
          /\ [nonce[cmd[p].d.n] EXCEPT !.used = TRUE].c = nonce[cmd[p].d.n].c
      BY <3>2 DEF Challenge
    <3>5. nonce' = [nonce EXCEPT ![cmd[p].d.n] = [nonce[cmd[p].d.n] EXCEPT !.used = TRUE]]
      BY <2>2, <3>1 DEF ConsumeNonce, Signed
    <3>6. UNCHANGED <<answers, verified>> BY <2>2 DEF ConsumeNonce, history
    <3>. QED BY <1>a, <2>1, <3>1, <3>3, <3>4, <3>5, <3>6 DEF Steady
  <2>3. CASE ~ConsumeNonce(p)
    <3>1. UNCHANGED <<nonce, answers>> /\ verified \subseteq verified'
      BY <1>2, <2>3 DEF Step, Deliver, DeliverFails, Resend, Cancel, End, VerifyRight, VerifyWrong, VerifyStale,
         VerifyTooLate, CheckNonce, RecordDenial, RecordApproval, EstablishTrust, AuthorizeTooLate, history
    <3>. QED BY <2>1, <3>1 DEF Steady
  <2>. QED BY <2>2, <2>3
<1>3. ASSUME NEW p \in Procs, NEW s \in Sessions, NEW c \in Children \cup {None},
             CreateSession(p, s, c) PROVE Steady
  BY <1>3, RowsWritten DEF CreateSession, Write, history, Steady
<1>4. ASSUME NEW p \in Procs, NEW s \in Sessions, NEW op \in Op, Begin(p, op, s) PROVE Steady
  BY <1>4 DEF Begin, history, Steady
<1>5. ASSUME NEW p \in Procs, NEW s \in Sessions, NEW d \in answers, BeginSubmit(p, s, d) PROVE Steady
  BY <1>5 DEF BeginSubmit, history, Steady
<1>6. ASSUME NEW p \in Procs, NEW n \in Nonces, NEW c \in Children, CreateChallenge(p, c, n) PROVE Steady
  <2>1. cmd[p] # Idle BY <1>6, IdleCommand DEF CreateChallenge, Op
  <2>2. cmd[p].s \in Sessions /\ row[cmd[p].s] \in Row BY <2>1, CommandType DEF Linked
  <2>3. [row[cmd[p].s] EXCEPT !.child = c] \in Row BY <2>2 DEF Row
  <2>4. row' = [row EXCEPT ![cmd[p].s] = [row[cmd[p].s] EXCEPT !.child = c]]
    BY <1>6, <2>2 DEF CreateChallenge
  <2>5. \A s \in Sessions : row[s] # None => row'[s] # None
    BY <2>2, <2>3, <2>4
  <2>. QED BY <1>6, <2>5 DEF CreateChallenge, history, Steady
<1>7. ASSUME NEW d \in Decision, Answer(d) PROVE Steady
  BY <1>7 DEF Answer, history, Steady
<1>8. ASSUME NEW c \in Children, RevokeTrust(c) PROVE Steady
  <2>1. \A s \in Sessions : row[s] # None => WithState(row[s], "REVOKED") \in Row
    BY DEF WithState, Row, PairingState
  <2>. QED BY <1>8, <2>1 DEF RevokeTrust, history, Steady
<1>9. ASSUME NEW s \in Sessions, Lapse(s) PROVE Steady
  BY <1>9 DEF Lapse, history, Steady
<1>. QED BY <1>1, <1>2, <1>3, <1>4, <1>5, <1>6, <1>7, <1>8, <1>9
  DEF Next, PairStart, PairVerify, PairAuthorize, PairCancel, PairRevoke, ResendOtp, Op

\* A command that submits a decision goes on only by looking the challenge up.
LEMMA SubmitLeaves ==
  ASSUME TypeOK, NEW p \in Procs, Step(p), NEW q \in Procs, cmd[q].op = "submit",
         cmd'[q] # cmd[q], cmd'[q] # Idle
  PROVE  CheckNonce(p) /\ q = p
<1>1. q = p
  BY StepMoves
<1>. QED
  BY <1>1
    DEF TypeOK, Step, Deliver, DeliverFails, Resend, Cancel, End, VerifyRight, VerifyWrong, VerifyStale,
        VerifyTooLate, Enterable, ConsumeNonce, RecordDenial, RecordApproval, EstablishTrust,
        AuthorizeTooLate, Expire, Done, Goto

\* What commands refer to stays there: commands begin at an existing row, submit
\* a signed decision and look its challenge up, and none is ever taken away.
LEMMA LinkedStep == TypeOK /\ Linked /\ [Next]_vars => Linked'
<1>. SUFFICES ASSUME TypeOK, Linked, [Next]_vars PROVE Linked'
  OBVIOUS
<1>. USE DEF TypeOK
<1>s. Steady BY SteadyStep
<1>o. \A p \in Procs : cmd[p] # Idle =>
        cmd[p].s \in Sessions /\ (cmd[p].op \in SubmitOp => cmd[p].d.n \in Nonces)
  BY CommandType
<1>n. \A n \in Nonces : nonce[n] # None => nonce[n].s \in Sessions
  BY DEF Challenge
<1>i. \A p \in Procs : cmd'[p] = Idle => cmd'[p].op \notin SubmitOp
  BY DEF Idle, SubmitOp
<1>l. LookedUp \subseteq SubmitOp
  BY DEF LookedUp
<1>a. ASSUME UNCHANGED nonce,
             \A p \in Procs : \/ cmd'[p] = cmd[p]
                              \/ cmd'[p] = Idle
      PROVE  Linked'
  <2>1. \A p \in Procs : cmd[p].op \in SubmitOp => cmd[p] # Idle BY IdleCommand
  <2>. QED BY <1>s, <1>o, <1>n, <1>i, <1>l, <1>a, <2>1 DEF Linked, Steady
<1>1. CASE UNCHANGED vars
  BY <1>1, <1>a DEF vars
<1>2. ASSUME NEW p \in Procs, Step(p) PROVE Linked'
  <2>1. \A n \in Nonces : nonce'[n] # None => nonce[n] # None
    <3>1. UNCHANGED nonce \/ \E n \in Nonces : nonce[n] # None /\ \E r : nonce' = [nonce EXCEPT ![n] = r]
      <4>1. CASE ConsumeNonce(p)
        <5>1. cmd[p].d.n \in Nonces /\ nonce[cmd[p].d.n] # None
          BY <4>1, <1>o, IdleCommand DEF ConsumeNonce, Linked, SubmitOp, LookedUp
        <5>. QED BY <4>1, <5>1 DEF ConsumeNonce, Signed
      <4>2. CASE ~ConsumeNonce(p)
        BY <1>2, <4>2 DEF Step, Deliver, DeliverFails, Resend, Cancel, End, VerifyRight, VerifyWrong, VerifyStale,
           VerifyTooLate, CheckNonce, RecordDenial, RecordApproval, EstablishTrust, AuthorizeTooLate, history
      <4>. QED BY <4>1, <4>2
    <3>. QED BY <3>1
  <2>2. \A q \in Procs : cmd'[q] # Idle => cmd[q] # Idle /\ cmd'[q].s = cmd[q].s
    <3>1. cmd[p] # Idle BY <1>2, StepWrites DEF Linked
    <3>. QED BY <1>2, <3>1, StepMoves
  <2>3. \A q \in Procs : cmd'[q].op \in SubmitOp => cmd[q].op \in SubmitOp /\ cmd'[q].d = cmd[q].d
    BY <1>2, <1>i, StepMoves DEF SubmitOp
  <2>4. \A q \in Procs : cmd[q].op \in SubmitOp => cmd[q] # Idle BY IdleCommand
  <2>5. \A q \in Procs : cmd'[q] # Idle => row'[cmd'[q].s] # None
    BY <1>s, <1>o, <2>2 DEF Linked, Steady
  <2>6. \A n \in Nonces : nonce'[n] # None => row'[nonce'[n].s] # None
    BY <1>s, <1>n, <2>1 DEF Linked, Steady
  <2>7. ASSUME NEW q \in Procs, cmd'[q].op \in SubmitOp
        PROVE  /\ cmd'[q].d \in answers'
               /\ cmd'[q].d = cmd[q].d /\ cmd[q].d.n \in Nonces /\ cmd'[q].s = cmd[q].s
               /\ cmd[q].op \in SubmitOp
    BY <1>s, <1>o, <1>i, <2>2, <2>3, <2>4, <2>7 DEF Linked, Steady
  <2>8. ASSUME NEW q \in Procs, cmd'[q].op \in LookedUp
        PROVE  nonce'[cmd'[q].d.n] # None /\ nonce'[cmd'[q].d.n].s = cmd'[q].s
    <3>1. /\ cmd'[q].d = cmd[q].d /\ cmd[q].d.n \in Nonces /\ cmd'[q].s = cmd[q].s
          /\ cmd[q].op \in SubmitOp
      BY <1>l, <2>7, <2>8
    <3>2. CASE cmd[q].op \in LookedUp
      BY <1>s, <3>1, <3>2 DEF Linked, Steady
    <3>3. CASE cmd[q].op = "submit"
      <4>1. cmd'[q] # cmd[q] BY <2>8, <3>3 DEF LookedUp
      <4>2. CheckNonce(p) /\ q = p BY <1>2, <1>i, <1>l, <2>8, <3>3, <4>1, SubmitLeaves
      <4>3. nonce[cmd[q].d.n] # None /\ nonce[cmd[q].d.n].s = cmd[q].s
        BY <4>2 DEF CheckNonce, Found, Signed
      <4>. QED BY <1>s, <3>1, <4>3 DEF Steady
    <3>. QED BY <3>1, <3>2, <3>3 DEF LookedUp
  <2>. QED BY <2>5, <2>6, <2>7, <2>8 DEF Linked
<1>3. ASSUME NEW p \in Procs, NEW s \in Sessions, NEW c \in Children \cup {None},
             CreateSession(p, s, c) PROVE Linked'
  <2>. DEFINE new == [op |-> "deliver", s |-> s, copy |-> NewRow(c)]
  <2>1. cmd'[p] = new /\ \A q \in Procs : q # p => cmd'[q] = cmd[q] BY <1>3 DEF CreateSession, Goto
  <2>2. NewRow(c) \in Row /\ row'[s] = NewRow(c)
    BY <1>3 DEF CreateSession, Write, NewRow, Row, PairingState
  <2>3. new.s = s /\ new.op \notin SubmitOp BY DEF SubmitOp
  <2>. QED BY <1>3, <1>s, <1>o, <1>n, <2>1, <2>2, <2>3, <1>l, IdleCommand DEF CreateSession, Linked, Steady
<1>4. ASSUME NEW p \in Procs, NEW s \in Sessions, NEW op \in Op, Begin(p, op, s) PROVE Linked'
  <2>. DEFINE new == [op |-> op, s |-> s, copy |-> row[s]]
  <2>1. cmd'[p] = new /\ \A q \in Procs : q # p => cmd'[q] = cmd[q] BY <1>4 DEF Begin, Goto
  <2>2. row'[s] # None BY <1>4 DEF Begin
  <2>3. new.s = s /\ new.op \notin SubmitOp BY DEF SubmitOp, Op
  <2>. QED BY <1>4, <1>s, <1>o, <1>n, <2>1, <2>2, <2>3, <1>l, IdleCommand DEF Begin, Linked, Steady
<1>5. ASSUME NEW p \in Procs, NEW s \in Sessions, NEW d \in answers, BeginSubmit(p, s, d) PROVE Linked'
  <2>. DEFINE new == [op |-> "submit", s |-> s, copy |-> row[s], d |-> d]
  <2>1. cmd'[p] = new /\ \A q \in Procs : q # p => cmd'[q] = cmd[q] BY <1>5 DEF BeginSubmit, Goto
  <2>2. new.s = s /\ new.d = d /\ new.op \notin LookedUp BY DEF LookedUp
  <2>3. UNCHANGED <<row, nonce, answers>> /\ row[s] # None BY <1>5 DEF BeginSubmit
  <2>. HIDE DEF new
  <2>. QED BY <2>1, <2>2, <2>3 DEF Linked
<1>6. ASSUME NEW p \in Procs, NEW n \in Nonces, NEW c \in Children, CreateChallenge(p, c, n) PROVE Linked'
  <2>1. cmd[p] # Idle BY <1>6, IdleCommand DEF CreateChallenge, Op
  <2>2. row'[cmd[p].s] # None BY <1>o, <1>s, <2>1 DEF Linked, Steady
  <2>3. /\ nonce'[n] = [s |-> cmd[p].s, c |-> c, used |-> FALSE]
        /\ \A m \in Nonces : m # n => nonce'[m] = nonce[m]
    BY <1>6 DEF CreateChallenge
  <2>4. \A q \in Procs : cmd'[q] = Idle \/ cmd'[q] = cmd[q] BY <1>6 DEF CreateChallenge, Done, Goto
  <2>5. \A m \in Nonces : nonce'[m] # None => row'[nonce'[m].s] # None
    BY <1>s, <1>n, <2>2, <2>3 DEF Linked, Steady
  <2>6. \A q \in Procs : cmd'[q] # Idle => row'[cmd'[q].s] # None
    BY <1>s, <1>o, <2>4 DEF Linked, Steady
  <2>7. \A q \in Procs : cmd'[q].op \in SubmitOp => cmd'[q].d \in answers'
    BY <1>s, <1>i, <2>4 DEF Linked, Steady
  <2>8. \A q \in Procs : cmd'[q].op \in LookedUp =>
          nonce'[cmd'[q].d.n] # None /\ nonce'[cmd'[q].d.n].s = cmd'[q].s
    BY <1>s, <1>o, <1>i, <1>l, <2>4, IdleCommand DEF Linked, Steady
  <2>. QED BY <2>5, <2>6, <2>7, <2>8 DEF Linked
<1>7. ASSUME NEW d \in Decision, Answer(d) PROVE Linked'
  BY <1>7, <1>a DEF Answer
<1>8. ASSUME NEW c \in Children, RevokeTrust(c) PROVE Linked'
  BY <1>8, <1>a DEF RevokeTrust
<1>9. ASSUME NEW s \in Sessions, Lapse(s) PROVE Linked'
  BY <1>9, <1>a DEF Lapse
<1>. QED BY <1>1, <1>2, <1>3, <1>4, <1>5, <1>6, <1>7, <1>8, <1>9
  DEF Next, PairStart, PairVerify, PairAuthorize, PairCancel, PairRevoke, ResendOtp, Op

\* The types of rows, challenges, trust records and commands under way hold for
\* any number of processes, sessions, children and challenges; in particular no
\* row counts more than max_otp_attempts attempts (manager.py, verify_otp).
THEOREM TypeCorrect == Spec => []TypeOK
<1>1. Init => TypeOK /\ Linked
  <2>1. ASSUME Init PROVE TypeOK
    BY <2>1 DEF Init, TypeOK, Command
  <2>2. ASSUME Init PROVE Linked
    BY <2>2 DEF Init, Linked, Idle, SubmitOp, LookedUp
  <2>. QED BY <2>1, <2>2
<1>2. (TypeOK /\ Linked) /\ [Next]_vars => (TypeOK /\ Linked)'
  BY TypeStep, LinkedStep
<1>. QED BY <1>1, <1>2, PTL DEF Spec

-----------------------------------------------------------------------------
(* The strengthening of TrustIsEarned: what is written down, or on its way *)
(* in a command, is already backed by the passcode and by what was signed. *)

RowsEarned == \A s \in Sessions : row[s] # None /\ row[s].st = CAP => s \in verified
CopiesEarned == \A p \in Procs : cmd[p] # Idle /\ cmd[p].copy.st = CAP => cmd[p].s \in verified
AnswersEarned ==
  \A p \in Procs :
    /\ cmd[p].op \in {"consume", "decide", "establish"} => cmd[p].copy.st = CAP
    /\ cmd[p].op = "establish" => Verifies(cmd[p].d) /\ cmd[p].d.answer = "APPROVE"

Earned == RowsEarned /\ CopiesEarned /\ AnswersEarned /\ TrustIsEarned

\* A row is in CHILD_AUTHORIZATION_PENDING only after its passcode was entered,
\* whatever copies are written over it.
LEMMA RowsEarnedStep == TypeOK /\ Linked /\ RowsEarned /\ [Next]_vars => RowsEarned'
<1>. SUFFICES ASSUME TypeOK, Linked, RowsEarned, [Next]_vars, NEW s \in Sessions,
                     row'[s] # None, row'[s].st = CAP
              PROVE  s \in verified'
  BY DEF RowsEarned
<1>. USE DEF TypeOK
<1>s. Steady BY SteadyStep
<1>a. ASSUME row'[s] = row[s] PROVE s \in verified'
  BY <1>s, <1>a DEF RowsEarned, Steady
<1>1. CASE UNCHANGED row
  BY <1>1, <1>a
<1>2. ASSUME NEW p \in Procs, Step(p) PROVE s \in verified'
  <2>1. CASE UNCHANGED row BY <1>a, <2>1
  <2>2. CASE ~UNCHANGED row
    <3>1. PICK r \in Row : Write(cmd[p].s, r) /\ (r.st = CAP => cmd[p].s \in verified')
      BY <1>2, <2>2, StepWrites DEF Linked
    <3>. QED BY <1>a, <3>1 DEF Write
  <2>. QED BY <2>1, <2>2
<1>3. ASSUME NEW p \in Procs, NEW t \in Sessions, NEW c \in Children \cup {None},
             CreateSession(p, t, c) PROVE s \in verified'
  <2>1. NewRow(c).st # CAP BY DEF NewRow, CAP
  <2>. QED BY <1>3, <1>a, <2>1 DEF CreateSession, Write
<1>4. ASSUME NEW p \in Procs, NEW n \in Nonces, NEW c \in Children, CreateChallenge(p, c, n)
      PROVE  s \in verified'
  <2>1. cmd[p] # Idle BY <1>4, IdleCommand DEF CreateChallenge, Op
  <2>2. cmd[p].s \in Sessions /\ row[cmd[p].s] \in Row BY <2>1, CommandType DEF Linked
  <2>3. row'[s] = row[s] \/ (row[s] \in Row /\ row'[s] = [row[s] EXCEPT !.child = c])
    BY <1>4, <2>2 DEF CreateChallenge
  <2>. QED BY <1>s, <1>a, <2>3 DEF Row, RowsEarned, Steady
<1>5. ASSUME NEW c \in Children, RevokeTrust(c) PROVE s \in verified'
  <2>1. row[s] # None => WithState(row[s], "REVOKED").st # CAP BY DEF WithState, Row, CAP
  <2>. QED BY <1>5, <1>a, <2>1 DEF RevokeTrust
<1>. QED BY <1>1, <1>2, <1>3, <1>4, <1>5
  DEF Next, PairStart, PairVerify, PairAuthorize, PairCancel, PairRevoke, ResendOtp, Op,
         vars, Begin, BeginSubmit, Answer, Lapse

\* So is the copy of a command under way: it was read from such a row.
LEMMA CopiesEarnedStep ==
  TypeOK /\ Linked /\ RowsEarned /\ CopiesEarned /\ [Next]_vars => CopiesEarned'
<1>. SUFFICES ASSUME TypeOK, Linked, RowsEarned, CopiesEarned, [Next]_vars, NEW q \in Procs,
                     cmd'[q] # Idle, cmd'[q].copy.st = CAP
              PROVE  cmd'[q].s \in verified'
  BY DEF CopiesEarned
<1>. USE DEF TypeOK
<1>s. verified \subseteq verified' BY SteadyStep DEF Steady
<1>a. ASSUME cmd'[q] = cmd[q] PROVE cmd'[q].s \in verified'
  BY <1>s, <1>a DEF CopiesEarned
<1>1. CASE UNCHANGED cmd
  BY <1>1, <1>a
<1>2. ASSUME NEW p \in Procs, Step(p) PROVE cmd'[q].s \in verified'
  <2>1. CASE cmd[p].op \in SubmitOp /\ q = p /\ cmd'[p].s = cmd[p].s /\ cmd'[p].copy = cmd[p].copy
    BY <1>s, <2>1, IdleCommand DEF CopiesEarned
  <2>2. "VERIFICATION_PENDING" # CAP BY DEF CAP
  <2>. QED BY <1>2, <1>a, <2>1, <2>2, StepMoves
<1>3. ASSUME NEW p \in Procs, NEW s \in Sessions, NEW c \in Children \cup {None},
             CreateSession(p, s, c) PROVE cmd'[q].s \in verified'
  <2>1. [op |-> "deliver", s |-> s, copy |-> NewRow(c)].copy.st # CAP BY DEF NewRow, CAP
  <2>. QED BY <1>3, <1>a, <2>1 DEF CreateSession, Goto
<1>4. ASSUME NEW p \in Procs, NEW s \in Sessions, NEW op \in Op, Begin(p, op, s)
      PROVE  cmd'[q].s \in verified'
  <2>1. cmd'[q] = cmd[q] \/ cmd'[q] = [op |-> op, s |-> s, copy |-> row[s]]
    BY <1>4 DEF Begin, Goto
  <2>. QED BY <1>4, <1>s, <1>a, <2>1 DEF Begin, RowsEarned
<1>5. ASSUME NEW p \in Procs, NEW s \in Sessions, NEW d \in answers, BeginSubmit(p, s, d)
      PROVE  cmd'[q].s \in verified'
  <2>1. \/ cmd'[q] = cmd[q]
        \/ cmd'[q] = [op |-> "submit", s |-> s, copy |-> row[s], d |-> d]
    BY <1>5 DEF BeginSubmit, Goto
  <2>. QED BY <1>5, <1>s, <1>a, <2>1 DEF BeginSubmit, RowsEarned
<1>6. ASSUME NEW p \in Procs, NEW n \in Nonces, NEW c \in Children, CreateChallenge(p, c, n)
      PROVE  cmd'[q].s \in verified'
  BY <1>6, <1>a DEF CreateChallenge, Done, Goto
<1>. QED BY <1>1, <1>2, <1>3, <1>4, <1>5, <1>6
  DEF Next, PairStart, PairVerify, PairAuthorize, PairCancel, PairRevoke, ResendOtp, Op,
         vars, Answer, RevokeTrust, Lapse

\* A command that records an answer saw the session waiting for the child, and
\* one that establishes trust records an approval.
LEMMA AnswersEarnedStep ==
  TypeOK /\ Linked /\ AnswersEarned /\ [Next]_vars => AnswersEarned'
<1>. SUFFICES ASSUME TypeOK, Linked, AnswersEarned, [Next]_vars, NEW q \in Procs
              PROVE  /\ cmd'[q].op \in {"consume", "decide", "establish"} => cmd'[q].copy.st = CAP
                     /\ cmd'[q].op = "establish" => Verifies(cmd'[q].d) /\ cmd'[q].d.answer = "APPROVE"
  BY DEF AnswersEarned
<1>. USE DEF TypeOK
<1>a. ASSUME cmd'[q] = cmd[q]
      PROVE  /\ cmd'[q].op \in {"consume", "decide", "establish"} => cmd'[q].copy.st = CAP
             /\ cmd'[q].op = "establish" => Verifies(cmd'[q].d) /\ cmd'[q].d.answer = "APPROVE"
  BY <1>a DEF AnswersEarned
<1>b. ASSUME cmd'[q].op \notin {"consume", "decide", "establish"}
      PROVE  /\ cmd'[q].op \in {"consume", "decide", "establish"} => cmd'[q].copy.st = CAP
             /\ cmd'[q].op = "establish" => Verifies(cmd'[q].d) /\ cmd'[q].d.answer = "APPROVE"
  BY <1>b
<1>i. Idle.op \notin {"consume", "decide", "establish"} BY DEF Idle
<1>1. CASE UNCHANGED cmd
  BY <1>1, <1>a
<1>2. ASSUME NEW p \in Procs, CheckNonce(p) \/ ConsumeNonce(p)
      PROVE  /\ cmd'[q].op \in {"consume", "decide", "establish"} => cmd'[q].copy.st = CAP
             /\ cmd'[q].op = "establish" => Verifies(cmd'[q].d) /\ cmd'[q].d.answer = "APPROVE"
  <2>1. cmd[p] \in [op : SubmitOp, s : Sessions, copy : Row, d : Decision]
    BY <1>2, CommandType, IdleCommand DEF CheckNonce, ConsumeNonce, SubmitOp
  <2>2. cmd[p].copy.st = CAP
    BY <1>2 DEF CheckNonce, ConsumeNonce, AwaitsChild, Copy, CAP, AnswersEarned
  <2>3. /\ \A op : [cmd[p] EXCEPT !.op = op].copy = cmd[p].copy /\ [cmd[p] EXCEPT !.op = op].op = op
    BY <2>1
  <2>4. cmd'[q] = cmd[q] \/ \E op \in {"consume", "decide"} : cmd'[q] = [cmd[p] EXCEPT !.op = op]
    BY <1>2 DEF CheckNonce, ConsumeNonce, Goto
  <2>. QED BY <1>a, <2>2, <2>3, <2>4
<1>3. ASSUME NEW p \in Procs, RecordApproval(p)
      PROVE  /\ cmd'[q].op \in {"consume", "decide", "establish"} => cmd'[q].copy.st = CAP
             /\ cmd'[q].op = "establish" => Verifies(cmd'[q].d) /\ cmd'[q].d.answer = "APPROVE"
  <2>1. cmd[p] \in [op : SubmitOp, s : Sessions, copy : Row, d : Decision]
    BY <1>3, CommandType, IdleCommand DEF RecordApproval, SubmitOp
  <2>. DEFINE next == [cmd[p] EXCEPT !.op = "establish"]
  <2>2. next.copy = cmd[p].copy /\ next.d = cmd[p].d BY <2>1
  <2>3. cmd[p].copy.st = CAP /\ Verifies(cmd[p].d) /\ cmd[p].d.answer = "APPROVE"
    BY <1>3 DEF RecordApproval, AnswersEarned, Signed
  <2>4. cmd'[q] = cmd[q] \/ cmd'[q] = next BY <1>3 DEF RecordApproval, Goto
  <2>. HIDE DEF next
  <2>. QED BY <1>a, <2>2, <2>3, <2>4
<1>13. ASSUME NEW p \in Procs, Deliver(p) PROVE cmd'[q] = cmd[q] \/ cmd'[q].op = "deliver"
  <2>1. cmd[p] \in [op : Op, s : Sessions, copy : Row]
    BY <1>13, IdleCommand DEF Deliver, Command, Op, SubmitOp
  <2>. QED BY <1>13, <2>1 DEF Deliver, Goto
<1>4. ASSUME NEW p \in Procs, Step(p),
             ~(CheckNonce(p) \/ ConsumeNonce(p) \/ RecordApproval(p) \/ Deliver(p))
      PROVE  cmd'[q] = cmd[q] \/ cmd'[q] = Idle
  BY <1>4 DEF Step, DeliverFails, Resend, Cancel, End, VerifyRight, VerifyWrong, VerifyStale, VerifyTooLate,
     RecordDenial, EstablishTrust, AuthorizeTooLate, Expire, Done, Goto
<1>5. ASSUME NEW p \in Procs, NEW s \in Sessions, NEW c \in Children \cup {None},
             CreateSession(p, s, c)
      PROVE  cmd'[q] = cmd[q] \/ cmd'[q].op = "deliver"
  BY <1>5 DEF CreateSession, Goto
<1>6. ASSUME NEW p \in Procs, NEW s \in Sessions, NEW op \in Op, Begin(p, op, s)
      PROVE  cmd'[q] = cmd[q] \/ cmd'[q].op \in Op
  BY <1>6 DEF Begin, Goto
<1>7. ASSUME NEW p \in Procs, NEW s \in Sessions, NEW d \in answers, BeginSubmit(p, s, d)
      PROVE  cmd'[q] = cmd[q] \/ cmd'[q].op = "submit"
  BY <1>7 DEF BeginSubmit, Goto
<1>8. ASSUME NEW p \in Procs, NEW n \in Nonces, NEW c \in Children, CreateChallenge(p, c, n)
      PROVE  cmd'[q] = cmd[q] \/ cmd'[q] = Idle
  BY <1>8 DEF CreateChallenge, Done, Goto
<1>9. Op \cap {"consume", "decide", "establish"} = {} /\ "submit" \notin {"consume", "decide", "establish"}
  BY DEF Op
<1>10. CASE \E p \in Procs : Step(p)
  BY <1>10, <1>a, <1>b, <1>i, <1>2, <1>3, <1>4, <1>13
<1>11. CASE cmd'[q] = cmd[q] \/ cmd'[q] = Idle \/ cmd'[q].op \in Op \cup {"submit"}
  BY <1>11, <1>a, <1>b, <1>i, <1>9
<1>12. CASE ~\E p \in Procs : Step(p)
  <2>1. cmd'[q] = cmd[q] \/ cmd'[q] = Idle \/ cmd'[q].op \in Op \cup {"submit"}
    BY <1>12, <1>5, <1>6, <1>7, <1>8
      DEF Next, PairStart, PairVerify, PairAuthorize, PairCancel, PairRevoke, ResendOtp, Op,
             vars, Answer, RevokeTrust, Lapse
  <2>. QED BY <1>11, <2>1
<1>. QED BY <1>10, <1>12

\* What backs the trust in a child stays; a record that is written now comes of a
\* command that verified an approval and looked its challenge up.
LEMMA TrustIsEarnedStep == TypeOK /\ Linked /\ Earned /\ [Next]_vars => TrustIsEarned'
<1>. DEFINE Backs(d, c) == /\ d.c = c /\ d.by = trust[c].key /\ d.answer = "APPROVE"
                          /\ nonce[d.n] # None /\ nonce[d.n].s = trust[c].via
<1>. SUFFICES ASSUME TypeOK, Linked, Earned, [Next]_vars, NEW c \in Children, trust'[c].status # "none"
              PROVE  trust'[c].via \in verified' /\ \E d \in answers' : Backs(d, c)'
  BY DEF TrustIsEarned
<1>. USE DEF TypeOK
<1>s. Steady BY SteadyStep
<1>a. ASSUME NEW d \in answers, nonce[d.n] # None, nonce[d.n].s = trust'[c].via, d.c = c,
             d.by = trust'[c].key, d.answer = "APPROVE", trust'[c].via \in verified
      PROVE  trust'[c].via \in verified' /\ \E e \in answers' : Backs(e, c)'
  <2>1. d.n \in Nonces BY DEF Decision
  <2>2. nonce'[d.n] # None /\ nonce'[d.n].s = nonce[d.n].s BY <1>s, <1>a, <2>1 DEF Steady
  <2>3. trust'[c].via \in verified' /\ d \in answers' BY <1>s, <1>a DEF Steady
  <2>. QED BY <1>a, <2>2, <2>3
<1>1. CASE trust[c].status # "none" /\ trust'[c].via = trust[c].via /\ trust'[c].key = trust[c].key
  <2>1. PICK d \in answers : Backs(d, c)
    BY <1>1 DEF Earned, TrustIsEarned
  <2>2. trust[c].via \in verified BY <1>1 DEF Earned, TrustIsEarned
  <2>. QED BY <1>1, <1>a, <2>1, <2>2
<1>2. CASE UNCHANGED trust
  BY <1>1, <1>2
<1>3. ASSUME NEW p \in Procs, EstablishTrust(p)
      PROVE  trust'[c].via \in verified' /\ \E d \in answers' : Backs(d, c)'
  <2>1. cmd[p] # Idle /\ cmd[p].op \in LookedUp
    BY <1>3, IdleCommand DEF EstablishTrust, SubmitOp, LookedUp
  <2>2. /\ cmd[p].d \in answers
        /\ nonce[cmd[p].d.n] # None /\ nonce[cmd[p].d.n].s = cmd[p].s
    BY <2>1 DEF Linked, LookedUp
  <2>3. cmd[p].d.by = cmd[p].d.key /\ cmd[p].d.answer = "APPROVE" /\ cmd[p].copy.st = CAP
    BY <1>3 DEF EstablishTrust, Earned, AnswersEarned, Verifies
  <2>4. cmd[p].s \in verified BY <2>1, <2>3 DEF Earned, CopiesEarned
  <2>5. trust'[c] = IF c = cmd[p].d.c
                      THEN [status |-> "ACTIVE", via |-> cmd[p].s, key |-> cmd[p].d.key]
                      ELSE trust[c]
    BY <1>3 DEF EstablishTrust, Signed
  <2>6. CASE c = cmd[p].d.c
    BY <1>a, <2>2, <2>3, <2>4, <2>5, <2>6
  <2>7. CASE c # cmd[p].d.c
    BY <1>1, <2>5, <2>7
  <2>. QED BY <2>6, <2>7
<1>4. ASSUME NEW d \in Children, RevokeTrust(d)
      PROVE  trust[c].status # "none" /\ trust'[c].via = trust[c].via /\ trust'[c].key = trust[c].key
  <2>1. trust[d] \in TrustRecord BY DEF TrustRecord
  <2>. QED BY <1>4, <2>1 DEF RevokeTrust, TrustRecord
<1>5. ASSUME NEW p \in Procs, Step(p), ~EstablishTrust(p) PROVE UNCHANGED trust
  BY <1>5 DEF Step, Deliver, DeliverFails, Resend, Cancel, End, VerifyRight, VerifyWrong, VerifyStale, VerifyTooLate,
     CheckNonce, ConsumeNonce, RecordDenial, RecordApproval, AuthorizeTooLate
<1>6. CASE \E p \in Procs : Step(p)
  BY <1>2, <1>3, <1>5, <1>6
<1>7. CASE \E d \in Children : RevokeTrust(d)
  BY <1>1, <1>4, <1>7
<1>8. CASE ~(\E p \in Procs : Step(p)) /\ ~(\E d \in Children : RevokeTrust(d))
  <2>1. UNCHANGED trust
    BY <1>8
      DEF Next, PairStart, PairVerify, PairAuthorize, PairCancel, PairRevoke, ResendOtp, Op,
             vars, CreateSession, Begin, BeginSubmit, CreateChallenge, Answer, Lapse
  <2>. QED BY <1>2, <2>1
<1>. QED BY <1>6, <1>7, <1>8

\* However many commands read, wait, submit a decision again, overwrite each
\* other's rows and die, a child's trust record comes of a session whose passcode
\* was entered, and the owner of the recorded key has signed, as that child, an
\* approval of a challenge of that session (manager.py, verify_otp and
\* submit_child_authorization; trust.py, establish_trust).  It does not follow that
\* this is the challenged child or its key: TrustIsOfTheChallenged does not hold.
THEOREM TrustTheorem == Spec => []TrustIsEarned
<1>1. Init => TypeOK /\ Linked /\ Earned
  <2>1. ASSUME Init PROVE TypeOK
    BY <2>1 DEF Init, TypeOK, Command
  <2>2. ASSUME Init PROVE Linked
    BY <2>2 DEF Init, Linked, Idle, SubmitOp, LookedUp
  <2>3. ASSUME Init PROVE Earned
    BY <2>3 DEF Init, Earned, RowsEarned, CopiesEarned, AnswersEarned, TrustIsEarned, Idle
  <2>. QED BY <2>1, <2>2, <2>3
<1>2. (TypeOK /\ Linked /\ Earned) /\ [Next]_vars => (TypeOK /\ Linked /\ Earned)'
  BY TypeStep, LinkedStep, RowsEarnedStep, CopiesEarnedStep, AnswersEarnedStep, TrustIsEarnedStep DEF Earned
<1>3. Earned => TrustIsEarned
  BY DEF Earned
<1>. QED BY <1>1, <1>2, <1>3, PTL DEF Spec

\* As long as every decision is made as the adapter of `guardian pair authorize` makes
\* it (authorization.py 210-230), the trusted child is one that was challenged, with
\* its own key; the parent's side alone does not see to it (manager.py 426-477).
THEOREM AdapterTheorem == Spec => [](AnsweredByAdapter => TrustIsOfTheChallenged)
<1>1. TypeOK /\ TrustIsEarned => (AnsweredByAdapter => TrustIsOfTheChallenged)
  <2>. SUFFICES ASSUME TypeOK, TrustIsEarned, AnsweredByAdapter, NEW c \in Children,
                       trust[c].status # "none"
                PROVE  /\ trust[c].key = c
                       /\ \E n \in Nonces :
                            nonce[n] # None /\ nonce[n].s = trust[c].via /\ nonce[n].c = c
    BY DEF TrustIsOfTheChallenged
  <2>1. PICK d \in answers : /\ d.c = c /\ d.by = trust[c].key
                             /\ nonce[d.n] # None /\ nonce[d.n].s = trust[c].via
    BY DEF TrustIsEarned
  <2>2. d.c = nonce[d.n].c /\ d.by = d.c BY DEF AnsweredByAdapter
  <2>3. d.n \in Nonces BY DEF TypeOK, Decision
  <2>. QED BY <2>1, <2>2, <2>3
<1>. QED BY <1>1, TypeCorrect, TrustTheorem, PTL

-----------------------------------------------------------------------------
(* Commands that run one after the other.                                  *)

\* One command is under way at most, and its copy is what the row says until it
\* has written PAIRED.
OneCommand == \A p, q \in Procs : cmd[p] # Idle /\ cmd[q] # Idle => p = q
CopyIsCurrent ==
  \A p \in Procs : cmd[p] # Idle /\ cmd[p].op # "establish" => cmd[p].copy = row[cmd[p].s]

Closed == TerminalStates
Paired == {"PAIRED"} \cup TerminalStates

\* The attempts of a row count every wrong passcode; a denied session is closed
\* and gave no trust; a session that gave trust, or is about to, is past the
\* child's answer.
SessionInv(s) ==
  /\ row[s] = None => wrong[s] = 0 /\ s \notin denied
  /\ row[s] # None => wrong[s] <= row[s].att
  /\ s \in denied => row[s].st \in Closed
  /\ \A c \in Children : trust[c].via = s =>
       row[s] # None /\ row[s].st \in Paired /\ s \notin denied
  /\ \A p \in Procs : cmd[p].op = "establish" /\ cmd[p].s = s =>
       row[s] # None /\ row[s].st = "PAIRED" /\ s \notin denied

SequentialInv == OneCommand /\ CopyIsCurrent /\ \A s \in Sessions : SessionInv(s)

\* How a row may change: attempts are never forgotten, and neither is the end of a
\* session, nor that it came to trust.
Forward(r, new) ==
  /\ r.att <= new.att
  /\ r.st \in Closed => new.st \in Closed
  /\ r.st \in Paired => new.st \in Paired

\* What a step does to session s.
Moved(s) ==
  /\ row[s] # None => row'[s] # None /\ Forward(row[s], row'[s])
  /\ \/ wrong'[s] = wrong[s]
     \/ row[s] # None /\ wrong'[s] = wrong[s] + 1 /\ row'[s].att = row[s].att + 1
     \/ row[s] # None /\ wrong[s] > MaxAttempts
  /\ s \in denied' => s \in denied \/ (row[s] # None /\ row[s].st = CAP /\ row'[s].st \in Closed)

LEMMA ForwardIsKept ==
  ASSUME NEW r \in Row
  PROVE  /\ Forward(r, r)
         /\ \A st \in Closed : Forward(r, WithState(r, st))
         /\ \A c \in Children : Forward(r, [r EXCEPT !.child = c])
         /\ AttemptLeft(r) /\ r.st = "VERIFICATION_PENDING" =>
              /\ Forward(r, Attempted(r)) /\ Attempted(r).att = r.att + 1
              /\ Forward(r, Rejected(r)) /\ Rejected(r).att = r.att + 1
BY DEF Row, Forward, Closed, Paired, TerminalStates, PairingState, WithState, Attempted, Rejected

\* A step that writes one row, without a wrong passcode or a denial.
LEMMA ForwardWrite ==
  ASSUME TypeOK, NEW s \in Sessions, row[s] # None, NEW r \in Row, Write(s, r),
         Forward(row[s], r), UNCHANGED <<wrong, denied>>
  PROVE  \A t \in Sessions : Moved(t)
<1>1. \A t \in Sessions : row'[t] = IF t = s THEN r ELSE row[t]
  BY DEF Write, TypeOK
<1>2. \A t \in Sessions : row[t] # None => Forward(row[t], row[t])
  BY ForwardIsKept DEF TypeOK
<1>3. r # None OBVIOUS
<1> QED BY <1>1, <1>2, <1>3 DEF Moved

LEMMA NothingMoves ==
  ASSUME TypeOK, UNCHANGED <<row, wrong, denied>>
  PROVE  \A t \in Sessions : Moved(t)
BY ForwardIsKept DEF Moved, TypeOK

\* A command under way moves its session forward.
LEMMA StepMovesForward ==
  ASSUME TypeOK, Linked, AnswersEarned, CopyIsCurrent, NEW p \in Procs, Step(p)
  PROVE  \A t \in Sessions : Moved(t)
<1> DEFINE s == cmd[p].s
<1>0. /\ cmd[p] # Idle /\ s \in Sessions /\ Copy(p) \in Row /\ row[s] # None
      /\ cmd[p].op # "establish" => Copy(p) = row[s]
      /\ cmd[p].op \in SubmitOp => cmd[p].d.c \in Children
  BY StepWrites, CommandType DEF Copy, Linked, CopyIsCurrent, TypeOK
<1>a. ASSUME cmd[p].op # "establish", UNCHANGED <<wrong, denied>>, NEW r \in Row, Write(s, r),
             Forward(Copy(p), r)
      PROVE  \A t \in Sessions : Moved(t)
  BY <1>0, <1>a, ForwardWrite
<1>b. {"EXPIRED", "CANCELLED", "DENIED"} \subseteq Closed /\ Closed \subseteq PairingState
  BY DEF Closed, TerminalStates, PairingState
<1>c. \A st \in Closed : WithState(Copy(p), st) \in Row /\ Forward(Copy(p), WithState(Copy(p), st))
  BY <1>0, <1>b, RowsWritten, ForwardIsKept
<1>1. CASE Expire(p) /\ cmd[p].op # "establish" /\ UNCHANGED <<wrong, denied>>
  BY <1>1, <1>a, <1>b, <1>c DEF Expire
<1>2. CASE DeliverFails(p) \/ Cancel(p)
  BY <1>2, <1>a, <1>b, <1>c DEF DeliverFails, Cancel, history
<1>3. CASE Deliver(p)
  <2>1. WithState(Copy(p), "VERIFICATION_PENDING") \in Row
    BY <1>0, RowsWritten DEF PairingState
  <2>2. Forward(Copy(p), WithState(Copy(p), "VERIFICATION_PENDING"))
    BY <1>0, <1>3 DEF Deliver, Forward, WithState, Row, Closed, Paired, TerminalStates
  <2> QED BY <1>3, <1>a, <2>1, <2>2 DEF Deliver, history
<1>4. CASE Resend(p) /\ ~Expire(p)
  <2> DEFINE r == [Copy(p) EXCEPT !.st = "VERIFICATION_PENDING", !.otp = TRUE,
                                  !.att = AttemptsKept(Copy(p))]
  <2>1. r \in Row
    BY <1>0, RowsWritten DEF PairingState
  <2>2. CASE Copy(p).st \in Resendable /\ Write(s, r)
    <3>1. Forward(Copy(p), r)
      BY <1>0, <2>2 DEF Resendable, Forward, AttemptsKept, Row, Closed, Paired, TerminalStates
    <3> QED BY <1>4, <1>a, <2>1, <2>2, <3>1 DEF Resend, history
  <2>3. CASE UNCHANGED row
    BY <1>4, <2>3, NothingMoves DEF Resend, history
  <2> QED BY <1>4, <2>2, <2>3 DEF Resend
<1>5. CASE VerifyRight(p)
  <2> DEFINE r == [Copy(p) EXCEPT !.st = "CHILD_AUTHORIZATION_PENDING", !.otp = FALSE]
  <2>1. r \in Row
    BY <1>0, RowsWritten DEF PairingState
  <2>2. Forward(Copy(p), r)
    BY <1>0, <1>5 DEF VerifyRight, Enterable, Forward, Row, Closed, Paired, TerminalStates
  <2> QED BY <1>5, <1>a, <2>1, <2>2 DEF VerifyRight, Enterable
<1>6. CASE VerifyWrong(p)
  <2>1. /\ AttemptLeft(Copy(p)) /\ Copy(p).st = "VERIFICATION_PENDING" /\ Copy(p) = row[s]
        /\ Write(s, Rejected(Copy(p))) /\ denied' = denied
        /\ wrong' = [wrong EXCEPT ![s] = IF @ <= MaxAttempts THEN @ + 1 ELSE @]
    BY <1>0, <1>6 DEF VerifyWrong, Enterable
  <2>2. /\ Rejected(Copy(p)) \in Row /\ Forward(Copy(p), Rejected(Copy(p)))
        /\ Rejected(Copy(p)).att = Copy(p).att + 1
    BY <1>0, <2>1, RowsWritten, ForwardIsKept
  <2>3. \A t \in Sessions : row'[t] = IF t = s THEN Rejected(Copy(p)) ELSE row[t]
    BY <1>0, <2>1 DEF Write, TypeOK
  <2>4. \A t \in Sessions :
          wrong'[t] = IF t = s /\ wrong[s] <= MaxAttempts THEN wrong[s] + 1 ELSE wrong[t]
    BY <1>0, <2>1 DEF TypeOK
  <2>5. Moved(s)
    BY <1>0, <2>1, <2>2, <2>3, <2>4 DEF Moved, TypeOK
  <2>6. \A t \in Sessions \ {s} : Moved(t)
    BY <2>1, <2>3, <2>4, ForwardIsKept DEF Moved, TypeOK
  <2> QED BY <2>5, <2>6
<1>7. CASE VerifyStale(p)
  <2>1. AttemptLeft(Copy(p)) /\ Copy(p).st = "VERIFICATION_PENDING"
    BY <1>7 DEF VerifyStale, Enterable
  <2>2. Attempted(Copy(p)) \in Row /\ Forward(Copy(p), Attempted(Copy(p)))
    BY <1>0, <2>1, RowsWritten, ForwardIsKept
  <2> QED BY <1>7, <1>a, <2>2 DEF VerifyStale, Enterable, history
<1>8. CASE RecordDenial(p)
  <2> DEFINE r == [Copy(p) EXCEPT !.st = AfterDenial, !.child = Signed(p).c]
  <2>1. Copy(p) = row[s] /\ Copy(p).st = CAP /\ Write(s, r) /\ wrong' = wrong /\ denied' = denied \cup {s}
    BY <1>0, <1>8 DEF RecordDenial, AnswersEarned, Copy
  <2>2. r.att = Copy(p).att /\ r.st = "DENIED" /\ r \in Row
    <3>1. Signed(p).c \in Children
      BY <1>0, <1>8 DEF RecordDenial, SubmitOp, Signed
    <3>2. r \in Row
      BY <1>0, <3>1, RowsWritten DEF AfterDenial, PairingState
    <3> QED BY <1>0, <3>2 DEF Row, AfterDenial
  <2>3. Forward(Copy(p), r) /\ r.st \in Closed
    BY <1>0, <1>b, <2>1, <2>2 DEF Forward, Closed, Paired, CAP, TerminalStates, Row
  <2> HIDE DEF r
  <2>4. \A t \in Sessions : row'[t] = IF t = s THEN r ELSE row[t]
    BY <1>0, <2>1 DEF Write, TypeOK
  <2>5. Moved(s)
    BY <1>0, <2>1, <2>2, <2>3, <2>4 DEF Moved
  <2>6. \A t \in Sessions \ {s} : Moved(t)
    BY <2>1, <2>4, ForwardIsKept DEF Moved, TypeOK
  <2> QED BY <2>5, <2>6
<1>9. CASE RecordApproval(p)
  <2> DEFINE r == [Copy(p) EXCEPT !.st = "PAIRED", !.child = Signed(p).c]
  <2>1. Copy(p).st = CAP /\ Write(s, r) /\ UNCHANGED <<wrong, denied>> /\ cmd[p].op # "establish"
    BY <1>9 DEF RecordApproval, AnswersEarned, Copy, history
  <2>2. r.att = Copy(p).att /\ r.st = "PAIRED" /\ r \in Row
    <3>1. Signed(p).c \in Children
      BY <1>0, <1>9 DEF RecordApproval, SubmitOp, Signed
    <3>2. r \in Row
      BY <1>0, <3>1, RowsWritten DEF PairingState
    <3> QED BY <1>0, <3>2 DEF Row
  <2>3. Forward(Copy(p), r)
    BY <1>0, <2>1, <2>2 DEF Forward, Closed, Paired, CAP, TerminalStates, Row
  <2> QED BY <1>a, <2>1, <2>2, <2>3
<1>10. CASE End(p) \/ CheckNonce(p) \/ ConsumeNonce(p) \/ EstablishTrust(p)
  BY <1>10, NothingMoves DEF End, CheckNonce, ConsumeNonce, EstablishTrust, history
<1>11. CASE VerifyTooLate(p) \/ AuthorizeTooLate(p)
  BY <1>11, <1>1 DEF VerifyTooLate, AuthorizeTooLate, history
<1>12. CASE Resend(p) /\ Expire(p)
  BY <1>12, <1>1 DEF Resend, history
<1> QED BY <1>2, <1>3, <1>4, <1>5, <1>6, <1>7, <1>8, <1>9, <1>10, <1>11, <1>12 DEF Step

\* Every step moves every session forward.
LEMMA EveryStepMovesForward ==
  ASSUME TypeOK, Linked, AnswersEarned, CopyIsCurrent, [Next]_vars
  PROVE  \A t \in Sessions : Moved(t)
<1>1. ASSUME NEW p \in Procs, NEW s \in Sessions, NEW c \in Children \cup {None},
             CreateSession(p, s, c)
      PROVE  \A t \in Sessions : Moved(t)
  <2>1. \A t \in Sessions : row[t] # None => row'[t] = row[t]
    BY <1>1 DEF CreateSession, Write, TypeOK
  <2> QED BY <1>1, <2>1, ForwardIsKept DEF CreateSession, history, Moved, TypeOK
<1>2. ASSUME NEW p \in Procs, NEW n \in Nonces, NEW c \in Children, CreateChallenge(p, c, n)
      PROVE  \A t \in Sessions : Moved(t)
  <2>1. cmd[p] # Idle /\ cmd[p].s \in Sessions /\ row[cmd[p].s] \in Row
    BY <1>2, IdleCommand, CommandType DEF CreateChallenge, Op, Linked, TypeOK
  <2> DEFINE r == [row[cmd[p].s] EXCEPT !.child = c]
  <2>2. r \in Row /\ Forward(row[cmd[p].s], r)
    BY <2>1, ForwardIsKept DEF Row
  <2>3. Write(cmd[p].s, r)
    BY <1>2, <2>1 DEF CreateChallenge, Write, TypeOK
  <2> QED BY <1>2, <2>1, <2>2, <2>3, ForwardWrite DEF CreateChallenge, history
<1>3. ASSUME NEW c \in Children, RevokeTrust(c) PROVE \A t \in Sessions : Moved(t)
  <2>1. "REVOKED" \in Closed /\ "REVOKED" \in PairingState
    BY DEF Closed, TerminalStates, PairingState
  <2>2. \A t \in Sessions : row'[t] = row[t] \/ (row[t] # None /\ row'[t] = WithState(row[t], "REVOKED"))
    BY <1>3 DEF RevokeTrust, TypeOK
  <2>3. \A r \in Row : /\ Forward(r, r) /\ Forward(r, WithState(r, "REVOKED"))
                       /\ WithState(r, "REVOKED") \in Row
    BY <2>1, ForwardIsKept, RowsWritten
  <2>4. \A t \in Sessions : row[t] # None =>
          /\ Forward(row[t], row[t]) /\ Forward(row[t], WithState(row[t], "REVOKED"))
          /\ WithState(row[t], "REVOKED") # None
    BY <2>3 DEF TypeOK
  <2> QED BY <1>3, <2>2, <2>4 DEF RevokeTrust, history, Moved
<1>4. CASE UNCHANGED <<row, wrong, denied>>
  BY <1>4, NothingMoves
<1> QED BY <1>1, <1>2, <1>3, <1>4, StepMovesForward
  DEF Next, PairStart, PairVerify, PairAuthorize, PairCancel, PairRevoke, ResendOtp, vars,
      Begin, BeginSubmit, Answer, Lapse, history

\* What the next step of a command leaves: nothing, or a command that has just
\* written PAIRED, or one whose copy is still the row.
LEMMA StepLeaves ==
  ASSUME TypeOK, Linked, AnswersEarned, CopyIsCurrent, NEW p \in Procs, Step(p)
  PROVE  /\ cmd[p] # Idle
         /\ \A q \in Procs \ {p} : cmd'[q] = cmd[q]
         /\ \/ cmd'[p] = Idle
            \/ /\ cmd'[p].op = "establish" /\ cmd'[p].s = cmd[p].s /\ cmd[p].op = "decide"
               /\ row'[cmd[p].s].st = "PAIRED"
            \/ cmd'[p].op # "establish" /\ cmd'[p].copy = row'[cmd'[p].s]
<1>0. /\ cmd[p] # Idle /\ cmd[p].s \in Sessions /\ Copy(p) \in Row
      /\ cmd[p].op \in SubmitOp => cmd[p] \in [op : SubmitOp, s : Sessions, copy : Row, d : Decision]
      /\ cmd[p].op # "establish" => cmd[p].copy = row[cmd[p].s]
  BY StepWrites, CommandType DEF Copy, Linked, CopyIsCurrent, TypeOK
<1>a. \A place : Goto(p, place) => cmd'[p] = place /\ \A q \in Procs \ {p} : cmd'[q] = cmd[q]
  BY DEF Goto, TypeOK
<1>1. CASE Deliver(p)
  <2>1. cmd[p] \in [op : Op, s : Sessions, copy : Row]
    BY <1>1, IdleCommand DEF TypeOK, Deliver, Command, Op, SubmitOp
  <2> DEFINE w == WithState(Copy(p), "VERIFICATION_PENDING")
             next == [cmd[p] EXCEPT !.copy = w]
  <2>2. next.op = cmd[p].op /\ next.s = cmd[p].s /\ next.copy = w
    BY <2>1
  <2>3. cmd[p].op = "deliver" /\ Write(cmd[p].s, w) /\ Goto(p, next)
    BY <1>1 DEF Deliver, Copy
  <2> HIDE DEF w, next
  <2>4. row'[cmd[p].s] = w
    BY <1>0, <2>3 DEF Write, TypeOK
  <2> QED BY <1>0, <1>a, <2>2, <2>3, <2>4
<1>2. CASE CheckNonce(p) \/ ConsumeNonce(p)
  <2>1. PICK op \in {"consume", "decide"} : Goto(p, [cmd[p] EXCEPT !.op = op])
    BY <1>2 DEF CheckNonce, ConsumeNonce
  <2>2. cmd[p].op \in SubmitOp \ {"establish"} /\ row' = row
    BY <1>2 DEF CheckNonce, ConsumeNonce, SubmitOp
  <2> DEFINE next == [cmd[p] EXCEPT !.op = op]
  <2>3. next.op = op /\ next.s = cmd[p].s /\ next.copy = cmd[p].copy
    BY <1>0, <2>2
  <2>4. Goto(p, next)
    BY <2>1
  <2> HIDE DEF next
  <2> QED BY <1>0, <1>a, <2>2, <2>3, <2>4
<1>3. CASE RecordApproval(p)
  <2> DEFINE next == [cmd[p] EXCEPT !.op = "establish"]
             r == [Copy(p) EXCEPT !.st = "PAIRED", !.child = Signed(p).c]
  <2>1. cmd[p].op = "decide" /\ Goto(p, next) /\ Write(cmd[p].s, r)
    BY <1>3 DEF RecordApproval
  <2>2. next.op = "establish" /\ next.s = cmd[p].s /\ r.st = "PAIRED"
    BY <1>0, <2>1 DEF SubmitOp, Row
  <2> HIDE DEF next, r
  <2>3. row'[cmd[p].s] = r
    BY <1>0, <2>1 DEF Write, TypeOK
  <2> QED BY <1>0, <1>a, <2>1, <2>2, <2>3
<1>4. CASE ~(CheckNonce(p) \/ ConsumeNonce(p) \/ RecordApproval(p) \/ Deliver(p))
  <2>1. Done(p)
    BY <1>4 DEF Step, DeliverFails, Resend, Cancel, End, VerifyRight, VerifyWrong, VerifyStale,
       VerifyTooLate, RecordDenial, EstablishTrust, AuthorizeTooLate, Expire
  <2> QED BY <1>0, <1>a, <2>1 DEF Done
<1> QED BY <1>1, <1>2, <1>3, <1>4

\* Where a session stands when a command comes to establish trust from it.
ReadyForTrust(s) == row[s] # None /\ row[s].st = "PAIRED" /\ s \notin denied

\* Sessions that move forward keep their invariant, if trust comes from where it may.
LEMMA SessionsKeep ==
  ASSUME TypeOK, TypeOK', \A s \in Sessions : SessionInv(s) /\ Moved(s),
         \A c \in Children, s \in Sessions :
           trust'[c].via = s => trust[c].via = s \/ ReadyForTrust(s)',
         \A q \in Procs, s \in Sessions :
           cmd'[q].op = "establish" /\ cmd'[q].s = s => ReadyForTrust(s)'
  PROVE  \A s \in Sessions : SessionInv(s)'
<1> SUFFICES ASSUME NEW s \in Sessions PROVE SessionInv(s)'
  OBVIOUS
<1>1. SessionInv(s) /\ Moved(s)
  OBVIOUS
<1>2. row[s] # None => row[s] \in Row /\ row[s].att \in 0 .. MaxAttempts
  BY DEF TypeOK, Row
<1>3. row'[s] # None => row'[s].att \in 0 .. MaxAttempts
  BY DEF TypeOK, Row
<1>4. wrong[s] \in 0 .. MaxAttempts + 1
  BY DEF TypeOK
<1>5. CAP \notin Paired /\ "PAIRED" \notin Closed /\ Closed \subseteq Paired /\ "PAIRED" \in Paired
  BY DEF Closed, Paired, CAP, TerminalStates
<1>6. row'[s] = None => wrong'[s] = 0 /\ s \notin denied'
  BY <1>1 DEF SessionInv, Moved
<1>7. row'[s] # None => wrong'[s] <= row'[s].att
  BY <1>1, <1>2, <1>3, <1>4 DEF SessionInv, Moved, Forward
<1>8. s \in denied' => row'[s].st \in Closed
  BY <1>1 DEF SessionInv, Moved, Forward
<1>9. ASSUME NEW c \in Children, trust'[c].via = s
      PROVE  row'[s] # None /\ row'[s].st \in Paired /\ s \notin denied'
  <2>1. CASE trust[c].via = s
    <3>1. row[s] # None /\ row[s].st \in Paired /\ s \notin denied
      BY <1>1, <2>1 DEF SessionInv
    <3> QED BY <1>1, <1>5, <3>1 DEF Moved, Forward
  <2>2. CASE ReadyForTrust(s)'
    BY <1>5, <2>2 DEF ReadyForTrust
  <2> QED BY <1>9, <2>1, <2>2
<1>10. \A q \in Procs : cmd'[q].op = "establish" /\ cmd'[q].s = s =>
         row'[s] # None /\ row'[s].st = "PAIRED" /\ s \notin denied'
  BY DEF ReadyForTrust
<1> QED BY <1>6, <1>7, <1>8, <1>9, <1>10 DEF SessionInv

\* A step without a command under way, or that ends or begins one.
LEMMA CommandsKeep ==
  ASSUME TypeOK, OneCommand, NEW p \in Procs,
         \A q \in Procs \ {p} : cmd'[q] = Idle,
         cmd'[p] = Idle \/ cmd'[p].op = "establish" \/ cmd'[p].copy = row'[cmd'[p].s]
  PROVE  OneCommand' /\ CopyIsCurrent'
BY DEF OneCommand, CopyIsCurrent

LEMMA SequentialStep ==
  ASSUME OneAtATime, TypeOK, TypeOK', Linked, AnswersEarned, SequentialInv, [Next]_vars
  PROVE  SequentialInv'
<1>0. OneCommand /\ CopyIsCurrent /\ \A s \in Sessions : SessionInv(s) /\ Moved(s)
  BY EveryStepMovesForward DEF SequentialInv
<1>i. Idle.op # "establish"
  BY DEF Idle
<1>1. ASSUME NEW p \in Procs, Step(p) PROVE SequentialInv'
  <2>1. /\ cmd[p] # Idle
        /\ \A q \in Procs \ {p} : cmd'[q] = cmd[q]
        /\ \/ cmd'[p] = Idle
           \/ /\ cmd'[p].op = "establish" /\ cmd'[p].s = cmd[p].s /\ cmd[p].op = "decide"
              /\ row'[cmd[p].s].st = "PAIRED"
           \/ cmd'[p].op # "establish" /\ cmd'[p].copy = row'[cmd'[p].s]
    BY <1>0, <1>1, StepLeaves
  <2>2. cmd[p].s \in Sessions /\ row[cmd[p].s] # None
    BY <2>1, CommandType DEF TypeOK, Linked
  <2>3. \A q \in Procs \ {p} : cmd'[q] = Idle
    BY <1>0, <2>1 DEF OneCommand
  <2>4. OneCommand' /\ CopyIsCurrent'
    BY <1>0, <2>1, <2>3, CommandsKeep
  <2>5. ASSUME NEW s \in Sessions, cmd'[p].op = "establish", cmd'[p].s = s
        PROVE  ReadyForTrust(s)'
    <3>1. cmd[p].s = s /\ row'[s].st = "PAIRED" /\ row'[s] # None /\ cmd[p].op = "decide"
      BY <1>0, <1>i, <2>1, <2>2, <2>5 DEF Moved
    <3>2. cmd[p].copy.st = CAP /\ cmd[p].copy = row[s]
      BY <1>0, <2>1, <3>1 DEF AnswersEarned, CopyIsCurrent
    <3>3. s \notin denied
      BY <1>0, <3>2 DEF SessionInv, CAP, Closed, TerminalStates
    <3>4. s \notin denied'
      BY <1>0, <3>1, <3>3 DEF Moved, Closed, TerminalStates
    <3> QED BY <3>1, <3>4 DEF ReadyForTrust
  <2>6. \A q \in Procs, s \in Sessions :
          cmd'[q].op = "establish" /\ cmd'[q].s = s => ReadyForTrust(s)'
    BY <1>i, <2>3, <2>5
  <2>7. ASSUME NEW c \in Children, NEW s \in Sessions, trust'[c].via = s
        PROVE  trust[c].via = s \/ ReadyForTrust(s)'
    <3>1. CASE EstablishTrust(p)
      <4>1. cmd[p].op = "establish" /\ UNCHANGED <<row, denied>>
        BY <3>1 DEF EstablishTrust, history
      <4>2. trust'[c] = trust[c] \/ trust'[c].via = cmd[p].s
        BY <3>1 DEF EstablishTrust, TypeOK
      <4>3. cmd[p].s = s => row[s] # None /\ row[s].st = "PAIRED" /\ s \notin denied
        BY <1>0, <4>1 DEF SessionInv
      <4> QED BY <2>7, <4>1, <4>2, <4>3 DEF ReadyForTrust
    <3>2. CASE ~EstablishTrust(p)
      <4>1. trust' = trust
        BY <1>1, <3>2 DEF Step, Deliver, DeliverFails, Resend, Cancel, End, VerifyRight, VerifyWrong,
           VerifyStale, VerifyTooLate, CheckNonce, ConsumeNonce, RecordDenial, RecordApproval,
           AuthorizeTooLate
      <4> QED BY <2>7, <4>1
    <3> QED BY <3>1, <3>2
  <2> QED BY <1>0, <2>4, <2>6, <2>7, SessionsKeep DEF SequentialInv
\* The steps that are not of a command under way establish no trust.
<1>a. ASSUME \A c \in Children : trust'[c].via = trust[c].via, OneCommand', CopyIsCurrent',
             \A q \in Procs : cmd'[q].op # "establish"
      PROVE  SequentialInv'
  BY <1>0, <1>a, SessionsKeep DEF SequentialInv
<1>2. ASSUME NEW p \in Procs, NEW s \in Sessions, NEW c \in Children \cup {None},
             CreateSession(p, s, c)
      PROVE  SequentialInv'
  <2>1. /\ cmd'[p] = [op |-> "deliver", s |-> s, copy |-> NewRow(c)] /\ row'[s] = NewRow(c)
        /\ \A q \in Procs \ {p} : cmd'[q] = Idle
    BY <1>2 DEF CreateSession, Free, Goto, Write, TypeOK
  <2>2. OneCommand' /\ CopyIsCurrent'
    BY <1>0, <2>1, CommandsKeep
  <2>3. \A q \in Procs : cmd'[q].op # "establish"
    BY <1>i, <2>1
  <2> QED BY <1>2, <1>a, <2>2, <2>3 DEF CreateSession
<1>3. ASSUME NEW p \in Procs, NEW s \in Sessions, NEW op \in Op, Begin(p, op, s)
      PROVE  SequentialInv'
  <2>1. /\ cmd'[p] = [op |-> op, s |-> s, copy |-> row[s]] /\ UNCHANGED <<row, trust>>
        /\ \A q \in Procs \ {p} : cmd'[q] = Idle
    BY <1>3 DEF Begin, Free, Goto, TypeOK
  <2>2. OneCommand' /\ CopyIsCurrent'
    BY <1>0, <2>1, CommandsKeep
  <2>3. \A q \in Procs : cmd'[q].op # "establish"
    BY <1>i, <2>1 DEF Op
  <2> QED BY <1>a, <2>1, <2>2, <2>3
<1>4. ASSUME NEW p \in Procs, NEW s \in Sessions, NEW d \in answers, BeginSubmit(p, s, d) PROVE SequentialInv'
  <2>1. /\ cmd'[p] = [op |-> "submit", s |-> s, copy |-> row[s], d |-> d]
        /\ UNCHANGED <<row, trust>> /\ \A q \in Procs \ {p} : cmd'[q] = Idle
    BY <1>4 DEF BeginSubmit, Free, Goto, TypeOK
  <2>2. OneCommand' /\ CopyIsCurrent'
    BY <1>0, <2>1, CommandsKeep
  <2>3. \A q \in Procs : cmd'[q].op # "establish"
    BY <1>i, <2>1
  <2> QED BY <1>a, <2>1, <2>2, <2>3
<1>5. ASSUME NEW p \in Procs, NEW n \in Nonces, NEW c \in Children, CreateChallenge(p, c, n)
      PROVE  SequentialInv'
  <2>1. cmd[p] # Idle
    BY <1>5, IdleCommand DEF CreateChallenge, Op, TypeOK
  <2>2. \A q \in Procs : cmd'[q] = Idle
    BY <1>0, <1>5, <2>1 DEF CreateChallenge, Done, Goto, OneCommand, TypeOK
  <2>3. OneCommand' /\ CopyIsCurrent'
    BY <2>2 DEF OneCommand, CopyIsCurrent
  <2>4. \A q \in Procs : cmd'[q].op # "establish"
    BY <1>i, <2>2
  <2> QED BY <1>5, <1>a, <2>3, <2>4 DEF CreateChallenge
<1>6. ASSUME NEW c \in Children, RevokeTrust(c) PROVE SequentialInv'
  <2>1. \A q \in Procs : cmd'[q] = Idle
    BY <1>6 DEF RevokeTrust
  <2>2. OneCommand' /\ CopyIsCurrent'
    BY <2>1 DEF OneCommand, CopyIsCurrent
  <2>3. \A q \in Procs : cmd'[q].op # "establish"
    BY <1>i, <2>1
  <2>4. trust[c] \in TrustRecord
    BY DEF TypeOK, TrustRecord
  <2>5. \A d \in Children : trust'[d].via = trust[d].via
    BY <1>6, <2>4 DEF RevokeTrust, TypeOK, TrustRecord
  <2> QED BY <1>a, <2>2, <2>3, <2>5
<1>7. CASE UNCHANGED <<row, trust, cmd, denied, wrong>>
  BY <1>0, <1>7 DEF SequentialInv, OneCommand, CopyIsCurrent, SessionInv
<1> QED BY <1>1, <1>2, <1>3, <1>4, <1>5, <1>6, <1>7
  DEF Next, PairStart, PairVerify, PairAuthorize, PairCancel, PairRevoke, ResendOtp, Op, vars,
      Answer, Lapse, history

PairingInv == TypeOK /\ Linked /\ Earned /\ SequentialInv

LEMMA SequentialInvariant == ASSUME OneAtATime PROVE Spec => []PairingInv
<1>1. Init => PairingInv
  <2>1. ASSUME Init PROVE TypeOK
    BY <2>1 DEF Init, TypeOK, Command
  <2>2. ASSUME Init PROVE Linked
    BY <2>2 DEF Init, Linked, Idle, SubmitOp, LookedUp
  <2>3. ASSUME Init PROVE Earned
    BY <2>3 DEF Init, Earned, RowsEarned, CopiesEarned, AnswersEarned, TrustIsEarned, Idle
  <2>4. ASSUME Init PROVE SequentialInv
    BY <2>4 DEF Init, SequentialInv, OneCommand, CopyIsCurrent, SessionInv, Idle
  <2> QED BY <2>1, <2>2, <2>3, <2>4 DEF PairingInv
<1>2. PairingInv /\ [Next]_vars => PairingInv'
  BY TypeStep, LinkedStep, RowsEarnedStep, CopiesEarnedStep, AnswersEarnedStep, TrustIsEarnedStep,
     SequentialStep DEF Earned, PairingInv
<1> QED BY <1>1, <1>2, PTL DEF Spec

\* After the child's denial of a session no trust comes from it, although several
\* challenges of it may be out with different answers and the command that records
\* one may die half way (manager.py 407-454).
THEOREM DenialTheorem == ASSUME OneAtATime PROVE Spec => []DenialIsFinal
<1>1. PairingInv => DenialIsFinal
  BY DEF PairingInv, SequentialInv, SessionInv, DenialIsFinal, TypeOK
<1> QED BY <1>1, SequentialInvariant, PTL

\* No more wrong passcodes are looked at than max_otp_attempts, through resends,
\* expired codes and crashed commands (manager.py 208-243, 255-334).
THEOREM GuessesTheorem == ASSUME OneAtATime PROVE Spec => []GuessesAreBounded
<1>1. PairingInv => GuessesAreBounded
  BY DEF PairingInv, SequentialInv, SessionInv, GuessesAreBounded, TypeOK, Row
<1> QED BY <1>1, SequentialInvariant, PTL

\* A closed session is not taken up again by a late resend, answer or revocation
\* (manager.py 208-243, 416-424, trust.py 214-223).
THEOREM ClosedTheorem == ASSUME OneAtATime PROVE Spec => ClosedStaysClosed
<1>1. PairingInv /\ [Next]_vars =>
        \A s \in Sessions :
          (row[s] # None /\ row[s].st \in TerminalStates) => row'[s].st \in TerminalStates
  BY EveryStepMovesForward DEF PairingInv, SequentialInv, Earned, Moved, Forward, Closed
<1> QED BY <1>1, SequentialInvariant, PTL DEF Spec, ClosedStaysClosed
=============================================================================
