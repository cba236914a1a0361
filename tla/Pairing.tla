------------------------------ MODULE Pairing ------------------------------
(***************************************************************************)
(* Pairing a parent with its children and the trust that results:          *)
(* guardianmesh/pairing/manager.py, authorization.py and trust.py.         *)
(*                                                                         *)
(* Every `guardian pair ...` command is a process.  An operation reads the *)
(* whole session row, works on that copy (it may wait for a mail server or *)
(* for the child meanwhile) and writes the whole row back, so a command is *)
(* a copy and the place where it stands.  Two commands may overlap unless  *)
(* OneAtATime is set, and a command may die between any two accesses.      *)
(*                                                                         *)
(* Whether a passcode or a challenge has expired and whether the resend    *)
(* cooldown is over is left open at each use; that a session's lifetime    *)
(* has passed is recorded in lapsed.                                       *)
(*                                                                         *)
(* A child's answer is whatever signed decision reaches the parent.  What  *)
(* it says of itself, which session and child it names, whose public key   *)
(* it carries and who signed it, need not match the challenge it answers;  *)
(* the actions compare what the code compares.                             *)
(***************************************************************************)
EXTENDS Naturals, FiniteSets

CONSTANTS
  Procs,         \* processes that run commands
  Sessions,      \* pairing session ids that can be drawn
  Children,      \* child devices: identities, each with a key of its own
  Nonces,        \* challenges that can be drawn
  None,          \* no row, no child, no session
  MaxAttempts,   \* max_otp_attempts (5 in the program)
  MaxAnswers,    \* a bound: decisions that are signed
  OneAtATime     \* TRUE: a command starts only when no other is under way

PairingState ==
  {"CREATED", "VERIFICATION_PENDING", "VERIFIED", "CHILD_AUTHORIZATION_PENDING",
   "AUTHORIZED", "TRUST_ESTABLISHED", "PAIRED", "DENIED", "EXPIRED", "CANCELLED", "REVOKED"}

\* VALID_TRANSITIONS, and the states that have none.
Successors ==
  [CREATED |-> {"VERIFICATION_PENDING", "CANCELLED", "EXPIRED"},
   VERIFICATION_PENDING |-> {"VERIFIED", "CANCELLED", "EXPIRED"},
   VERIFIED |-> {"CHILD_AUTHORIZATION_PENDING", "CANCELLED", "EXPIRED"},
   CHILD_AUTHORIZATION_PENDING |-> {"AUTHORIZED", "DENIED", "CANCELLED", "EXPIRED"},
   AUTHORIZED |-> {"TRUST_ESTABLISHED", "CANCELLED", "EXPIRED"},
   TRUST_ESTABLISHED |-> {"PAIRED", "REVOKED"},
   PAIRED |-> {"REVOKED"},
   DENIED |-> {}, EXPIRED |-> {}, CANCELLED |-> {}, REVOKED |-> {}]

ValidTransition(from, to) == from = to \/ to \in Successors[from]

TerminalStates == {"DENIED", "EXPIRED", "CANCELLED", "REVOKED"}

Row == [st : PairingState, att : 0 .. MaxAttempts, otp : BOOLEAN, child : Children \cup {None}]
Challenge == [s : Sessions, c : Children, used : BOOLEAN]

\* ChildAuthDecision: the session and child it names, the challenge it answers, whose
\* public key it carries, and who signed all this.
Decision ==
  [s : Sessions, c : Children, n : Nonces, key : Children, by : Children,
   answer : {"APPROVE", "DENY"}]

Op == {"deliver", "resend", "verify", "challenge", "cancel"}
SubmitOp == {"submit", "consume", "decide", "establish"}

ASSUME PairingAssumption ==
  /\ MaxAttempts \in Nat \ {0}
  /\ MaxAnswers \in Nat
  /\ OneAtATime \in BOOLEAN
  /\ None \notin Sessions \cup Children \cup Nonces
  /\ None \notin Row
  /\ None \notin Challenge

VARIABLES
  row,       \* pairing_sessions
  nonce,     \* pairing_nonces
  answers,   \* the decisions that were signed; each may be submitted any number of times
  trust,     \* trusted_devices: status, pairing_session_id and public key, per child
  lapsed,    \* sessions whose expires_at has passed
  cmd,       \* per process: the operation under way, with its copy of the row
  verified,  \* history: sessions whose passcode was entered correctly
  denied,    \* history: sessions a DENY was recorded for
  wrong      \* history: wrong passcodes entered for a session, up to one too many

vars == <<row, nonce, answers, trust, lapsed, cmd, verified, denied, wrong>>
history == <<verified, denied, wrong>>

Idle == [op |-> "idle"]
Command ==
  {Idle}
    \cup [op : Op, s : Sessions, copy : Row]
    \cup [op : SubmitOp, s : Sessions, copy : Row, d : Decision]

TypeOK ==
  /\ row \in [Sessions -> Row \cup {None}]
  /\ nonce \in [Nonces -> Challenge \cup {None}]
  /\ answers \subseteq Decision
  /\ trust \in [Children -> [status : {"none", "ACTIVE", "REVOKED"}, via : Sessions \cup {None},
                           key : Children \cup {None}]]
  /\ lapsed \subseteq Sessions
  /\ cmd \in [Procs -> Command]
  /\ verified \subseteq Sessions
  /\ denied \subseteq Sessions
  /\ wrong \in [Sessions -> 0 .. MaxAttempts + 1]

Init ==
  /\ row = [s \in Sessions |-> None]
  /\ nonce = [n \in Nonces |-> None]
  /\ answers = {}
  /\ trust = [c \in Children |-> [status |-> "none", via |-> None, key |-> None]]
  /\ lapsed = {}
  /\ cmd = [p \in Procs |-> Idle]
  /\ verified = {}
  /\ denied = {}
  /\ wrong = [s \in Sessions |-> 0]

-----------------------------------------------------------------------------
Free(p) ==
  /\ cmd[p] = Idle
  /\ OneAtATime => \A q \in Procs : cmd[q] = Idle

Copy(p) == cmd[p].copy
Goto(p, place) == cmd' = [cmd EXCEPT ![p] = place]
Done(p) == Goto(p, Idle)

\* _update_session_db: the whole row, as the command last saw it.
Write(s, r) == row' = [row EXCEPT ![s] = r]

WithState(r, st) == [r EXCEPT !.st = st]

\* An operation that found the session's lifetime over writes EXPIRED, whatever
\* the state was, and raises.
Expire(p) == Write(cmd[p].s, WithState(Copy(p), "EXPIRED")) /\ Done(p)

-----------------------------------------------------------------------------
(* Creating a session and delivering its passcode.                         *)

\* The parent may name the child already.
NewRow(c) == [st |-> "CREATED", att |-> 0, otp |-> TRUE, child |-> c]

CreateSession(p, s, c) ==
  /\ Free(p)
  /\ row[s] = None
  /\ Write(s, NewRow(c))
  /\ Goto(p, [op |-> "deliver", s |-> s, copy |-> NewRow(c)])
  /\ UNCHANGED <<nonce, answers, trust, lapsed, history>>

\* The provider returns.
Deliver(p) ==
  /\ cmd[p].op = "deliver"
  /\ Copy(p).st = "CREATED"
  /\ Write(cmd[p].s, WithState(Copy(p), "VERIFICATION_PENDING"))
  /\ Goto(p, [cmd[p] EXCEPT !.copy = WithState(@, "VERIFICATION_PENDING")])
  /\ UNCHANGED <<nonce, answers, trust, lapsed, history>>

\* The provider raises, or the audit trail does once the code is on its way.
DeliverFails(p) ==
  /\ cmd[p].op = "deliver"
  /\ Write(cmd[p].s, WithState(Copy(p), "CANCELLED"))
  /\ Done(p)
  /\ UNCHANGED <<nonce, answers, trust, lapsed, history>>

\* get_session_or_raise at the start of every other operation.
Begin(p, op, s) ==
  /\ Free(p)
  /\ row[s] # None
  /\ Goto(p, [op |-> op, s |-> s, copy |-> row[s]])
  /\ UNCHANGED <<row, nonce, answers, trust, lapsed, history>>

\* Mutant: a new passcode starts the count again.
AttemptsAnew(r) == 0

\* What resend_otp leaves of the attempts.
AttemptsKept(r) == r.att

\* Mutant: a cancelled session gets a new passcode too.
ResendableAgain == {"CREATED", "VERIFICATION_PENDING", "CANCELLED"}

\* The states resend_otp sends a new passcode in.
Resendable == {"CREATED", "VERIFICATION_PENDING"}

\* resend_otp; transition_to lets not every state expire.  It does nothing in the
\* cooldown, in a state that is not Resendable, or when the provider raises.
Resend(p) ==
  /\ cmd[p].op = "resend"
  /\ \/ /\ cmd[p].s \in lapsed
        /\ ValidTransition(Copy(p).st, "EXPIRED")
        /\ Expire(p)
     \/ /\ cmd[p].s \notin lapsed
        /\ Copy(p).st \in Resendable
        /\ Write(cmd[p].s, [Copy(p) EXCEPT !.st = "VERIFICATION_PENDING", !.otp = TRUE,
                                           !.att = AttemptsKept(Copy(p))])
        /\ Done(p)
     \/ UNCHANGED row /\ Done(p)
  /\ UNCHANGED <<nonce, answers, trust, lapsed, history>>

-----------------------------------------------------------------------------
(* Entering the passcode.                                                  *)

\* One attempt more; the last one ends the session if it was a wrong code.
Attempted(r) == [r EXCEPT !.att = @ + 1]
Rejected(r) ==
  IF r.att + 1 >= MaxAttempts THEN WithState(Attempted(r), "EXPIRED") ELSE Attempted(r)

AttemptLeft(r) == r.att < MaxAttempts

\* verify_otp goes on to look at the code.
Enterable(p) ==
  /\ cmd[p].op = "verify"
  /\ cmd[p].s \notin lapsed
  /\ Copy(p).st = "VERIFICATION_PENDING"
  /\ AttemptLeft(Copy(p))

VerifyRight(p) ==
  /\ Enterable(p)
  /\ Copy(p).otp
  /\ Write(cmd[p].s, [Copy(p) EXCEPT !.st = "CHILD_AUTHORIZATION_PENDING", !.otp = FALSE])
  /\ verified' = verified \cup {cmd[p].s}
  /\ Done(p)
  /\ UNCHANGED <<nonce, answers, trust, lapsed, denied, wrong>>

VerifyWrong(p) ==
  /\ Enterable(p)
  /\ Write(cmd[p].s, Rejected(Copy(p)))
  /\ wrong' = [wrong EXCEPT ![cmd[p].s] = IF @ <= MaxAttempts THEN @ + 1 ELSE @]
  /\ Done(p)
  /\ UNCHANGED <<nonce, answers, trust, lapsed, verified, denied>>

\* The passcode has expired: an attempt, but the session goes on.
VerifyStale(p) ==
  /\ Enterable(p)
  /\ Write(cmd[p].s, Attempted(Copy(p)))
  /\ Done(p)
  /\ UNCHANGED <<nonce, answers, trust, lapsed, history>>

\* The lifetime is over, or the attempts are used up.
VerifyTooLate(p) ==
  /\ cmd[p].op = "verify"
  /\ \/ cmd[p].s \in lapsed
     \/ Copy(p).st = "VERIFICATION_PENDING" /\ Copy(p).att >= MaxAttempts
  /\ Expire(p)
  /\ UNCHANGED <<nonce, answers, trust, lapsed, history>>

-----------------------------------------------------------------------------
(* The challenge, the child's answer, and the parent's record of it.       *)

AwaitsChild(st) == st = "CHILD_AUTHORIZATION_PENDING"

\* create_authorization_challenge: nonce and child columns in one transaction.
CreateChallenge(p, c, n) ==
  /\ cmd[p].op = "challenge"
  /\ cmd[p].s \notin lapsed
  /\ AwaitsChild(Copy(p).st)
  /\ nonce[n] = None
  /\ nonce' = [nonce EXCEPT ![n] = [s |-> cmd[p].s, c |-> c, used |-> FALSE]]
  /\ row' = [row EXCEPT ![cmd[p].s].child = c]
  /\ Done(p)
  /\ UNCHANGED <<answers, trust, lapsed, history>>

\* create_signed_child_decision: a device signs a decision on a challenge that was sent.
Answer(d) ==
  /\ nonce[d.n] # None
  /\ Cardinality(answers) < MaxAnswers
  /\ answers' = answers \cup {d}
  /\ UNCHANGED <<row, nonce, trust, lapsed, cmd, history>>

\* submit_child_authorization reads the row of the session its caller names.
BeginSubmit(p, s, d) ==
  /\ Free(p)
  /\ d \in answers
  /\ row[s] # None
  /\ Goto(p, [op |-> "submit", s |-> s, copy |-> row[s], d |-> d])
  /\ UNCHANGED <<row, nonce, answers, trust, lapsed, history>>

Signed(p) == cmd[p].d

\* Mutant: the challenge may be one of another session.
FoundAnywhere(n, s) == nonce[n] # None

\* The SELECT of validate_and_consume_nonce: this challenge of this session.  It reads
\* the challenged child too, which is compared with nothing.
Found(n, s) == nonce[n] # None /\ nonce[n].s = s

\* The first half of validate_and_consume_nonce.
CheckNonce(p) ==
  /\ cmd[p].op = "submit"
  /\ cmd[p].s \notin lapsed
  /\ AwaitsChild(Copy(p).st)
  /\ Found(Signed(p).n, cmd[p].s)
  /\ ~nonce[Signed(p).n].used
  /\ Goto(p, [cmd[p] EXCEPT !.op = "consume"])
  /\ UNCHANGED <<row, nonce, answers, trust, lapsed, history>>

ConsumeNonce(p) ==
  /\ cmd[p].op = "consume"
  /\ nonce' = [nonce EXCEPT ![Signed(p).n].used = TRUE]
  /\ Goto(p, [cmd[p] EXCEPT !.op = "decide"])
  /\ UNCHANGED <<row, answers, trust, lapsed, history>>

\* Mutant: the signature is not looked at.
AnySignature(d) == d \in Decision

\* verify_child_decision_signature: the signature against the key in the decision.  The
\* command ends otherwise, with the challenge used up.
Verifies(d) == d.by = d.key

\* Mutant: a denial uses up its challenge and leaves the session waiting.
AfterDenialOpen == "CHILD_AUTHORIZATION_PENDING"

AfterDenial == "DENIED"

RecordDenial(p) ==
  /\ cmd[p].op = "decide"
  /\ Verifies(Signed(p))
  /\ Signed(p).answer = "DENY"
  /\ Write(cmd[p].s, [Copy(p) EXCEPT !.st = AfterDenial, !.child = Signed(p).c])
  /\ denied' = denied \cup {cmd[p].s}
  /\ Done(p)
  /\ UNCHANGED <<nonce, answers, trust, lapsed, verified, wrong>>

\* AUTHORIZED, TRUST_ESTABLISHED and PAIRED are passed through in memory; the
\* row says PAIRED before the trust record is written.
RecordApproval(p) ==
  /\ cmd[p].op = "decide"
  /\ Verifies(Signed(p))
  /\ Signed(p).answer = "APPROVE"
  /\ Write(cmd[p].s, [Copy(p) EXCEPT !.st = "PAIRED", !.child = Signed(p).c])
  /\ Goto(p, [cmd[p] EXCEPT !.op = "establish"])
  /\ UNCHANGED <<nonce, answers, trust, lapsed, history>>

\* establish_trust: insert, or make ACTIVE again, for the child and with the key that
\* the decision names.
EstablishTrust(p) ==
  /\ cmd[p].op = "establish"
  /\ trust' = [trust EXCEPT ![Signed(p).c] =
                  [status |-> "ACTIVE", via |-> cmd[p].s, key |-> Signed(p).key]]
  /\ Done(p)
  /\ UNCHANGED <<row, nonce, answers, lapsed, history>>

\* A challenge or an answer after the session's lifetime.
AuthorizeTooLate(p) ==
  /\ cmd[p].op \in {"challenge", "submit"}
  /\ cmd[p].s \in lapsed
  /\ Expire(p)
  /\ UNCHANGED <<nonce, answers, trust, lapsed, history>>

-----------------------------------------------------------------------------
(* Cancelling, revoking, and the environment.                              *)

\* cancel_session, which a PAIRED session does not refuse.
Cancel(p) ==
  /\ cmd[p].op = "cancel"
  /\ Copy(p).st \notin TerminalStates
  /\ Write(cmd[p].s, WithState(Copy(p), "CANCELLED"))
  /\ Done(p)
  /\ UNCHANGED <<nonce, answers, trust, lapsed, history>>

\* revoke_trust: one transaction.  The condition on the state binds to the other
\* half of the OR, so it spares no session of this parent and child.
RevokeTrust(c) ==
  /\ OneAtATime => \A q \in Procs : cmd[q] = Idle
  /\ trust[c].status # "none"
  /\ trust' = [trust EXCEPT ![c].status = "REVOKED"]
  /\ row' = [s \in Sessions |->
               IF row[s] # None /\ row[s].child = c THEN WithState(row[s], "REVOKED") ELSE row[s]]
  /\ UNCHANGED <<nonce, answers, lapsed, cmd, history>>

\* A command has nothing left to do, is refused, or dies.
End(p) ==
  /\ cmd[p] # Idle
  /\ Done(p)
  /\ UNCHANGED <<row, nonce, answers, trust, lapsed, history>>

Lapse(s) ==
  /\ row[s] # None
  /\ s \notin lapsed
  /\ lapsed' = lapsed \cup {s}
  /\ UNCHANGED <<row, nonce, answers, trust, cmd, history>>

Step(p) ==
  \/ Deliver(p) \/ DeliverFails(p) \/ Resend(p) \/ Cancel(p) \/ End(p)
  \/ VerifyRight(p) \/ VerifyWrong(p) \/ VerifyStale(p) \/ VerifyTooLate(p)
  \/ CheckNonce(p) \/ ConsumeNonce(p) \/ RecordDenial(p) \/ RecordApproval(p)
  \/ EstablishTrust(p) \/ AuthorizeTooLate(p)

(* What guardian pair (cmd_pair) offers: a command is refused without a      *)
(* database or an active identity, and otherwise calls one operation, or two *)
(* in the case of authorize.  No command resends a passcode; the operation   *)
(* is there for a caller that does.                                          *)

PairStart(p, s) == \E c \in Children \cup {None} : CreateSession(p, s, c)

PairVerify(p, s) == Begin(p, "verify", s)

\* Challenge, answer and submission; the adapter answers for the child.
PairAuthorize(p, s) ==
  \/ Begin(p, "challenge", s)
  \/ \E c \in Children, n \in Nonces : CreateChallenge(p, c, n)
  \/ \E d \in answers : BeginSubmit(p, s, d)

PairCancel(p, s) == Begin(p, "cancel", s)

PairRevoke == \E c \in Children : RevokeTrust(c)

ResendOtp(p, s) == Begin(p, "resend", s)

Next ==
  \/ \E p \in Procs : Step(p)
  \/ \E p \in Procs, s \in Sessions :
       PairStart(p, s) \/ PairVerify(p, s) \/ PairAuthorize(p, s) \/ PairCancel(p, s)
         \/ ResendOtp(p, s)
  \/ \E d \in Decision : Answer(d)
  \/ PairRevoke
  \/ \E s \in Sessions : Lapse(s)

Spec == Init /\ [][Next]_vars

-----------------------------------------------------------------------------
(* Properties of any number of overlapping commands.                       *)

\* A trusted child's record holds a key whose owner has signed, as that child, an
\* approval of a challenge of the session it came from, and the passcode of that
\* session was entered; in whatever order commands read, wait, submit a decision
\* again, overwrite each other's rows and die (manager.py 336-345, 407-479,
\* authorization.py 95-180).
TrustIsEarned ==
  \A c \in Children :
    trust[c].status # "none" =>
      /\ trust[c].via \in verified
      /\ \E d \in answers :
           /\ d.c = c /\ d.by = trust[c].key /\ d.answer = "APPROVE"
           /\ nonce[d.n] # None /\ nonce[d.n].s = trust[c].via

\* docs/PAIRING.md 130-135: the child that is challenged signs, and the parent verifies
\* with that child's key.  The code ties neither the child nor the key in the decision
\* to the challenge (authorization.py 95-109, 146-163).
TrustIsOfTheChallenged ==
  \A c \in Children :
    trust[c].status # "none" =>
      /\ trust[c].key = c
      /\ \E n \in Nonces : nonce[n] # None /\ nonce[n].s = trust[c].via /\ nonce[n].c = c

\* What LocalTestAuthorizationAdapter, which answers in `guardian pair authorize`, makes
\* of every decision: the challenged child signs, for itself and with its own key.
AnsweredByAdapter ==
  \A d \in answers : d.c = nonce[d.n].c /\ d.key = d.c /\ d.by = d.c

-----------------------------------------------------------------------------
(* Properties of commands issued one after the other.                      *)

\* docs/PAIRING.md 8: if the child denies, no trust can be established; although
\* several challenges of one session may be out with different answers, and the
\* command that records one may die half way (manager.py 407-454).
DenialIsFinal == \A c \in Children : trust[c].via \notin denied

\* docs/PAIRING.md 117: at most max_otp_attempts wrong codes per session, through
\* resends, expired codes and crashed commands (manager.py 208-243, 255-334).
GuessesAreBounded == \A s \in Sessions : wrong[s] <= MaxAttempts

\* A session that was closed is never taken up again, by a late resend, answer
\* or revocation (manager.py 208-243, 416-424, trust.py 214-223).
ClosedStaysClosed ==
  [][\A s \in Sessions :
       (row[s] # None /\ row[s].st \in TerminalStates) => row'[s].st \in TerminalStates]_vars
=============================================================================
