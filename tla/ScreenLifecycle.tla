-------------------------- MODULE ScreenLifecycle --------------------------
(***************************************************************************)
(* The vocabulary of guardianmesh/screen/models.py: the states of a screen *)
(* session, the decisions of an authorization and the graph of the state   *)
(* changes that assert_legal_transition lets through.                      *)
(***************************************************************************)

\* The values of the enum ScreenSessionState.
ScreenSessionState ==
  {"REQUESTED", "PENDING_CHILD_APPROVAL", "APPROVED", "ACTIVE",
   "STOPPED", "DENIED", "EXPIRED", "REVOKED"}

\* The values of the enum AuthorizationDecision.
AuthorizationDecision == {"PENDING", "APPROVED", "DENIED", "EXPIRED", "REVOKED"}

\* ScreenSessionInfo.is_terminal.
Terminal == {"STOPPED", "DENIED", "EXPIRED", "REVOKED"}

\* Mutant: an approved session can still be denied.
LegalTransitionsLateDenial ==
  ({"REQUESTED"} \X {"PENDING_CHILD_APPROVAL", "DENIED", "EXPIRED"})
    \cup ({"PENDING_CHILD_APPROVAL"} \X {"APPROVED", "DENIED", "EXPIRED"})
    \cup ({"APPROVED"} \X {"ACTIVE", "DENIED", "EXPIRED", "REVOKED"})
    \cup ({"ACTIVE"} \X {"STOPPED", "EXPIRED", "REVOKED"})

\* _LEGAL_TRANSITIONS, as a set of edges.
LegalTransitions ==
  ({"REQUESTED"} \X {"PENDING_CHILD_APPROVAL", "DENIED", "EXPIRED"})
    \cup ({"PENDING_CHILD_APPROVAL"} \X {"APPROVED", "DENIED", "EXPIRED"})
    \cup ({"APPROVED"} \X {"ACTIVE", "EXPIRED", "REVOKED"})
    \cup ({"ACTIVE"} \X {"STOPPED", "EXPIRED", "REVOKED"})

\* assert_legal_transition returns instead of raising.
Legal(current, target) == <<current, target>> \in LegalTransitions
=============================================================================
