----------------------------- MODULE MCSentinel -----------------------------
(***************************************************************************)
(* Instances of Telemetry and Alerts for TLC.  Their product is too large  *)
(* for it, so two parts of the product are explored, which the initial     *)
(* state chooses between.                                                  *)
(***************************************************************************)
EXTENDS Telemetry, TLC

VARIABLE part

\* A battery on the threshold and one below it.
MCSnapshots ==
  {[battery |-> b, free |-> 50, connectivity |-> "ONLINE", age |-> 0] : b \in {19, 20}}
MCRule == [type |-> "LOW_BATTERY", enabled |-> TRUE, limit |-> Unread]

\* Policies and alerts under everything that touches them, fed by snapshots that
\* trigger at will.
AlertsPart ==
  /\ part = "alerts"
  /\ \/ AlertsNext
     \/ \E w \in Workers, triggers \in BOOLEAN : Begin(w, triggers)
     \/ \E t \in BOOLEAN : SetTrust(t)
  /\ UNCHANGED pulse

\* The telemetry of a child whose alerts and policies come from its evaluation
\* alone: no operator, no alert by the child, no policy made by hand.
PulsePart ==
  /\ part = "pulse"
  /\ Next
  /\ UNCHANGED hand
  /\ \A w \in Workers : job'[w].at = "select" => job'[w].policy # Remote
  /\ Len(policies') > Len(policies) => job' # job

MCInit == Init /\ part \in {"alerts", "pulse"}
MCNext == (AlertsPart \/ PulsePart) /\ UNCHANGED part
MCSpec == MCInit /\ [][MCNext]_<<vars, part>>

\* Workers are alike.
Symmetry == Permutations(Workers)
=============================================================================
