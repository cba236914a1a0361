------------------------------- MODULE Alerts -------------------------------
(***************************************************************************)
(* Sentinel: the health policies of one child device and the alerts they   *)
(* raise (PolicyEngine of guardianmesh/policy/engine.py, AlertManager of   *)
(* guardianmesh/policy/alerts.py).                                         *)
(*                                                                         *)
(* Workers are the parent's threads and commands that evaluate a snapshot  *)
(* or route an alert sent by the child; operators are the parents who      *)
(* acknowledge, resolve and dismiss alerts in a console or from the command*)
(* line.  All of them share the policies and alerts tables without a lock, *)
(* and every database access is a step.  The rules of a policy each have a *)
(* deduplication key of their own; the model follows one rule, and the     *)
(* others happen between its steps.  Updating an open alert changes its    *)
(* message and time only, which the model leaves out.                      *)
(***************************************************************************)
EXTENDS Naturals, Sequences, FiniteSets

CONSTANTS
  Workers,       \* threads and commands that process what the child sends
  Operators,     \* parents at a console
  MaxPolicies,   \* bound: policies a parent creates by hand
  MaxAlerts      \* bound: no alert is routed from the child beyond this number

ASSUME AlertsAssumption ==
  /\ IsFiniteSet(Workers) /\ IsFiniteSet(Operators)
  /\ MaxPolicies \in Nat /\ MaxAlerts \in Nat

VARIABLES
  trusted,    \* is the child's trust record ACTIVE
  policies,   \* the policies in the order of created_at
  alerts,     \* the rows of the alerts table in the order of created_at
  job,        \* per worker, the access to come and what it has read
  hand        \* per operator, the button pressed and the alert it read

sentinel == <<policies, alerts>>

AlertStatus == {"ACTIVE", "ACKNOWLEDGED", "RESOLVED", "DISMISSED"}

\* The policy_id under which alerts sent by the child itself are kept.
Remote == 0

\* The accesses of a worker that has a snapshot to store (Telemetry), and those
\* of one that evaluates it or routes an alert.
Storing == {"idle", "pause", "advance", "store", "summary"}
Evaluating == {"trust", "find", "load", "create", "select", "insert", "resolve"}

\* Nothing read, nothing to do.
Idle == [at |-> "idle", seq |-> 0, low |-> FALSE, policy |-> 0, alert |-> 0]

AlertsTypeOK ==
  /\ trusted \in BOOLEAN
  /\ policies \in Seq({"enabled", "disabled", "deleted"})
  /\ \A a \in DOMAIN alerts :
       /\ alerts[a].policy \in 0 .. Len(policies)
       /\ alerts[a].status \in AlertStatus \cup {"deleted"}
       /\ alerts[a].reopened \in BOOLEAN
  /\ DOMAIN job = Workers
  /\ \A w \in Workers :
       /\ job[w].at \in Storing \cup Evaluating
       /\ job[w].policy \in 0 .. Len(policies)
       /\ job[w].alert \in 0 .. Len(alerts)
       /\ job[w].at = "resolve" => job[w].alert # 0
  /\ DOMAIN hand = Operators
  /\ \A o \in Operators :
       /\ hand[o].at \in {"idle", "ACKNOWLEDGED", "RESOLVED", "DISMISSED"}
       /\ hand[o].alert \in 0 .. Len(alerts)
       /\ hand[o].at # "idle" => hand[o].alert # 0

AlertsInit ==
  /\ trusted = TRUE
  /\ policies = <<>>
  /\ alerts = <<>>
  /\ job = [w \in Workers |-> Idle]
  /\ hand = [o \in Operators |-> [at |-> "idle", alert |-> 0]]

-----------------------------------------------------------------------------
At(w, place) == job[w].at = place
Goto(w, place) == job' = [job EXCEPT ![w].at = place]
Finish(w) == job' = [job EXCEPT ![w] = Idle]

\* The newest of a set of rows, or 0.
Newest(rows) == IF rows = {} THEN 0 ELSE CHOOSE r \in rows : \A q \in rows : q <= r

LivePolicies == {p \in DOMAIN policies : policies[p] # "deleted"}

\* Alerts that the deduplication of policy p's rule finds.
Open(p) ==
  {a \in DOMAIN alerts :
     alerts[a].policy = p /\ alerts[a].status \in {"ACTIVE", "ACKNOWLEDGED"}}

\* An UPDATE by id: it writes the status whatever it was, if the row is there.
Written(a, st) ==
  IF alerts[a].status = "deleted" THEN alerts
  ELSE [alerts EXCEPT
          ![a].status = st,
          ![a].reopened = @ \/ (alerts[a].status \in {"RESOLVED", "DISMISSED"}
                                /\ st = "ACKNOWLEDGED")]

-----------------------------------------------------------------------------
(* The evaluation of a snapshot: job[w].low says that the rule triggers.   *)

\* Only the snapshot of a device that is still trusted is evaluated.
EvaluateTrusted(w) ==
  /\ At(w, "trust")
  /\ IF trusted THEN Goto(w, "find") ELSE Finish(w)
  /\ UNCHANGED <<trusted, sentinel, hand>>

\* The id of the newest policy is read first, the policy after it; one that is
\* gone by then counts as none at all.  (One that goes before its rules are read
\* has none, and the evaluation ends as in Fail.)
FindPolicy(w) ==
  /\ At(w, "find")
  /\ job' = [job EXCEPT
               ![w].policy = Newest(LivePolicies),
               ![w].at = IF LivePolicies = {} THEN "create" ELSE "load"]
  /\ UNCHANGED <<trusted, sentinel, hand>>

LoadPolicy(w) ==
  /\ At(w, "load")
  /\ LET p == job[w].policy IN
       \/ policies[p] = "deleted" /\ Goto(w, "create")
       \/ policies[p] = "disabled" /\ Finish(w)
       \/ policies[p] = "enabled" /\ Goto(w, "select")
  /\ UNCHANGED <<trusted, sentinel, hand>>

CreateDefault(w) ==
  /\ At(w, "create")
  /\ policies' = Append(policies, "enabled")
  /\ job' = [job EXCEPT ![w].at = "select", ![w].policy = Len(policies) + 1]
  /\ UNCHANGED <<trusted, alerts, hand>>

\* The alert the look for an open one finds: ORDER BY created_at DESC LIMIT 1.
FoundActive(p) == Newest({a \in Open(p) : alerts[a].status = "ACTIVE"})
Found(p) == Newest(Open(p))

\* A triggered rule refreshes the alert it finds or else inserts one; a clear rule
\* resolves the one it finds.
Selected(w, a) ==
  \/ job[w].low /\ a = 0 /\ Goto(w, "insert")
  \/ ~job[w].low /\ a # 0 /\ job' = [job EXCEPT ![w].at = "resolve", ![w].alert = a]
  \/ job[w].low = (a # 0) /\ Finish(w)

SelectAlert(w) ==
  /\ At(w, "select")
  /\ Selected(w, Found(job[w].policy))
  /\ UNCHANGED <<trusted, sentinel, hand>>

InsertAlert(w) ==
  /\ At(w, "insert")
  /\ alerts' = Append(alerts,
                 [policy |-> job[w].policy, status |-> "ACTIVE", reopened |-> FALSE])
  /\ Finish(w)
  /\ UNCHANGED <<trusted, policies, hand>>

AutoResolve(w) ==
  /\ At(w, "resolve")
  /\ alerts' = Written(job[w].alert, "RESOLVED")
  /\ Finish(w)
  /\ UNCHANGED <<trusted, policies, hand>>

\* An alert the child has raised by itself comes through the router, which has
\* checked the child's trust; nothing resolves it but an operator.
RemoteAlert(w) ==
  /\ At(w, "idle")
  /\ trusted
  /\ Len(alerts) < MaxAlerts
  /\ job' = [job EXCEPT ![w] = [Idle EXCEPT !.at = "select", !.low = TRUE, !.policy = Remote]]
  /\ UNCHANGED <<trusted, sentinel, hand>>

\* An access or an audit record fails, or the process dies: the rest is left
\* undone, and evaluation errors are swallowed.
Fail(w) ==
  /\ ~At(w, "idle")
  /\ Finish(w)
  /\ UNCHANGED <<trusted, sentinel, hand>>

-----------------------------------------------------------------------------
(* The operators.  Each reads the alert, decides by its status, and then   *)
(* writes the new status by id.                                            *)

\* The statuses in which a button does something.
Allows(button, st) ==
  CASE button = "ACKNOWLEDGED" -> st = "ACTIVE"
    [] button = "DISMISSED" -> st \notin {"DISMISSED", "RESOLVED"}
    [] button = "RESOLVED" -> st # "RESOLVED"

Press(o, button, a) ==
  /\ hand[o].at = "idle"
  /\ alerts[a].status # "deleted"
  /\ Allows(button, alerts[a].status)
  /\ hand' = [hand EXCEPT ![o] = [at |-> button, alert |-> a]]
  /\ UNCHANGED <<trusted, sentinel, job>>

WriteStatus(o) ==
  /\ hand[o].at # "idle"
  /\ alerts' = Written(hand[o].alert, hand[o].at)
  /\ hand' = [hand EXCEPT ![o] = [at |-> "idle", alert |-> 0]]
  /\ UNCHANGED <<trusted, policies, job>>

\* The console dies between the two.
GiveUp(o) ==
  /\ hand[o].at # "idle"
  /\ hand' = [hand EXCEPT ![o] = [at |-> "idle", alert |-> 0]]
  /\ UNCHANGED <<trusted, sentinel, job>>

CreatePolicy ==
  /\ Len(policies) < MaxPolicies
  /\ policies' = Append(policies, "enabled")
  /\ UNCHANGED <<trusted, alerts, job, hand>>

\* enable_policy, disable_policy and delete_policy raise for a deleted one.
ChangePolicy(p, st) ==
  /\ policies[p] # "deleted"
  /\ policies' = [policies EXCEPT ![p] = st]
  /\ UNCHANGED <<trusted, alerts, job, hand>>

\* Closed alerts older than some moment go.
CleanupAlerts(n) ==
  /\ alerts' = [a \in DOMAIN alerts |->
                  IF a <= n /\ alerts[a].status \in {"RESOLVED", "DISMISSED"}
                  THEN [alerts[a] EXCEPT !.status = "deleted"] ELSE alerts[a]]
  /\ UNCHANGED <<trusted, policies, job, hand>>

\* The record of the trust manager, seen from here.
SetTrust(t) ==
  /\ trusted' = t
  /\ UNCHANGED <<sentinel, job, hand>>

\* `guardian policy create`, enable, disable and delete.
PolicyCommand ==
  \/ CreatePolicy
  \/ \E p \in DOMAIN policies, st \in {"enabled", "disabled", "deleted"} : ChangePolicy(p, st)

\* `guardian alerts acknowledge`, dismiss and resolve, and the console's buttons: one
\* that does not apply to the alert changes nothing.
AlertsCommand(o) ==
  \E a \in DOMAIN alerts, b \in {"ACKNOWLEDGED", "RESOLVED", "DISMISSED"} : Press(o, b, a)

AlertsNext ==
  \/ \E w \in Workers :
       \/ EvaluateTrusted(w) \/ FindPolicy(w) \/ LoadPolicy(w) \/ CreateDefault(w)
       \/ SelectAlert(w) \/ InsertAlert(w) \/ AutoResolve(w)
       \/ RemoteAlert(w) \/ Fail(w)
  \/ \E o \in Operators :
       AlertsCommand(o) \/ WriteStatus(o) \/ GiveUp(o)
  \/ PolicyCommand
  \/ \E n \in DOMAIN alerts : CleanupAlerts(n)

(* Alone, without the telemetry that feeds it: snapshots arrive for         *)
(* evaluation as long as the bounds allow, and trust comes and goes.       *)

Begin(w, triggers) ==
  /\ At(w, "idle")
  /\ Len(alerts) < MaxAlerts /\ Len(policies) <= MaxPolicies
  /\ job' = [job EXCEPT ![w].at = "trust", ![w].low = triggers]
  /\ UNCHANGED <<trusted, sentinel, hand>>

AlertsSpec ==
  AlertsInit /\ [][\/ AlertsNext
                  \/ \E w \in Workers, triggers \in BOOLEAN : Begin(w, triggers)
                  \/ \E t \in BOOLEAN : SetTrust(t)]_<<trusted, sentinel, job, hand>>

-----------------------------------------------------------------------------
\* "Sentinel does not create duplicate alerts" (docs/ALERTS.md): the look for an
\* open alert and the insertion are two accesses, so workers that overlap may each
\* insert one, but never more than there are workers; only an acknowledgement that
\* reopens a closed alert comes on top.
FewDuplicates ==
  \A p \in 0 .. Len(policies) :
    Cardinality({a \in Open(p) : ~alerts[a].reopened}) <= Cardinality(Workers)
=============================================================================
