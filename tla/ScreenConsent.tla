--------------------------- MODULE ScreenConsent ---------------------------
(***************************************************************************)
(* What Vista promises the child about one stream of screen sessions,      *)
(* whatever the processes that carry it out: a view is asked for, becomes  *)
(* live only after the child granted it, shows frames only while it is     *)
(* live, and once it is over it never comes back.                          *)
(***************************************************************************)

CONSTANT Sessions

VARIABLES phase,     \* how far each session has come
          consent,   \* the sessions the child granted
          showing    \* the sessions with frames waiting to be viewed

vars == <<phase, consent, showing>>

Init ==
  /\ phase = [s \in Sessions |-> "none"]
  /\ consent = {}
  /\ showing = {}

Ask(s) ==
  /\ phase[s] = "none"
  /\ phase' = [phase EXCEPT ![s] = "asked"]
  /\ UNCHANGED <<consent, showing>>

Grant(s) ==
  /\ phase[s] = "asked"
  /\ phase' = [phase EXCEPT ![s] = "granted"]
  /\ consent' = consent \cup {s}
  /\ UNCHANGED showing

Begin(s) ==
  /\ phase[s] = "granted"
  /\ s \in consent
  /\ phase' = [phase EXCEPT ![s] = "live"]
  /\ UNCHANGED <<consent, showing>>

\* Ending a session takes its waiting frames away in the same step.
End(s) ==
  /\ phase[s] \in {"asked", "granted", "live"}
  /\ phase' = [phase EXCEPT ![s] = "over"]
  /\ showing' = showing \ {s}
  /\ UNCHANGED consent

Show(s) ==
  /\ phase[s] = "live"
  /\ showing' = showing \cup {s}
  /\ UNCHANGED <<phase, consent>>

Hide(S) ==
  /\ showing' = showing \ S
  /\ UNCHANGED <<phase, consent>>

Next ==
  \/ \E s \in Sessions : Ask(s) \/ Grant(s) \/ Begin(s) \/ End(s) \/ Show(s)
  \/ \E S \in SUBSET Sessions : Hide(S)

Spec == Init /\ [][Next]_vars
=============================================================================
