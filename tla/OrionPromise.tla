---------------------------- MODULE OrionPromise ----------------------------
(***************************************************************************)
(* What Orion promises the submitter of an action (docs/ACTIONS.md): an    *)
(* accepted action is open until it is settled, takes effect at most once  *)
(* and only while it is open, and a settled action stays settled.          *)
(***************************************************************************)
EXTENDS Naturals

CONSTANT Actions

VARIABLES
  phase,   \* per action: "none", "open" or "settled"
  effect   \* per action: how often its handler has completed

vars == <<phase, effect>>

Init ==
  /\ phase = [a \in Actions |-> "none"]
  /\ effect = [a \in Actions |-> 0]

Submit(a) ==
  /\ phase[a] = "none"
  /\ phase' = [phase EXCEPT ![a] = "open"]
  /\ UNCHANGED effect

TakeEffect(a) ==
  /\ phase[a] = "open"
  /\ effect[a] = 0
  /\ effect' = [effect EXCEPT ![a] = 1]
  /\ UNCHANGED phase

Settle(a) ==
  /\ phase[a] = "open"
  /\ phase' = [phase EXCEPT ![a] = "settled"]
  /\ UNCHANGED effect

Next == \E a \in Actions : Submit(a) \/ TakeEffect(a) \/ Settle(a)

Spec == Init /\ [][Next]_vars
=============================================================================
