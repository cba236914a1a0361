----------------------------- MODULE MCPairing -----------------------------
(***************************************************************************)
(* Two instances of Pairing for TLC: commands issued one after the other,  *)
(* and commands that overlap.  They share no state, so the initial state   *)
(* chooses which of them runs.                                             *)
(***************************************************************************)
EXTENDS Pairing, TLC

CONSTANTS s1, s2, n1, n2, q1, q2, t1, d1, d2, m1

VARIABLES
  part,
  rows, nonces, decisions, trusted, over, cmds, verifiedOf, deniedOf, wrongOf

\* Two commands at a time, two children, and a decision that may name either child
\* and carry either key.
Overlap ==
  INSTANCE Pairing WITH
    Procs <- {q1, q2}, Sessions <- {t1}, Children <- {d1, d2}, Nonces <- {m1},
    MaxAttempts <- 1, MaxAnswers <- 1, OneAtATime <- FALSE,
    row <- rows, nonce <- nonces, answers <- decisions, trust <- trusted, lapsed <- over,
    cmd <- cmds, verified <- verifiedOf, denied <- deniedOf, wrong <- wrongOf

overlapVars == <<rows, nonces, decisions, trusted, over, cmds, verifiedOf, deniedOf, wrongOf>>

MCInit ==
  /\ Init
  /\ Overlap!Init
  /\ part \in {"sequence", "overlap"}

MCNext ==
  /\ UNCHANGED part
  /\ \/ part = "sequence" /\ Next /\ UNCHANGED overlapVars
     \/ part = "overlap" /\ Overlap!Next /\ UNCHANGED vars

MCSpec == MCInit /\ [][MCNext]_<<part, vars, overlapVars>>

\* TrustIsEarned in whatever order two commands read, wait, overwrite each other's
\* rows and die, and whichever child and key the decision names (manager.py 336-345,
\* 407-479, authorization.py 95-180).
OverlappingTrustIsEarned == Overlap!TrustIsEarned

\* Of the overlapping commands, all but the histories of other properties.
TrustView == <<part, vars, rows, nonces, decisions, trusted, over, cmds, verifiedOf>>

\* Challenges, sessions, children and overlapping processes are interchangeable.  As one
\* of the instances stays in its initial state, names of both are exchanged together.
Kept(a, b) == a :> a @@ b :> b
Exchanged(a, b) == a :> b @@ b :> a

Symmetry ==
  {f @@ g : f \in {Kept(n1, n2) @@ Kept(q1, q2), Exchanged(n1, n2) @@ Exchanged(q1, q2)},
            g \in {Kept(s1, s2) @@ Kept(d1, d2), Exchanged(s1, s2) @@ Exchanged(d1, d2)}}
=============================================================================
