------------------------------ MODULE MCNexus ------------------------------
(***************************************************************************)
(* Instances of Nexus and NexusLink for TLC: the server with its threads,  *)
(* and a client with what passes between the two.  They share no state, so *)
(* the initial state chooses which of them runs.                           *)
(***************************************************************************)
EXTENDS Nexus, NexusLink, TLC

VARIABLE part

\* Bound: a long conversation is had on one connection at a time, so that the
\* states of two are explored only while both are short.
OneLongConversation ==
  \A s \in Sessions :
    Len(sent[s]) > 1 => \A t \in Sessions \ {s} : At(t, "none")

MCInit ==
  /\ Init
  /\ LinkInit
  /\ part \in {"server", "link"}
  /\ memory => part = "link"

MCNext ==
  /\ UNCHANGED part
  /\ \/ part = "server" /\ Next /\ OneLongConversation' /\ UNCHANGED linkVars
     \/ part = "link" /\ LinkNext /\ UNCHANGED vars

\* The bound holds back clients only: ThreadStep, which is fair, neither connects
\* nor sends.
MCSpec == MCInit /\ [][MCNext]_<<part, vars, linkVars>> /\ Fairness
=============================================================================
