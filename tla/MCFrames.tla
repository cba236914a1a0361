------------------------------ MODULE MCFrames ------------------------------
(***************************************************************************)
(* Instances of AegisCapture and FrameBuffer for TLC: the captures of the  *)
(* child's device, and the frame path of one session at the viewer.  They  *)
(* share no state, so the initial state chooses which of them runs.        *)
(***************************************************************************)
EXTENDS AegisCapture, FrameBuffer, TLC

CONSTANTS s1, s2

VARIABLE part

MCInit ==
  /\ AegisInit
  /\ Init
  /\ \/ part = "capture" /\ strategy = "BLOCK"
     \/ part = "buffer" /\ android

MCNext ==
  /\ UNCHANGED part
  /\ \/ part = "capture" /\ AegisNext /\ UNCHANGED vars
     \/ part = "buffer" /\ Next /\ UNCHANGED aegisVars

MCSpec == MCInit /\ [][MCNext]_<<part, aegisVars, vars>>

\* No guard and no property tells two states of a live session apart, so one of
\* each pair of states that differ only in that is explored.
LiveStatesMerged ==
  <<part, vars, android,
    [c \in Created |-> [sessions[c] EXCEPT !.state = @ \in {"STOPPED", "EXPIRED"}]],
    lapsed, records, bySession, pipes, registered, projecting, indicator, consented>>

ScreenSymmetry == Permutations({s1, s2})
=============================================================================
