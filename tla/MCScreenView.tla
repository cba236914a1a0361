---------------------------- MODULE MCScreenView ----------------------------
(***************************************************************************)
(* Instances of ScreenView for TLC.                                        *)
(***************************************************************************)
EXTENDS ScreenView, TLC

\* Processes and session ids are interchangeable in all that is checked.
Symmetry == Permutations(Procs) \cup Permutations(Sessions)
=============================================================================
