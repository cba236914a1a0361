------------------------------ MODULE MCOrion ------------------------------
(***************************************************************************)
(* Instances of OrionQueue and OrionBus for TLC: the two halves of an      *)
(* OrionCoordinator, its executor and its event bus.  They share no state, *)
(* so the initial state chooses which of them runs.                        *)
(***************************************************************************)
EXTENDS OrionQueue, OrionBus

CONSTANTS a1, a2, a3, b1, b2

VARIABLE part

\* Two requests that may fail at any attempt, one that never does.
MCRequests ==
  a1 :> "REQUEST_SCREEN_SESSION" @@ a2 :> "REQUEST_SCREEN_SESSION" @@ a3 :> "REQUEST_STATUS_SYNC"

\* Bounds on what is explored together.  Handlers are registered before the first
\* event.  Two of them, or a second worker, are there in the asynchronous mode only,
\* which is the program's, and not both at once.  The deterministic mode is explored
\* with the default strategy.
Together ==
  /\ seen # {} => Len(handlers') <= Len(handlers)
  /\ deterministic => Len(handlers') <= 1
  /\ ~At(b2, "off")' => /\ ~deterministic /\ backpressure = "DROP_OLDEST"
                        /\ Len(handlers') <= 1
                        /\ At(b2, "off") => ~At(b1, "off")

MCInit ==
  /\ Init
  /\ BusInit
  /\ \/ part = "executor" /\ ~deterministic /\ backpressure = "DROP_OLDEST"
     \/ part = "bus" /\ (deterministic => backpressure = "DROP_OLDEST")

MCNext ==
  /\ UNCHANGED part
  /\ \/ part = "executor" /\ Next /\ UNCHANGED busVars
     \/ part = "bus" /\ BusNext /\ Together /\ UNCHANGED vars

MCSpec == MCInit /\ [][MCNext]_<<part, vars, busVars>> /\ BusFairness
=============================================================================
