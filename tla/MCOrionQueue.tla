---------------------------- MODULE MCOrionQueue ----------------------------
(***************************************************************************)
(* Instances of OrionQueue for TLC; the .cfg files give the bounds.        *)
(***************************************************************************)
EXTENDS OrionQueue, TLC

CONSTANTS a1, a2, a3

\* Two requests that may fail at any attempt, one that never does.
MCRequests ==
  a1 :> "REQUEST_SCREEN_SESSION" @@ a2 :> "REQUEST_SCREEN_SESSION" @@ a3 :> "REQUEST_STATUS_SYNC"

\* One that may fail, one that always does, one without its target.
MCMixed ==
  a1 :> "STOP_SCREEN_SESSION" @@ a2 :> "RECONNECT_TRANSPORT" @@ a3 :> "RESOLVE_ALERT"
=============================================================================
