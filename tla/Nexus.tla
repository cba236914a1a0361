------------------------------- MODULE Nexus -------------------------------
(***************************************************************************)
(* The socket transport between a child device and its parent:             *)
(* LocalSocketTransportServer of guardianmesh/transport/server.py with the *)
(* TransportSession, MessageRouter and TransportRegistry it drives, and    *)
(* the client that connects to it.                                         *)
(*                                                                         *)
(* Every connection has a thread of the server and a session of its own; a *)
(* client that reconnects gets both anew while the old thread may still be *)
(* at work.  The sessions of one peer share its transport_peers row, and   *)
(* every database access is a step.  The link may lose, repeat and reorder *)
(* frames.  What a handler does with a message (telemetry, alerts) is left *)
(* to its own component; here it returns or raises.  Whether a session's   *)
(* lifetime is over is left open at each use.                              *)
(***************************************************************************)
EXTENDS Naturals, Sequences

CONSTANTS
  Sessions,     \* session ids that can be drawn, one per connection
  MaxFrames,    \* bound: frames a client sends in one session
  Window,       \* replay_window_size (128 in the program)
  IdCache       \* message ids a session remembers (1000 in the program)

ASSUME NexusAssumption ==
  /\ MaxFrames \in Nat
  /\ Window \in Nat \ {0}
  /\ IdCache \in Nat \ {0}
  /\ Sessions \cap {"idle", "peer"} = {}

\* The values of ConnectionState that the server writes, and "none" for no row.
ConnectionState == {"none", "CONNECTED", "DISCONNECTED", "REVOKED"}

VARIABLES
  running,    \* server: _is_running
  ses,        \* server: per session, its thread and its TransportSession
  sessRow,    \* transport_sessions.state
  peer,       \* transport_peers.connection_state of the child
  trusted,    \* is the child's trust record ACTIVE
  sent,       \* per session, the message ids of the frames its client has sent
  cli,        \* where a `guardian transport disconnect` stands
  accepted,   \* history: per session, the frames recorded as ACCEPTED, in order
  late        \* history: per session, those accepted since trust was last revoked

rows == <<sessRow, peer>>
history == <<accepted, late>>
vars == <<running, ses, rows, trusted, sent, cli, history>>

Number == 1 .. MaxFrames

\* Where the thread of a connection stands: the accesses still to come.
Place ==
  {"none", "create", "record", "peer", "loop", "read", "check", "accept", "beat",
   "revoke", "revokePeer", "bye", "byePeer", "end", "endPeer", "gone", "killed"}

NoSession ==
  [at |-> "none", mem |-> "none", inb |-> 0, seen |-> {}, ids |-> <<>>, cur |-> 0]

TypeOK ==
  /\ running \in BOOLEAN
  /\ DOMAIN ses = Sessions
  /\ \A s \in Sessions :
       /\ ses[s].at \in Place
       /\ ses[s].mem \in ConnectionState
       /\ ses[s].inb \in 0 .. MaxFrames
       /\ ses[s].seen \subseteq Number
       /\ ses[s].ids \in Seq(Number) /\ Len(ses[s].ids) <= IdCache
       /\ ses[s].cur \in 0 .. MaxFrames
  /\ sessRow \in [Sessions -> ConnectionState]
  /\ peer \in ConnectionState
  /\ trusted \in BOOLEAN
  /\ sent \in [Sessions -> Seq(Number)]
  /\ accepted \in [Sessions -> Seq(Number)]
  /\ cli \in Sessions \cup {"idle", "peer"}
  /\ late \in [Sessions -> Nat]

Init ==
  /\ running = TRUE
  /\ ses = [s \in Sessions |-> NoSession]
  /\ sessRow = [s \in Sessions |-> "none"]
  /\ peer = "none"
  /\ trusted = TRUE
  /\ sent = [s \in Sessions |-> <<>>]
  /\ cli = "idle"
  /\ accepted = [s \in Sessions |-> <<>>]
  /\ late = [s \in Sessions |-> 0]

-----------------------------------------------------------------------------
At(s, place) == ses[s].at = place
Goto(s, place) == ses' = [ses EXCEPT ![s].at = place]

\* TransportSession.close wipes the keys; from then on the session neither
\* encrypts nor decrypts.
Closed(s) == ses[s].mem = "DISCONNECTED"
Close(s, place) == ses' = [ses EXCEPT ![s].at = place, ![s].mem = "DISCONNECTED"]

\* The thread is gone, and nothing uses its session any more.
Left(place) == [NoSession EXCEPT !.at = place]

\* An exception reaches _handle_client, which closes the session.
Fail(s) == Close(s, "end")

\* update_session_state updates a row if there is one; record_session inserts it.
SessionRow(s, st) ==
  sessRow' = [sessRow EXCEPT ![s] = IF @ = "none" THEN @ ELSE st]
PeerRow(st) == peer' = st

-----------------------------------------------------------------------------
(* The handshake.                                                          *)

\* The client connects, and the thread finds its SESSION_INIT in order and the
\* child trusted; with an untrusted child it ends without a trace.
Connect(s) ==
  /\ running
  /\ trusted
  /\ At(s, "none")
  /\ Goto(s, "create")
  /\ UNCHANGED <<running, rows, trusted, sent, cli, history>>

\* The SESSION_ACK cannot be written, or the session is derived from it.
Create(s) ==
  /\ At(s, "create")
  /\ \/ Goto(s, "gone")
     \/ ses' = [ses EXCEPT ![s].at = "record", ![s].mem = "CONNECTED"]
  /\ UNCHANGED <<running, rows, trusted, sent, cli, history>>

\* record_session saves the state the session has by now.
RecordSession(s) ==
  /\ At(s, "record")
  /\ sessRow' = [sessRow EXCEPT ![s] = ses[s].mem]
  /\ Goto(s, "peer")
  /\ UNCHANGED <<running, peer, trusted, sent, cli, history>>

RecordPeer(s) ==
  /\ At(s, "peer")
  /\ PeerRow("CONNECTED")
  /\ Goto(s, "loop")
  /\ UNCHANGED <<running, sessRow, trusted, sent, cli, history>>

-----------------------------------------------------------------------------
(* The frame loop.                                                         *)

\* The condition of the loop, which an expired session does not meet either.
Loop(s) ==
  /\ At(s, "loop")
  /\ \/ running /\ ~Closed(s) /\ Goto(s, "read")
     \/ Goto(s, "end")
  /\ UNCHANGED <<running, rows, trusted, sent, cli, history>>

\* Mutant: the numbers seen are kept for the window, and the window not enforced.
FreshAnyAge(q, n) == n \notin q.seen

\* The sequence check of validate_and_advance_inbound_sequence.
Fresh(q, n) == n \notin q.seen /\ n + Window >= q.inb

\* The message id check, and the cache of ids with its oldest one dropped.
NewId(q, id) == \A i \in DOMAIN q.ids : q.ids[i] # id

Remember(ids, id) == Append(IF Len(ids) = IdCache THEN Tail(ids) ELSE ids, id)

\* Frame n is recorded; what falls out of the window is forgotten.
Advanced(q, n, id) ==
  LET top == IF n > q.inb THEN n ELSE q.inb IN
  [q EXCEPT !.inb = top,
            !.seen = {m \in @ \cup {n} : m + Window >= top},
            !.ids = Remember(@, id),
            !.cur = n]

\* read_frame returns a frame of this session and decrypt_frame looks at it, all
\* under the session's lock.
ReadFrame(s, n) ==
  /\ At(s, "read")
  /\ n \in DOMAIN sent[s]
  /\ \/ Closed(s) /\ Goto(s, "end")
     \/ /\ ~Closed(s)
        /\ IF Fresh(ses[s], n) /\ NewId(ses[s], sent[s][n])
           THEN ses' = [ses EXCEPT ![s] = [Advanced(@, n, sent[s][n]) EXCEPT !.at = "check"]]
           ELSE Fail(s)
  /\ UNCHANGED <<running, rows, trusted, sent, cli, history>>

\* Mutant: the read is tried again.
TimedOutAgain(s) == Goto(s, "read")

TimedOut(s) == Fail(s)

\* Thirty seconds without a frame raise TransportTimeoutError, which the handler
\* of TimeoutError does not catch; a frame that does not decrypt raises as well,
\* and so does a session that has expired.
ReadFails(s) ==
  /\ At(s, "read")
  /\ TimedOut(s)
  /\ UNCHANGED <<running, rows, trusted, sent, cli, history>>

\* The client has closed its socket, or the connection broke.
ReadEnds(s) ==
  /\ At(s, "read")
  /\ Goto(s, "end")
  /\ UNCHANGED <<running, rows, trusted, sent, cli, history>>

-----------------------------------------------------------------------------
(* MessageRouter.route.                                                    *)

\* Mutant: the trust record is not looked at.
AdmitsAnyone == TRUE

\* verify_device_trust_or_raise.
Admits == trusted

CheckTrust(s) ==
  /\ At(s, "check")
  /\ IF Admits THEN Goto(s, "accept") ELSE Close(s, "revoke")
  /\ UNCHANGED <<running, rows, trusted, sent, cli, history>>

RevokeSession(s) ==
  /\ At(s, "revoke")
  /\ SessionRow(s, "REVOKED")
  /\ Goto(s, "revokePeer")
  /\ UNCHANGED <<running, peer, trusted, sent, cli, history>>

RevokePeer(s) ==
  /\ At(s, "revokePeer")
  /\ PeerRow("REVOKED")
  /\ Fail(s)
  /\ UNCHANGED <<running, sessRow, trusted, sent, cli, history>>

\* The envelope is for someone else, or has expired on the way.
Refuse(s) ==
  /\ At(s, "accept")
  /\ Fail(s)
  /\ UNCHANGED <<running, rows, trusted, sent, cli, history>>

\* record_message with the status ACCEPTED; the rows of rejected messages are left out.
RecordMessage(s, n) ==
  /\ accepted' = [accepted EXCEPT ![s] = Append(@, n)]
  /\ late' = [late EXCEPT ![s] = IF trusted THEN @ ELSE @ + 1]

Accept(s) ==
  /\ At(s, "accept")
  /\ RecordMessage(s, ses[s].cur)
  /\ Goto(s, "beat")
  /\ UNCHANGED <<running, rows, trusted, sent, cli>>

\* record_peer_heartbeat, and what the handler of the message comes to: it
\* returns, raises, cannot send its PONG because the session is closed or the
\* connection broke, or has a GOODBYE to handle.
Heartbeat(s) ==
  /\ At(s, "beat")
  /\ PeerRow("CONNECTED")
  /\ \/ Goto(s, "loop")
     \/ Fail(s)
     \/ Goto(s, "end")
     \/ Close(s, "bye")
  /\ UNCHANGED <<running, sessRow, trusted, sent, cli, history>>

\* _handle_goodbye.
GoodbyeSession(s) ==
  /\ At(s, "bye")
  /\ SessionRow(s, "DISCONNECTED")
  /\ Goto(s, "byePeer")
  /\ UNCHANGED <<running, peer, trusted, sent, cli, history>>

GoodbyePeer(s) ==
  /\ At(s, "byePeer")
  /\ PeerRow("DISCONNECTED")
  /\ Goto(s, "loop")
  /\ UNCHANGED <<running, sessRow, trusted, sent, cli, history>>

-----------------------------------------------------------------------------
(* The end of a connection: the finally clause of _handle_client.          *)

\* Mutant: the session's row is left as the last write found it.
EndRowKept(s) == UNCHANGED sessRow

EndRow(s) == SessionRow(s, "DISCONNECTED")

EndSession(s) ==
  /\ At(s, "end")
  /\ EndRow(s)
  /\ Goto(s, "endPeer")
  /\ UNCHANGED <<running, peer, trusted, sent, cli, history>>

EndPeer(s) ==
  /\ At(s, "endPeer")
  /\ PeerRow("DISCONNECTED")
  /\ ses' = [ses EXCEPT ![s] = Left("gone")]
  /\ UNCHANGED <<running, sessRow, trusted, sent, cli, history>>

\* A database access of the thread raises; in the finally clause that ends it.
DbFails(s) ==
  /\ \/ /\ ses[s].at \in {"record", "peer", "check", "accept", "beat",
                          "revoke", "revokePeer", "bye", "byePeer"}
        /\ Fail(s)
     \/ /\ ses[s].at \in {"end", "endPeer"}
        /\ ses' = [ses EXCEPT ![s] = Left("killed")]
  /\ UNCHANGED <<running, rows, trusted, sent, cli, history>>

-----------------------------------------------------------------------------
(* The server's process.                                                   *)

\* stop() closes the sessions it knows; their threads find out.
Stop ==
  /\ running
  /\ running' = FALSE
  /\ ses' = [s \in Sessions |->
               IF ses[s].mem = "none" THEN ses[s] ELSE [ses[s] EXCEPT !.mem = "DISCONNECTED"]]
  /\ UNCHANGED <<rows, trusted, sent, cli, history>>

Start ==
  /\ ~running
  /\ running' = TRUE
  /\ UNCHANGED <<ses, rows, trusted, sent, cli, history>>

\* The process dies with its threads, and comes back without them.
Crash ==
  /\ ses' = [s \in Sessions |->
               IF ses[s].at \in {"none", "gone", "killed"} THEN ses[s]
               ELSE Left("killed")]
  /\ running' = FALSE
  /\ UNCHANGED <<rows, trusted, sent, cli, history>>

-----------------------------------------------------------------------------
(* The client, the command line and trust.                                 *)

\* send_envelope: a new message, or one it has sent before under a new number.
Send(s) ==
  /\ ses[s].at \notin {"none", "create"}
  /\ Len(sent[s]) < MaxFrames
  /\ \E id \in {sent[s][i] : i \in DOMAIN sent[s]} \cup {Len(sent[s]) + 1} :
       sent' = [sent EXCEPT ![s] = Append(@, id)]
  /\ UNCHANGED <<running, ses, rows, trusted, cli, history>>

\* cmd_transport "disconnect" only writes the registry: it looks for a CONNECTED
\* session, disconnects its row if it found one, then the peer's.
FindSession ==
  /\ cli = "idle"
  /\ cli' \in IF \E s \in Sessions : sessRow[s] = "CONNECTED"
              THEN {s \in Sessions : sessRow[s] = "CONNECTED"} ELSE {"peer"}
  /\ UNCHANGED <<running, ses, rows, trusted, sent, history>>

DisconnectSession ==
  /\ cli \in Sessions
  /\ SessionRow(cli, "DISCONNECTED")
  /\ cli' = "peer"
  /\ UNCHANGED <<running, ses, peer, trusted, sent, history>>

DisconnectPeer ==
  /\ cli = "peer"
  /\ PeerRow("DISCONNECTED")
  /\ cli' = "idle"
  /\ UNCHANGED <<running, ses, sessRow, trusted, sent, history>>

TransportDisconnect == FindSession \/ DisconnectSession \/ DisconnectPeer

\* TrustManager.revoke_trust, and establish_trust by a new pairing.
RevokeTrust ==
  /\ trusted
  /\ trusted' = FALSE
  /\ late' = [s \in Sessions |-> 0]
  /\ UNCHANGED <<running, ses, rows, sent, cli, accepted>>

EstablishTrust ==
  /\ ~trusted
  /\ trusted' = TRUE
  /\ UNCHANGED <<running, ses, rows, sent, cli, history>>

-----------------------------------------------------------------------------
\* What the thread does when its client does something, and what it does anyway.
ClientStep(s) ==
  Connect(s) \/ Send(s) \/ ReadEnds(s) \/ \E n \in Number : ReadFrame(s, n)

ThreadStep(s) ==
  \/ Create(s) \/ RecordSession(s) \/ RecordPeer(s)
  \/ Loop(s) \/ ReadFails(s)
  \/ CheckTrust(s) \/ RevokeSession(s) \/ RevokePeer(s) \/ Refuse(s) \/ Accept(s)
  \/ Heartbeat(s) \/ GoodbyeSession(s) \/ GoodbyePeer(s)
  \/ EndSession(s) \/ EndPeer(s) \/ DbFails(s)

Next ==
  \/ \E s \in Sessions : ClientStep(s) \/ ThreadStep(s)
  \/ Stop \/ Start \/ Crash
  \/ TransportDisconnect
  \/ RevokeTrust \/ EstablishTrust

Spec == Init /\ [][Next]_vars

\* The operating system runs the server's threads, and read_frame times out if
\* it does not return before.  Nothing is asked of the client.
Fairness == \A s \in Sessions : WF_vars(ThreadStep(s))

FairSpec == Spec /\ Fairness

-----------------------------------------------------------------------------
\* docs/TRANSPORT.md 56: whatever the link repeats, delays or reorders, and
\* although the client sends a message again under a new number and the session
\* forgets what falls out of its window and its cache, no frame is accepted
\* twice in a session, no frame that lags by more than the window, and no
\* message within the cache's reach (session.py 103-163).
AcceptedOnce ==
  \A s \in Sessions : \A i, j \in DOMAIN accepted[s] :
    i < j =>
      LET m == accepted[s][i]
          n == accepted[s][j]
      IN /\ m # n
         /\ n + Window >= m
         /\ j <= i + IdCache => sent[s][m] # sent[s][n]

\* docs/SECURITY.md 38: a revoked device's packets are rejected.  The router
\* reads the trust record before it records the message, so a session gets one
\* message past a revocation at most, however often trust comes and goes
\* (router.py 78-105, 123-135).
OneLateMessage == \A s \in Sessions : late[s] <= 1

\* A connection leaves nothing CONNECTED behind: a session row says CONNECTED
\* only while its thread is at work, and the peer's row only while some thread
\* is, whatever exceptions, stops, commands and other connections of the same
\* peer came in between.  Only a killed thread leaves them (server.py 394-409).
AtWork(s) == ses[s].at \notin {"none", "create", "record", "gone"}

NoGhostConnection ==
  /\ \A s \in Sessions : sessRow[s] = "CONNECTED" => AtWork(s)
  /\ peer = "CONNECTED" => \E s \in Sessions : AtWork(s)

\* Once stopped, the server's threads come to their end, wherever the stop found
\* them and whatever their clients do, unless it is started again
\* (server.py 363-409, 411-429).
StopDrains ==
  ~running ~> (running \/ \A s \in Sessions : ses[s].at \in {"none", "gone", "killed"})
=============================================================================
