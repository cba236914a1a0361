------------------------------ MODULE NexusLink ------------------------------
(***************************************************************************)
(* The client's side of the transport, and what passes between it and the  *)
(* server: the handshake, the keys, the frames on the socket               *)
(* (guardianmesh/transport/client.py, crypto.py, framing.py), and the same *)
(* pair within one process (MemoryTransportClient, MemoryTransportServer), *)
(* which is what `guardian transport connect` uses.  What a server does    *)
(* with a message and how its threads and stops interleave is in Nexus.    *)
(*                                                                         *)
(* A client is used by one thread at a time: nothing in it is locked.  The *)
(* h-th handshake draws ephemeral keys, nonces and a session id that were  *)
(* never drawn before, here all named h; signatures are those of the two   *)
(* parties.  What is refused before anything has changed (an untrusted     *)
(* peer, a refused connection, an expired session) is left out.            *)
(***************************************************************************)
EXTENDS Naturals, Sequences, Functions

CONSTANTS
  MaxHandshakes,  \* bound: connections a client attempts
  MaxSealed       \* bound: frames a client encrypts in one session

ASSUME LinkAssumption == MaxHandshakes \in Nat /\ MaxSealed \in Nat

VARIABLES
  memory,     \* is it the pair within one process
  client,     \* where its thread is, _sock, _session, the handshakes begun
  aligned,    \* does the client's next read of its socket begin at a frame
  thread,     \* per connection, where its thread at the server is
  session,    \* server: per handshake, the session it led to
  up, down,   \* per connection, the frames that wait to be read at either end
  clientRow,  \* client's transport_sessions.state, per session
  clientPeer, \* client's transport_peers.connection_state of the server
  sealed,     \* history: the keys and numbers frames were encrypted with
  reused,     \* history: was one of them used twice
  foreign     \* history: was a frame accepted in a session it was not meant for

link == <<thread, session, up, down>>
clientRows == <<clientRow, clientPeer>>
linkHistory == <<sealed, reused, foreign>>
linkVars == <<memory, client, aligned, link, clientRows, linkHistory>>

Handshakes == 1 .. MaxHandshakes

\* The state of a TransportSession that matters here: its keys, the number it
\* counts up as it encrypts, and the numbers it has seen.
NoKey == <<>>
Unused == [id |-> 0, send |-> NoKey, recv |-> NoKey, out |-> 0, seen |-> {}]

\* A frame on the wire: an INIT or ACK of handshake id, an encrypted one, or a
\* piece of one that a failing write left behind.
Frame(kind, id, key, n) == [kind |-> kind, id |-> id, key |-> key, n |-> n]
Torn == Frame("TORN", 0, NoKey, 0)

LinkInit ==
  /\ memory \in BOOLEAN
  /\ client = [at |-> "idle", sock |-> 0, ses |-> Unused, begun |-> 0]
  /\ aligned = TRUE
  /\ thread = [h \in Handshakes |-> "none"]
  /\ session = [h \in Handshakes |-> Unused]
  /\ up = [h \in Handshakes |-> <<>>]
  /\ down = [h \in Handshakes |-> <<>>]
  /\ clientRow = [h \in Handshakes |-> "none"]
  /\ clientPeer = "none"
  /\ sealed = {}
  /\ reused = FALSE
  /\ foreign = FALSE

-----------------------------------------------------------------------------
(* Keys and frames.                                                        *)

\* Mutant: both ends take the client's key to encrypt.
OneKey(ce, se, initiator) ==
  LET k == <<ce, se, "client">> IN [send |-> k, recv |-> k]

\* derive_session_keys: from the two ephemeral keys and the nonces come a key per
\* direction.
DerivedKeys(ce, se, initiator) ==
  LET c == <<ce, se, "client">>
      s == <<ce, se, "server">>
  IN IF initiator THEN [send |-> c, recv |-> s] ELSE [send |-> s, recv |-> c]

NewSession(id, keys) == [Unused EXCEPT !.id = id, !.send = keys.send, !.recv = keys.recv]

\* create_session_init and create_session_ack; the ACK names the client's ephemeral
\* key, and verify_session_ack wants to see its own.
SessionInit(h) == Frame("INIT", h, NoKey, 0)
SessionAck(init, h) == Frame("ACK", h, <<init.id>>, 0)
VerifiedInit(f) == f.kind = "INIT"
VerifiedAck(f, h) == f.kind = "ACK" /\ f.key = <<h>>

\* encrypt_envelope, which numbers the frame; construct_nonce makes the nonce of the
\* number, so that a key and a number may go together once.
Encrypted(q) == Frame("DATA", q.id, q.send, q.out + 1)
Counted(q) == [q EXCEPT !.out = @ + 1]

Seal(f) ==
  /\ sealed' = sealed \cup {<<f.key, f.n>>}
  /\ reused' = (reused \/ <<f.key, f.n>> \in sealed)

\* Mutant: a frame of any session is good.
DecryptsAny(q, f) == f.kind = "DATA" /\ q.recv # NoKey

\* decrypt_frame: the session must not be closed, the frame be its own, and its key
\* the one the other end used.
Decrypts(q, f) == f.kind = "DATA" /\ q.recv # NoKey /\ f.id = q.id /\ f.key = q.recv

Received(q, f) == Decrypts(q, f) /\ f.n \notin q.seen
Seen(q, f) == [q EXCEPT !.seen = @ \cup {f.n}]
NoteForeign(q, f) == foreign' = (foreign \/ f.id # q.id)

ClosedSession(q) == [q EXCEPT !.send = NoKey, !.recv = NoKey]

Pop(wire, h) == [wire EXCEPT ![h] = Tail(@)]
Push(wire, h, f) == [wire EXCEPT ![h] = Append(@, f)]

-----------------------------------------------------------------------------
(* LocalSocketTransportClient.connect.                                     *)

\* The socket is replaced before the handshake, the session after it: until then,
\* and after a handshake that fails, the old session goes with the new socket.
Dial ==
  /\ ~memory
  /\ client.at = "idle"
  /\ client.begun < MaxHandshakes
  /\ LET h == client.begun + 1 IN
       /\ client' = [client EXCEPT !.at = "init", !.sock = h, !.begun = h]
       /\ thread' = [thread EXCEPT ![h] = "init"]
  /\ aligned' = TRUE
  /\ UNCHANGED <<memory, session, up, down, clientRows, linkHistory>>

Raise == client' = [client EXCEPT !.at = "idle"]

\* write_frame: sendall may fail with nothing or a part of the frame written.
WriteFrame(h, f) ==
  \/ up' = Push(up, h, f)
  \/ up' \in {up, Push(up, h, Torn)}

WriteInit ==
  /\ client.at = "init"
  /\ \/ up' = Push(up, client.sock, SessionInit(client.sock))
        /\ client' = [client EXCEPT !.at = "ack"]
     \/ up' \in {up, Push(up, client.sock, Torn)} /\ Raise
  /\ UNCHANGED <<memory, aligned, thread, session, down, clientRows, linkHistory>>

ReadAck ==
  /\ client.at = "ack"
  /\ down[client.sock] # <<>>
  /\ LET f == Head(down[client.sock])
         h == client.sock
     IN IF VerifiedAck(f, h)
        THEN client' = [client EXCEPT !.at = "record",
                                      !.ses = NewSession(f.id, DerivedKeys(h, f.id, TRUE))]
        ELSE Raise
  /\ down' = Pop(down, client.sock)
  /\ UNCHANGED <<memory, aligned, thread, session, up, clientRows, linkHistory>>

\* A read that times out between the bytes of a frame has lost what it had read.
LosesPlace == aligned' \in IF down[client.sock] = <<>> THEN {aligned} ELSE {aligned, FALSE}

\* The timeout, or the server has closed the connection.
AckFails ==
  /\ client.at = "ack"
  /\ Raise
  /\ LosesPlace
  /\ UNCHANGED <<memory, link, clientRows, linkHistory>>

\* record_session, record_peer; a failing access leaves the client connected, although
\* connect raises.
ClientRecords ==
  /\ client.at = "record"
  /\ \/ /\ clientRow' = [clientRow EXCEPT ![client.ses.id] = "CONNECTED"]
        /\ client' = [client EXCEPT !.at = "peer"]
     \/ Raise /\ UNCHANGED clientRow
  /\ UNCHANGED <<memory, aligned, link, clientPeer, linkHistory>>

ClientRecordsPeer ==
  /\ client.at = "peer"
  /\ Raise
  /\ clientPeer' \in {clientPeer, "CONNECTED"}
  /\ UNCHANGED <<memory, aligned, link, clientRow, linkHistory>>

-----------------------------------------------------------------------------
(* The client in use.                                                      *)

HasSession == client.ses.id # 0

\* send_envelope; the frames to a server within the process share one inbox.
Lane == IF memory THEN 1 ELSE client.sock

ClientSend ==
  /\ client.at = "idle"
  /\ HasSession /\ (memory \/ client.sock # 0)
  /\ client.ses.out < MaxSealed
  /\ Seal(Encrypted(client.ses))
  /\ client' = [client EXCEPT !.ses = Counted(@)]
  /\ IF memory THEN up' = Push(up, Lane, Encrypted(client.ses))
     ELSE WriteFrame(Lane, Encrypted(client.ses))
  /\ UNCHANGED <<memory, aligned, thread, session, down, clientRows, foreign>>

\* receive_envelope: what is not an encrypted frame of the session is dropped, and
\* so is what a read that begins amid a frame takes for one.  That may find the
\* next frame's beginning again, or not.
ClientReceive ==
  /\ ~memory
  /\ client.at = "idle"
  /\ HasSession /\ client.sock # 0
  /\ down[client.sock] # <<>>
  /\ LET f == Head(down[client.sock]) IN
       IF aligned /\ Received(client.ses, f)
       THEN client' = [client EXCEPT !.ses = Seen(@, f)] /\ NoteForeign(client.ses, f)
       ELSE UNCHANGED <<client, foreign>>
  /\ down' = Pop(down, client.sock)
  /\ aligned' \in IF aligned THEN {TRUE} ELSE BOOLEAN
  /\ UNCHANGED <<memory, thread, session, up, clientRows, sealed, reused>>

ReceiveTimesOut ==
  /\ ~memory
  /\ client.at = "idle"
  /\ HasSession /\ client.sock # 0
  /\ LosesPlace
  /\ UNCHANGED <<memory, client, link, clientRows, linkHistory>>

\* disconnect closes the session it has; those of earlier connections keep the rows
\* they have.
Disconnect ==
  /\ client.at = "idle"
  /\ IF HasSession
     THEN /\ clientRow' = [clientRow EXCEPT ![client.ses.id] =
                             IF @ = "none" THEN @ ELSE "DISCONNECTED"]
          /\ clientPeer' = "DISCONNECTED"
     ELSE UNCHANGED clientRows
  /\ client' = [client EXCEPT !.sock = 0, !.ses = Unused]
  /\ UNCHANGED <<memory, aligned, link, linkHistory>>

-----------------------------------------------------------------------------
(* The thread of connection h at the server.                               *)

\* The first frame must be a SESSION_INIT.
ThreadHandshake(h) ==
  /\ thread[h] = "init"
  /\ up[h] # <<>>
  /\ LET f == Head(up[h]) IN
       IF VerifiedInit(f)
       THEN \/ /\ down' = Push(down, h, SessionAck(f, h))
               /\ session' = [session EXCEPT ![h] = NewSession(h, DerivedKeys(f.id, h, FALSE))]
               /\ thread' = [thread EXCEPT ![h] = "loop"]
            \/ thread' = [thread EXCEPT ![h] = "gone"] /\ UNCHANGED <<session, down>>
       ELSE thread' = [thread EXCEPT ![h] = "gone"] /\ UNCHANGED <<session, down>>
  /\ up' = Pop(up, h)
  /\ UNCHANGED <<memory, client, aligned, clientRows, linkHistory>>

Gone(h) ==
  /\ thread' = [thread EXCEPT ![h] = "gone"]
  /\ session' = [session EXCEPT ![h] = ClosedSession(@)]

\* A frame is accepted or ends the thread.  A PING is answered: create_pong takes a
\* number for the envelope, and encrypt_envelope the one it gets.
ThreadFrame(h) ==
  /\ thread[h] = "loop"
  /\ up[h] # <<>>
  /\ LET f == Head(up[h])
         q == session[h]
     IN IF Received(q, f)
        THEN /\ NoteForeign(q, f)
             /\ UNCHANGED thread
             /\ \/ /\ session' = [session EXCEPT ![h] = Seen(@, f)]
                   /\ UNCHANGED <<down, sealed, reused>>
                \/ /\ session' = [session EXCEPT ![h] = Counted(Counted(Seen(@, f)))]
                   /\ Seal(Encrypted(Counted(q)))
                   /\ down' = Push(down, h, Encrypted(Counted(q)))
        ELSE Gone(h) /\ UNCHANGED <<down, linkHistory>>
  /\ up' = Pop(up, h)
  /\ UNCHANGED <<memory, client, aligned, clientRows>>

\* It times out, fails otherwise, or the server stops.
ThreadEnds(h) ==
  /\ thread[h] \in {"init", "loop"}
  /\ Gone(h)
  /\ UNCHANGED <<memory, client, aligned, up, down, clientRows, linkHistory>>

-----------------------------------------------------------------------------
(* The pair within one process, on one database.                           *)

\* handle_handshake_init keeps the session it has derived, and writes its rows.
HandshakeAnswered(h, init) ==
  /\ VerifiedInit(init)
  /\ session' = [session EXCEPT ![h] = NewSession(h, DerivedKeys(init.id, h, FALSE))]

\* MemoryTransportClient.connect calls it; a failing access there leaves the session
\* with the server alone.
MemoryConnect ==
  /\ memory
  /\ client.at = "idle"
  /\ client.begun < MaxHandshakes
  /\ LET h == client.begun + 1
         ack == SessionAck(SessionInit(h), h)
     IN /\ HandshakeAnswered(h, SessionInit(h))
        /\ \/ /\ VerifiedAck(ack, h)
              /\ clientRow' = [clientRow EXCEPT ![h] = "CONNECTED"]
              /\ clientPeer' = "CONNECTED"
              /\ client' = [client EXCEPT !.at = "record", !.begun = h,
                              !.ses = NewSession(ack.id, DerivedKeys(h, ack.id, TRUE))]
           \/ /\ clientRow' \in {clientRow, [clientRow EXCEPT ![h] = "CONNECTED"]}
              /\ client' = [client EXCEPT !.begun = h]
              /\ UNCHANGED clientPeer
  /\ UNCHANGED <<memory, aligned, thread, up, down, linkHistory>>

\* process_next_frame looks for the frame's session among all it has kept.
MemoryFrame ==
  /\ memory
  /\ up[1] # <<>>
  /\ LET f == Head(up[1])
         q == session[f.id]
     IN IF Received(q, f)
        THEN session' = [session EXCEPT ![f.id] = Seen(@, f)] /\ NoteForeign(q, f)
        ELSE UNCHANGED <<session, foreign>>
  /\ up' = Pop(up, 1)
  /\ UNCHANGED <<memory, client, aligned, thread, down, clientRows, sealed, reused>>

\* MemoryTransportServer.stop disconnects the sessions and their rows, not the peer's.
MemoryStop ==
  /\ memory
  /\ clientRow' = [h \in Handshakes |->
                     IF session[h].recv # NoKey /\ clientRow[h] # "none"
                     THEN "DISCONNECTED" ELSE clientRow[h]]
  /\ session' = [h \in Handshakes |-> ClosedSession(session[h])]
  /\ UNCHANGED <<memory, client, aligned, thread, up, down, clientPeer, linkHistory>>

\* `guardian transport connect` ends as soon as it is connected, and the pair with it:
\* only the rows are left, which say CONNECTED.
ConnectCommandEnds ==
  /\ memory
  /\ client.at = "idle"
  /\ client' = [client EXCEPT !.ses = Unused]
  /\ session' = [h \in Handshakes |-> ClosedSession(session[h])]
  /\ up' = [h \in Handshakes |-> <<>>]
  /\ UNCHANGED <<memory, aligned, thread, down, clientRows, linkHistory>>

\* `guardian transport reconnect` does the same with a ReconnectManager that has just
\* been made, whose bound on the attempts the first one never meets, and resets the
\* peer's count of them.
ReconnectCommandEnds == ConnectCommandEnds

-----------------------------------------------------------------------------
LinkNext ==
  \/ Dial \/ WriteInit \/ ReadAck \/ AckFails \/ ClientRecords \/ ClientRecordsPeer
  \/ ClientSend \/ ClientReceive \/ ReceiveTimesOut \/ Disconnect
  \/ \E h \in Handshakes : ThreadHandshake(h) \/ ThreadFrame(h) \/ ThreadEnds(h)
  \/ MemoryConnect \/ MemoryFrame \/ MemoryStop \/ ConnectCommandEnds \/ ReconnectCommandEnds

LinkSpec == LinkInit /\ [][LinkNext]_linkVars

-----------------------------------------------------------------------------
\* AES-GCM allows a key and a nonce to go together once.  The nonce is made of the
\* frame's number alone, which both ends count by themselves: whatever either sends,
\* across failed writes, answers and new connections, no pair comes twice
\* (crypto.py 83-91, session.py 168-187, heartbeat.py 72-92).
NonceUsedOnce == ~reused

\* docs/TRANSPORT.md 52: the session of a frame is authenticated.  A client whose
\* reconnect has failed writes frames of its old session to its new socket, and
\* sessions of one server share an inbox; yet a frame is accepted in its own session
\* only, and the two ends of a session hold the same keys crosswise
\* (client.py 306-397, server.py 196-208, session.py 189-214).
FramesFindTheirSession ==
  /\ ~foreign
  /\ HasSession =>
       LET q == session[client.ses.id] IN
         q.recv # NoKey => q.recv = client.ses.send /\ q.send = client.ses.recv
=============================================================================
