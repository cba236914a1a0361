-------------------------- MODULE NexusLink_proofs --------------------------
(***************************************************************************)
(* Proofs about NexusLink, for any number of handshakes and of frames: no  *)
(* key and number encrypt two frames, and a frame is accepted in its own   *)
(* session, whose two ends hold the same keys crosswise.                   *)
(*                                                                         *)
(* KeysInv: the keys of either end are those of one handshake, and the ACK *)
(*   on its way to the client tells which.                                 *)
(* SealedInv: what was encrypted with the keys in use has a number that    *)
(*   was counted, and a key still to be derived has encrypted nothing.     *)
(***************************************************************************)
EXTENDS NexusLink, SequenceTheorems, TLAPS

Key == {NoKey} \cup (Nat \X Nat \X {"client", "server"})
Session == [id : Nat, send : Key, recv : Key, out : Nat, seen : SUBSET Nat]
Frames ==
  [kind : {"INIT", "ACK", "DATA", "TORN"}, id : Nat,
   key : Key \cup {<<c>> : c \in Nat}, n : Nat]

Client ==
  [at : {"idle", "init", "ack", "record", "peer"}, sock : 0 .. MaxHandshakes, ses : Session,
   begun : 0 .. MaxHandshakes]

Typed ==
  /\ memory \in BOOLEAN
  /\ client \in Client
  /\ thread \in [Handshakes -> {"none", "init", "loop", "gone"}]
  /\ session \in [Handshakes -> Session]
  /\ up \in [Handshakes -> Seq(Frames)]
  /\ down \in [Handshakes -> Seq(Frames)]

\* A client that waits for an ACK has no session of this handshake yet.
Waiting == client.at \in {"init", "ack"}

\* The handshakes to come have no thread, and within one process none has.
Places ==
  /\ Waiting => client.sock = client.begun /\ client.sock \in Handshakes
  /\ \A h \in Handshakes : memory \/ h > client.begun => thread[h] = "none"

\* The session of handshake h is derived, once and for all.
Settled(h) == IF memory THEN h <= client.begun ELSE thread[h] \in {"loop", "gone"}

\* The server's end of handshake h holds the keys that go with the client's c.
KeyedBy(q, c, h) == q.recv = <<c, h, "client">> /\ q.send = <<c, h, "server">>
Wiped(q) == q.recv = NoKey

Acks(h) ==
  {f \in Frames :
     f.kind = "ACK" =>
       /\ f.id = h
       /\ Settled(h)
       /\ \E c \in Nat : f.key = <<c>> /\ (Wiped(session[h]) \/ KeyedBy(session[h], c, h))}

Crosswise(q) == q.recv = client.ses.send /\ q.send = client.ses.recv

KeysInv ==
  /\ \A h \in Handshakes : down[h] \in Seq(Acks(h))
  /\ \A h \in Handshakes : Wiped(session[h]) \/ \E c \in Nat : KeyedBy(session[h], c, h)
  /\ HasSession =>
       \E i \in Handshakes :
         /\ client.ses.id = i /\ Settled(i)
         /\ \E c \in Nat : /\ client.ses.send = <<c, i, "client">>
                           /\ c <= client.begun
                           /\ Waiting => c < client.begun
         /\ Wiped(session[i]) \/ Crosswise(session[i])

\* A key the client of handshake c has encrypted with, and one the server has.
ClientSealed(c, i, n) == <<<<c, i, "client">>, n>> \in sealed
ServerSealed(c, h, n) == <<<<c, h, "server">>, n>> \in sealed

SealedInv ==
  /\ \A c, i, n \in Nat :
       ClientSealed(c, i, n) =>
         /\ c <= client.begun
         /\ Waiting => c < client.begun
         /\ HasSession /\ client.ses.send = <<c, i, "client">> => n <= client.ses.out
  /\ \A c, n \in Nat, h \in Handshakes :
       ServerSealed(c, h, n) =>
         /\ thread[h] \in {"loop", "gone"}
         /\ Wiped(session[h]) \/ n <= session[h].out

IInv == Typed /\ Places /\ KeysInv /\ SealedInv /\ ~reused /\ ~foreign
-----------------------------------------------------------------------------
\* A step that derives no key: a session ends or stays, a thread ends or stays,
\* and what waits at the client stays, is read, or is followed by other frames.
ClientCalm ==
  /\ client'.begun = client.begun
  /\ Waiting' => Waiting /\ client'.sock = client.sock
  /\ \/ client'.ses.id = 0
     \/ /\ client'.ses.id = client.ses.id /\ client'.ses.send = client.ses.send
        /\ client'.ses.recv = client.ses.recv /\ client'.ses.out >= client.ses.out

ServerCalm ==
  /\ \A h \in Handshakes :
       \/ thread'[h] = thread[h]
       \/ thread[h] \in {"init", "loop"} /\ thread'[h] = "gone"
  /\ \A h \in Handshakes :
       \/ session'[h].recv = NoKey
       \/ /\ session'[h].recv = session[h].recv /\ session'[h].send = session[h].send
          /\ session'[h].out >= session[h].out

WireCalm ==
  \A S : \A h \in Handshakes :
    down[h] \in Seq(S) /\ {f \in Frames : f.kind # "ACK"} \subseteq S => down'[h] \in Seq(S)

Calm == UNCHANGED memory /\ ClientCalm /\ ServerCalm /\ WireCalm

LEMMA CalmSettled ==
  ASSUME Typed, Calm, NEW h \in Handshakes, Settled(h)
  PROVE  Settled(h)'
BY DEF Calm, ClientCalm, ServerCalm, WireCalm, Settled, Typed

LEMMA CalmKeys ==
  ASSUME Typed, Typed', Places, KeysInv, Calm
  PROVE  Places' /\ KeysInv'
<1>1. Places'
  BY DEF Places, Calm, ClientCalm, ServerCalm, WireCalm, Typed, Handshakes, Waiting
<1>2. ASSUME NEW h \in Handshakes PROVE down'[h] \in Seq(Acks(h)')
  <2>1. Acks(h) \subseteq Acks(h)'
    <3> SUFFICES ASSUME NEW f \in Acks(h), f.kind = "ACK"
                 PROVE  /\ f.id = h /\ Settled(h)'
                        /\ \E c \in Nat : /\ f.key = <<c>>
                                          /\ Wiped(session'[h]) \/ KeyedBy(session'[h], c, h)
      BY DEF Acks
    <3>1. f.id = h /\ Settled(h)'
      BY CalmSettled DEF Acks
    <3>2. PICK c \in Nat : f.key = <<c>> /\ (Wiped(session[h]) \/ KeyedBy(session[h], c, h))
      BY DEF Acks
    <3>3. Wiped(session'[h]) \/ KeyedBy(session'[h], c, h)
      BY <3>2 DEF Calm, ClientCalm, ServerCalm, WireCalm, Wiped, KeyedBy
    <3> QED BY <3>1, <3>2, <3>3
  <2>2. {f \in Frames : f.kind # "ACK"} \subseteq Acks(h)'
    BY DEF Acks
  <2>3. down[h] \in Seq(Acks(h)')
    <3>1. down[h] \in Seq(Acks(h))
      BY DEF KeysInv
    <3> QED BY <2>1, <3>1, SeqMonotonic
  <2> QED BY <2>2, <2>3 DEF Calm, ClientCalm, ServerCalm, WireCalm
<1>3. ASSUME NEW h \in Handshakes
      PROVE  Wiped(session'[h]) \/ \E c \in Nat : KeyedBy(session'[h], c, h)
  BY DEF KeysInv, Calm, ClientCalm, ServerCalm, WireCalm, Wiped, KeyedBy
<1>4. ASSUME HasSession'
      PROVE  \E i \in Handshakes :
               /\ client'.ses.id = i /\ Settled(i)'
               /\ \E c \in Nat : /\ client'.ses.send = <<c, i, "client">>
                                 /\ c <= client'.begun
                                 /\ Waiting' => c < client'.begun
               /\ Wiped(session'[i]) \/ Crosswise(session[i])'
  <2>1. /\ HasSession /\ client'.ses.id = client.ses.id /\ client'.ses.send = client.ses.send
        /\ client'.ses.recv = client.ses.recv
    BY <1>4 DEF Calm, ClientCalm, ServerCalm, WireCalm, HasSession
  <2>2. PICK i \in Handshakes :
          /\ client.ses.id = i /\ Settled(i)
          /\ \E c \in Nat : /\ client.ses.send = <<c, i, "client">>
                            /\ c <= client.begun
                            /\ Waiting => c < client.begun
          /\ Wiped(session[i]) \/ Crosswise(session[i])
    BY <2>1 DEF KeysInv
  <2>3. Settled(i)'
    BY <2>2, CalmSettled
  <2>4. PICK c \in Nat : /\ client.ses.send = <<c, i, "client">> /\ c <= client.begun
                         /\ Waiting => c < client.begun
    BY <2>2
  <2>5. /\ client'.ses.send = <<c, i, "client">> /\ c <= client'.begun
        /\ Waiting' => c < client'.begun
    BY <2>1, <2>4 DEF Calm, ClientCalm, ServerCalm, WireCalm
  <2>6. Wiped(session'[i]) \/ Crosswise(session[i])'
    BY <2>1, <2>2 DEF Calm, ClientCalm, ServerCalm, WireCalm, Wiped, Crosswise
  <2> QED BY <2>1, <2>2, <2>3, <2>5, <2>6
<1> QED BY <1>1, <1>2, <1>3, <1>4 DEF KeysInv

\* As long as nothing is encrypted, what was encrypted stays within the counts.
LEMMA CalmSealed ==
  ASSUME Typed, Typed', SealedInv, Calm, UNCHANGED sealed
  PROVE  SealedInv'
<1>1. ASSUME NEW c \in Nat, NEW i \in Nat, NEW n \in Nat, ClientSealed(c, i, n)
      PROVE  /\ c <= client'.begun
             /\ Waiting' => c < client'.begun
             /\ HasSession' /\ client'.ses.send = <<c, i, "client">> => n <= client'.ses.out
  <2>1. /\ c <= client.begun /\ (Waiting => c < client.begun)
        /\ HasSession /\ client.ses.send = <<c, i, "client">> => n <= client.ses.out
    BY <1>1 DEF SealedInv
  <2>2. client.ses.out \in Nat /\ client'.ses.out \in Nat
    BY DEF Typed, Client, Session
  <2>3. ClientCalm
    BY DEF Calm
  <2>4. HasSession' => /\ HasSession
                       /\ client'.ses.send = client.ses.send
                       /\ client'.ses.out >= client.ses.out
    BY <2>3 DEF ClientCalm, HasSession
  <2>5. client'.begun = client.begun /\ (Waiting' => Waiting)
    BY <2>3 DEF ClientCalm
  <2> QED BY <2>1, <2>2, <2>4, <2>5
<1>2. ASSUME NEW c \in Nat, NEW n \in Nat, NEW h \in Handshakes, ServerSealed(c, h, n)
      PROVE  thread'[h] \in {"loop", "gone"} /\ (Wiped(session'[h]) \/ n <= session'[h].out)
  <2>1. thread[h] \in {"loop", "gone"} /\ (Wiped(session[h]) \/ n <= session[h].out)
    BY <1>2 DEF SealedInv
  <2>2. session[h].out \in Nat /\ session'[h].out \in Nat
    BY DEF Typed, Session
  <2> QED BY <2>1, <2>2 DEF Calm, ClientCalm, ServerCalm, WireCalm, Wiped
<1>3. /\ \A c, i, n \in Nat : ClientSealed(c, i, n)' => ClientSealed(c, i, n)
      /\ \A c, n \in Nat, h \in Handshakes : ServerSealed(c, h, n)' => ServerSealed(c, h, n)
  BY DEF ClientSealed, ServerSealed
<1> QED BY <1>1, <1>2, <1>3 DEF SealedInv

LEMMA CalmStep ==
  ASSUME IInv, Typed', Calm, UNCHANGED sealed, ~reused', ~foreign'
  PROVE  IInv'
BY CalmKeys, CalmSealed DEF IInv

-----------------------------------------------------------------------------
LEMMA PushIsSeq ==
  ASSUME NEW S, NEW q \in Seq(S), NEW f \in S
  PROVE  Append(q, f) \in Seq(S)
OBVIOUS

LEMMA PopIsSeq ==
  ASSUME NEW S, NEW q \in Seq(S), q # <<>>
  PROVE  Head(q) \in S /\ Tail(q) \in Seq(S)
OBVIOUS

LEMMA KeyIsReal == \A c, h, r : <<c, h, r>> # NoKey
BY DEF NoKey

\* What a step that does not touch one of the parts, or only reads a frame, does to it.
LEMMA SameClient == ASSUME Typed, UNCHANGED client PROVE client' \in Client /\ ClientCalm
<1>1. client.ses.out \in Nat
  BY DEF Typed, Client, Session
<1> QED BY <1>1 DEF Typed, ClientCalm, Waiting

LEMMA SameServer ==
  ASSUME Typed, UNCHANGED <<thread, session>>
  PROVE  /\ thread' \in [Handshakes -> {"none", "init", "loop", "gone"}]
         /\ session' \in [Handshakes -> Session]
         /\ ServerCalm
<1>1. \A h \in Handshakes : session[h].out \in Nat
  BY DEF Typed, Session
<1> QED BY <1>1 DEF Typed, ServerCalm

LEMMA SameWire ==
  ASSUME Typed, UNCHANGED down
  PROVE  down' \in [Handshakes -> Seq(Frames)] /\ WireCalm
BY DEF Typed, WireCalm

LEMMA PopDown ==
  ASSUME Typed, NEW h, down[h] # <<>>, down' = Pop(down, h)
  PROVE  down' \in [Handshakes -> Seq(Frames)] /\ WireCalm
<1>1. ASSUME NEW g \in Handshakes, NEW S, down[g] \in Seq(S) PROVE down'[g] \in Seq(S)
  <2>1. down'[g] = IF g = h THEN Tail(down[g]) ELSE down[g]
    BY DEF Typed, Pop
  <2> QED BY <1>1, <2>1, PopIsSeq
<1>2. \A g \in Handshakes : down'[g] \in Seq(Frames)
  BY <1>1 DEF Typed
<1>3. down' = [g \in Handshakes |-> down'[g]]
  BY DEF Typed, Pop
<1> QED BY <1>1, <1>2, <1>3 DEF WireCalm

LEMMA PopUp ==
  ASSUME Typed, NEW h, up[h] # <<>>, up' = Pop(up, h)
  PROVE  up' \in [Handshakes -> Seq(Frames)]
<1>1. ASSUME NEW g \in Handshakes PROVE up'[g] \in Seq(Frames)
  <2>1. up'[g] = IF g = h THEN Tail(up[g]) ELSE up[g]
    BY DEF Typed, Pop
  <2>2. up[g] \in Seq(Frames)
    BY DEF Typed
  <2> QED BY <2>1, <2>2, PopIsSeq
<1>2. up' = [g \in Handshakes |-> up'[g]]
  BY DEF Typed, Pop
<1> QED BY <1>1, <1>2

LEMMA PushUp ==
  ASSUME Typed, NEW h, NEW f \in Frames, up' = up \/ up' = Push(up, h, f)
  PROVE  up' \in [Handshakes -> Seq(Frames)]
<1>1. CASE up' = Push(up, h, f)
  <2>1. ASSUME NEW g \in Handshakes PROVE up'[g] \in Seq(Frames)
    <3>1. up'[g] = IF g = h THEN Append(up[g], f) ELSE up[g]
      BY <1>1 DEF Typed, Push
    <3>2. up[g] \in Seq(Frames)
      BY DEF Typed
    <3> QED BY <3>1, <3>2, PushIsSeq
  <2>2. up' = [g \in Handshakes |-> up'[g]]
    BY <1>1 DEF Typed, Push
  <2> QED BY <2>1, <2>2
<1>2. CASE up' = up
  BY <1>2 DEF Typed
<1> QED BY <1>1, <1>2

LEMMA PushDown ==
  ASSUME Typed, NEW h, NEW f \in Frames, down' = Push(down, h, f)
  PROVE  /\ down' \in [Handshakes -> Seq(Frames)]
         /\ \A S : \A g \in Handshakes :
              down[g] \in Seq(S) /\ (g = h => f \in S) => down'[g] \in Seq(S)
<1>1. ASSUME NEW g \in Handshakes, NEW S, down[g] \in Seq(S), g = h => f \in S
      PROVE  down'[g] \in Seq(S)
  <2>1. down'[g] = IF g = h THEN Append(down[g], f) ELSE down[g]
    BY DEF Typed, Push
  <2> QED BY <1>1, <2>1, PushIsSeq
<1>2. \A g \in Handshakes : down'[g] \in Seq(Frames)
  BY <1>1 DEF Typed
<1>3. down' = [g \in Handshakes |-> down'[g]]
  BY DEF Typed, Push
<1> QED BY <1>1, <1>2, <1>3

\* The client's thread goes on with the session it has, or with none.
LEMMA ClientGoesOn ==
  ASSUME Typed, NEW a \in {"idle", "init", "ack", "record", "peer"},
         a \in {"init", "ack"} => Waiting,
         client' = [client EXCEPT !.at = a]
  PROVE  client' \in Client /\ ClientCalm
<1>1. /\ client' \in Client /\ client'.at = a /\ client'.sock = client.sock
      /\ client'.ses = client.ses /\ client'.begun = client.begun
  BY DEF Typed, Client
<1>2. client.ses.out \in Nat
  BY DEF Typed, Client, Session
<1> QED BY <1>1, <1>2 DEF ClientCalm, Waiting

LEMMA UnusedIsSession == Unused \in Session /\ Unused.id = 0
BY DEF Unused, Session, Key

LEMMA FramesAreFrames ==
  /\ Torn \in Frames /\ \A h \in Nat : SessionInit(h) \in Frames
  /\ \A f \in Frames, h \in Nat : SessionAck(f, h) \in Frames
  /\ \A q \in Session : Encrypted(q) \in Frames /\ Encrypted(q).kind = "DATA"
<1>1. \A q \in Session : q.send \in Key /\ q.id \in Nat /\ q.out + 1 \in Nat
  BY DEF Session
<1>2. \A f \in Frames : <<f.id>> \in {<<c>> : c \in Nat}
  BY DEF Frames
<1>3. NoKey \in Key
  BY DEF Key
<1> HIDE DEF Key, NoKey
<1> QED BY <1>1, <1>2, <1>3 DEF Torn, SessionInit, SessionAck, Encrypted, Frame, Frames

-----------------------------------------------------------------------------
(* The steps that derive no key and encrypt nothing.                       *)

LEMMA NoneForeign ==
  ASSUME ~foreign, NEW q, NEW f, Received(q, f), NoteForeign(q, f)
  PROVE  ~foreign'
BY DEF Received, Decrypts, NoteForeign

LEMMA SeenIsSession ==
  ASSUME NEW q \in Session, NEW f \in Frames
  PROVE  /\ Seen(q, f) \in Session
         /\ Seen(q, f).id = q.id /\ Seen(q, f).send = q.send /\ Seen(q, f).recv = q.recv
         /\ Seen(q, f).out = q.out
BY DEF Seen, Session, Frames

LEMMA CountedIsSession ==
  ASSUME NEW q \in Session
  PROVE  /\ Counted(q) \in Session
         /\ Counted(q).id = q.id /\ Counted(q).send = q.send /\ Counted(q).recv = q.recv
         /\ Counted(q).out = q.out + 1
BY DEF Counted, Session

LEMMA ClosedIsSession ==
  ASSUME NEW q \in Session
  PROVE  ClosedSession(q) \in Session /\ ClosedSession(q).recv = NoKey
<1>1. NoKey \in Key
  BY DEF Key
<1> QED BY <1>1 DEF ClosedSession, Session

\* The socket's client, but for the ACK it reads and the frames it sends.
LEMMA ClientStepCalm ==
  ASSUME IInv, \/ WriteInit \/ AckFails \/ ClientRecords \/ ClientRecordsPeer
               \/ ClientReceive \/ ReceiveTimesOut \/ Disconnect
  PROVE  IInv'
<1>0. Typed /\ ~reused /\ ~foreign
  BY DEF IInv
<1> DEFINE Servers == UNCHANGED <<memory, thread, session>> /\ UNCHANGED sealed /\ UNCHANGED reused
<1>1. ASSUME Servers, ~foreign', client' \in Client, ClientCalm,
             up' \in [Handshakes -> Seq(Frames)],
             down' \in [Handshakes -> Seq(Frames)], WireCalm
      PROVE  IInv'
  <2>1. Typed' /\ Calm
    BY <1>0, <1>1, SameServer DEF Typed, Calm
  <2> QED BY <1>0, <1>1, <2>1, CalmStep
<1>2. CASE WriteInit
  <2>1. Servers /\ ~foreign' /\ UNCHANGED down
    BY <1>0, <1>2 DEF WriteInit, linkHistory
  <2>2. client' \in Client /\ ClientCalm
    <3>1. CASE client' = [client EXCEPT !.at = "ack"]
      <4>1. Waiting
        BY <1>2 DEF WriteInit, Waiting
      <4> QED BY <1>0, <3>1, <4>1, ClientGoesOn
    <3>2. CASE Raise
      <4>1. client' = [client EXCEPT !.at = "idle"]
        BY <3>2 DEF Raise
      <4> QED BY <1>0, <4>1, ClientGoesOn
    <3> QED BY <1>2, <3>1, <3>2 DEF WriteInit
  <2>3. up' \in [Handshakes -> Seq(Frames)]
    <3>1. client.sock \in Nat
      BY <1>0, LinkAssumption DEF Typed, Client
    <3>2. SessionInit(client.sock) \in Frames /\ Torn \in Frames
      BY <3>1, FramesAreFrames
    <3>3. \/ up' = up \/ up' = Push(up, client.sock, SessionInit(client.sock))
          \/ up' = Push(up, client.sock, Torn)
      BY <1>2 DEF WriteInit
    <3> QED BY <1>0, <3>2, <3>3, PushUp
  <2>4. down' \in [Handshakes -> Seq(Frames)] /\ WireCalm
    BY <1>0, <2>1, SameWire
  <2> QED BY <1>1, <2>1, <2>2, <2>3, <2>4
<1>3. CASE AckFails \/ ClientRecords \/ ClientRecordsPeer \/ ReceiveTimesOut \/ Disconnect
  <2>1. Servers /\ ~foreign' /\ UNCHANGED <<up, down>>
    BY <1>0, <1>3 DEF AckFails, ClientRecords, ClientRecordsPeer, ReceiveTimesOut, Disconnect,
                      linkHistory, link
  <2>2. client' \in Client /\ ClientCalm
    <3>1. CASE Raise \/ client' = [client EXCEPT !.at = "peer"]
      <4>1. \/ client' = [client EXCEPT !.at = "idle"]
            \/ client' = [client EXCEPT !.at = "peer"]
        BY <3>1 DEF Raise
      <4> QED BY <1>0, <4>1, ClientGoesOn
    <3>2. CASE UNCHANGED client
      BY <1>0, <3>2, SameClient
    <3>3. CASE Disconnect
      <4>1. client' = [client EXCEPT !.sock = 0, !.ses = Unused] /\ client.at = "idle"
        BY <3>3 DEF Disconnect
      <4>2. Unused \in Session /\ Unused.id = 0 /\ 0 \in 0 .. MaxHandshakes
        BY UnusedIsSession, LinkAssumption
      <4>3. /\ client' \in Client /\ client'.at = "idle" /\ client'.ses = Unused
            /\ client'.begun = client.begun
        BY <1>0, <4>1, <4>2 DEF Typed, Client
      <4> QED BY <4>2, <4>3 DEF ClientCalm, Waiting
    <3> QED BY <1>3, <3>1, <3>2, <3>3 DEF AckFails, ClientRecords, ClientRecordsPeer,
                                          ReceiveTimesOut
  <2>3. up' \in [Handshakes -> Seq(Frames)]
    BY <1>0, <2>1 DEF Typed
  <2>4. down' \in [Handshakes -> Seq(Frames)] /\ WireCalm
    BY <1>0, <2>1, SameWire
  <2> QED BY <1>1, <2>1, <2>2, <2>3, <2>4
<1>4. CASE ClientReceive
  <2> DEFINE f == Head(down[client.sock])
             q == client.ses
  <2>1. Servers /\ UNCHANGED up
    BY <1>4 DEF ClientReceive
  <2>2. \/ Received(q, f) /\ client' = [client EXCEPT !.ses = Seen(q, f)] /\ NoteForeign(q, f)
        \/ UNCHANGED <<client, foreign>>
    BY <1>4 DEF ClientReceive
  <2>3. down[client.sock] # <<>> /\ down' = Pop(down, client.sock)
    BY <1>4 DEF ClientReceive
  <2>4. client.sock \in Handshakes
    BY <1>0, <1>4, LinkAssumption DEF Typed, Client, ClientReceive, Handshakes
  <2>5. f \in Frames /\ q \in Session
    <3>1. down[client.sock] \in Seq(Frames)
      BY <1>0, <2>4 DEF Typed
    <3> QED BY <1>0, <2>3, <3>1, PopIsSeq DEF Typed, Client
  <2> HIDE DEF f
  <2>6. client' \in Client /\ ClientCalm
    <3>1. CASE client' = [client EXCEPT !.ses = Seen(q, f)]
      <4>1. /\ Seen(q, f) \in Session /\ Seen(q, f).id = q.id /\ Seen(q, f).send = q.send
            /\ Seen(q, f).recv = q.recv /\ Seen(q, f).out = q.out
        BY <2>5, SeenIsSession
      <4>2. /\ client' \in Client /\ client'.at = client.at /\ client'.sock = client.sock
            /\ client'.begun = client.begun /\ client'.ses = Seen(q, f)
        BY <1>0, <3>1, <4>1 DEF Typed, Client
      <4>3. q.out \in Nat
        BY <2>5 DEF Session
      <4> QED BY <4>1, <4>2, <4>3 DEF ClientCalm, Waiting
    <3>2. CASE UNCHANGED client
      BY <1>0, <3>2, SameClient
    <3> QED BY <2>2, <3>1, <3>2
  <2>7. ~foreign'
    BY <1>0, <2>2, NoneForeign
  <2>8. up' \in [Handshakes -> Seq(Frames)]
    BY <1>0, <2>1 DEF Typed
  <2>9. down' \in [Handshakes -> Seq(Frames)] /\ WireCalm
    BY <1>0, <2>3, PopDown
  <2> QED BY <1>1, <2>1, <2>6, <2>7, <2>8, <2>9
<1> QED BY <1>2, <1>3, <1>4

ServerTyped ==
  /\ thread' \in [Handshakes -> {"none", "init", "loop", "gone"}]
  /\ session' \in [Handshakes -> Session]

\* One session is used, and its thread goes on or ends.
LEMMA SessionGoesOn ==
  ASSUME Typed, NEW h \in Handshakes, NEW q \in Session,
         \/ q.recv = NoKey
         \/ q.recv = session[h].recv /\ q.send = session[h].send /\ q.out >= session[h].out,
         session' = [session EXCEPT ![h] = q],
         \/ UNCHANGED thread
         \/ thread[h] \in {"init", "loop"} /\ thread' = [thread EXCEPT ![h] = "gone"]
  PROVE  ServerTyped /\ ServerCalm
<1>1. session' \in [Handshakes -> Session] /\ session'[h] = q
      /\ \A g \in Handshakes \ {h} : session'[g] = session[g]
  BY DEF Typed
<1>2. /\ thread' \in [Handshakes -> {"none", "init", "loop", "gone"}]
      /\ \A g \in Handshakes : \/ thread'[g] = thread[g]
                               \/ thread[g] \in {"init", "loop"} /\ thread'[g] = "gone"
  BY DEF Typed
<1>3. \A g \in Handshakes : session[g].out \in Nat
  BY DEF Typed, Session
<1> QED BY <1>1, <1>2, <1>3 DEF ServerCalm, ServerTyped

LEMMA GoneEnds ==
  ASSUME Typed, NEW h \in Handshakes, thread[h] \in {"init", "loop"}, Gone(h)
  PROVE  ServerTyped /\ ServerCalm
<1> DEFINE q == ClosedSession(session[h])
<1>1. q \in Session /\ q.recv = NoKey
  BY ClosedIsSession DEF Typed
<1>2. /\ thread' = [thread EXCEPT ![h] = "gone"]
      /\ session' = [session EXCEPT ![h] = q]
  BY DEF Gone
<1> HIDE DEF q
<1> QED BY <1>1, <1>2, SessionGoesOn

\* All sessions are wiped.
LEMMA AllWiped ==
  ASSUME Typed, UNCHANGED thread, session' = [h \in Handshakes |-> ClosedSession(session[h])]
  PROVE  ServerTyped /\ ServerCalm
<1>1. \A h \in Handshakes :
        ClosedSession(session[h]) \in Session /\ ClosedSession(session[h]).recv = NoKey
  BY ClosedIsSession DEF Typed
<1> QED BY <1>1 DEF Typed, ServerTyped, ServerCalm

\* The server's threads and the pair within one process, where they derive no key and
\* send nothing.
LEMMA ServerStepCalm ==
  ASSUME IInv, UNCHANGED <<memory, sealed, reused>>, ServerTyped, ServerCalm, ~foreign',
         client' \in Client, ClientCalm,
         up' \in [Handshakes -> Seq(Frames)],
         down' \in [Handshakes -> Seq(Frames)], WireCalm
  PROVE  IInv'
<1>1. Typed' /\ Calm
  BY DEF IInv, Typed, Calm, ServerTyped
<1> QED BY <1>1, CalmStep DEF IInv

LEMMA ThreadEndsStep ==
  ASSUME IInv, NEW h \in Handshakes, ThreadEnds(h)
  PROVE  IInv'
<1>1. /\ Typed /\ UNCHANGED <<memory, sealed, reused, client, up, down>> /\ ~foreign'
      /\ thread[h] \in {"init", "loop"} /\ Gone(h)
  BY DEF IInv, ThreadEnds, linkHistory
<1>2. up' \in [Handshakes -> Seq(Frames)]
  BY <1>1 DEF Typed
<1> QED BY <1>1, <1>2, GoneEnds, SameClient, SameWire, ServerStepCalm

LEMMA MemoryFrameStep ==
  ASSUME IInv, MemoryFrame
  PROVE  IInv'
<1> DEFINE f == Head(up[1])
           q == session[f.id]
<1>1. /\ Typed /\ UNCHANGED <<memory, sealed, reused, client, thread, down>> /\ ~foreign
      /\ up[1] # <<>> /\ up' = Pop(up, 1)
      /\ \/ /\ Received(q, f) /\ NoteForeign(q, f)
            /\ session' = [session EXCEPT ![f.id] = Seen(q, f)]
         \/ UNCHANGED <<session, foreign>>
  BY DEF IInv, MemoryFrame
<1>2. up' \in [Handshakes -> Seq(Frames)]
  BY <1>1, PopUp
<1>3. ~foreign'
  BY <1>1, NoneForeign
<1>4. ServerTyped /\ ServerCalm
  <2>1. CASE UNCHANGED session
    BY <1>1, <2>1, SameServer DEF ServerTyped
  <2>2. CASE session' = [session EXCEPT ![f.id] = Seen(q, f)] /\ f.id \notin Handshakes
    <3>1. UNCHANGED session
      BY <1>1, <2>2 DEF Typed
    <3> QED BY <1>1, <3>1, SameServer DEF ServerTyped
  <2>3. CASE /\ session' = [session EXCEPT ![f.id] = Seen(q, f)] /\ f.id \in Handshakes
             /\ 1 \in Handshakes
    <3>1. up[1] \in Seq(Frames)
      BY <1>1, <2>3 DEF Typed
    <3>2. f \in Frames /\ q \in Session
      BY <1>1, <2>3, <3>1, PopIsSeq DEF Typed
    <3> HIDE DEF f
    <3>3. /\ Seen(q, f) \in Session /\ Seen(q, f).recv = q.recv /\ Seen(q, f).send = q.send
          /\ Seen(q, f).out = q.out
      BY <3>2, SeenIsSession
    <3>4. q.out \in Nat
      BY <3>2 DEF Session
    <3>5. PICK g \in Handshakes : g = f.id
      BY <2>3
    <3>6. PICK r \in Session : r = Seen(q, f)
      BY <3>3
    <3>7. /\ r.recv = session[g].recv /\ r.send = session[g].send /\ r.out >= session[g].out
          /\ session' = [session EXCEPT ![g] = r]
      BY <2>3, <3>3, <3>4, <3>5, <3>6
    <3> QED BY <1>1, <3>7, SessionGoesOn
  <2>4. f.id \in Handshakes => 1 \in Handshakes
    BY LinkAssumption DEF Handshakes
  <2> QED BY <1>1, <2>1, <2>2, <2>3, <2>4
<1> QED BY <1>1, <1>2, <1>3, <1>4, SameClient, SameWire, ServerStepCalm

LEMMA MemoryEndsStep ==
  ASSUME IInv, MemoryStop \/ ConnectCommandEnds \/ ReconnectCommandEnds
  PROVE  IInv'
<1>1. /\ Typed /\ UNCHANGED <<memory, sealed, reused, thread, down>> /\ ~foreign'
      /\ session' = [h \in Handshakes |-> ClosedSession(session[h])]
  <2>1. CASE MemoryStop
    BY <2>1 DEF IInv, MemoryStop, linkHistory
  <2>2. CASE ConnectCommandEnds
    BY <2>2 DEF IInv, ConnectCommandEnds, linkHistory
  <2> QED BY <2>1, <2>2 DEF ReconnectCommandEnds
<1>2. up' \in [Handshakes -> Seq(Frames)]
  <2>1. CASE UNCHANGED up
    BY <1>1, <2>1 DEF Typed
  <2>2. CASE up' = [h \in Handshakes |-> <<>>]
    <3>1. <<>> \in Seq(Frames)
      OBVIOUS
    <3> HIDE DEF Frames
    <3> QED BY <2>2, <3>1
  <2> QED BY <2>1, <2>2 DEF MemoryStop, ConnectCommandEnds, ReconnectCommandEnds
<1>3. client' \in Client /\ ClientCalm
  <2>1. CASE UNCHANGED client
    BY <1>1, <2>1, SameClient
  <2>2. CASE client' = [client EXCEPT !.ses = Unused] /\ client.at = "idle"
    <3>1. Unused \in Session /\ Unused.id = 0
      BY UnusedIsSession
    <3>2. /\ client' \in Client /\ client'.at = "idle" /\ client'.ses = Unused
          /\ client'.begun = client.begun
      BY <1>1, <2>2, <3>1 DEF Typed, Client
    <3> QED BY <3>1, <3>2 DEF ClientCalm, Waiting
  <2> QED BY <2>1, <2>2 DEF MemoryStop, ConnectCommandEnds, ReconnectCommandEnds
<1>4. ServerTyped /\ ServerCalm
  BY <1>1, AllWiped
<1> QED BY <1>1, <1>2, <1>3, <1>4, SameWire, ServerStepCalm

-----------------------------------------------------------------------------
(* The threads' frames.                                                    *)

\* A key that is in use encrypts with a number of its own.
LEMMA SealNew ==
  ASSUME IInv, NEW f, Seal(f), <<f.key, f.n>> \notin sealed
  PROVE  ~reused' /\ sealed' = sealed \cup {<<f.key, f.n>>}
BY DEF IInv, Seal

LEMMA ThreadFrameStep ==
  ASSUME IInv, NEW h \in Handshakes, ThreadFrame(h)
  PROVE  IInv'
<1> DEFINE f == Head(up[h])
           q == session[h]
           e == Encrypted(Counted(q))
<1>1. /\ Typed /\ UNCHANGED <<memory, client>> /\ ~foreign /\ ~reused
      /\ thread[h] = "loop" /\ up[h] # <<>> /\ up' = Pop(up, h)
  BY DEF IInv, ThreadFrame
<1>2. up' \in [Handshakes -> Seq(Frames)]
  BY <1>1, PopUp
<1>3. f \in Frames /\ q \in Session
  <2>1. up[h] \in Seq(Frames)
    BY <1>1 DEF Typed
  <2> QED BY <1>1, <2>1, PopIsSeq DEF Typed
<1>4. client' \in Client /\ ClientCalm
  BY <1>1, SameClient
<1>5. \/ Gone(h) /\ UNCHANGED <<down, linkHistory>>
      \/ /\ Received(q, f) /\ NoteForeign(q, f) /\ UNCHANGED thread
         /\ \/ /\ session' = [session EXCEPT ![h] = Seen(q, f)]
               /\ UNCHANGED <<down, sealed, reused>>
            \/ /\ session' = [session EXCEPT ![h] = Counted(Counted(Seen(q, f)))]
               /\ Seal(e) /\ down' = Push(down, h, e)
  BY DEF ThreadFrame
<1> HIDE DEF f
<1>6. CASE Gone(h) /\ UNCHANGED <<down, linkHistory>>
  <2>1. ~foreign' /\ UNCHANGED <<memory, sealed, reused>>
    BY <1>1, <1>6 DEF linkHistory
  <2> QED BY <1>1, <1>2, <1>4, <1>6, <2>1, GoneEnds, SameWire, ServerStepCalm
<1>7. /\ Seen(q, f) \in Session /\ Seen(q, f).recv = q.recv /\ Seen(q, f).send = q.send
      /\ Seen(q, f).out = q.out
  BY <1>3, SeenIsSession
<1>8. q.out \in Nat /\ q.id \in Nat
  BY <1>3 DEF Session
<1>9. CASE /\ Received(q, f) /\ NoteForeign(q, f) /\ UNCHANGED thread
           /\ session' = [session EXCEPT ![h] = Seen(q, f)]
           /\ UNCHANGED <<down, sealed, reused>>
  <2>1. ~foreign' /\ UNCHANGED <<memory, sealed, reused>>
    BY <1>1, <1>9, NoneForeign
  <2>2. Seen(q, f).out >= q.out
    BY <1>7, <1>8
  <2> HIDE DEF q
  <2>3. q = session[h]
    BY DEF q
  <2>4. ServerTyped /\ ServerCalm
    BY <1>1, <1>7, <1>9, <2>2, <2>3, SessionGoesOn
  <2> QED BY <1>1, <1>2, <1>4, <1>9, <2>1, <2>4, SameWire, ServerStepCalm
<1>10. CASE /\ Received(q, f) /\ NoteForeign(q, f) /\ UNCHANGED thread
            /\ session' = [session EXCEPT ![h] = Counted(Counted(Seen(q, f)))]
            /\ Seal(e) /\ down' = Push(down, h, e)
  <2> DEFINE r == Counted(Counted(Seen(q, f)))
  <2>1. /\ r \in Session /\ r.recv = q.recv /\ r.send = q.send /\ r.out = q.out + 2
    <3> DEFINE p == Counted(Seen(q, f))
    <3>1. p \in Session /\ p.recv = q.recv /\ p.send = q.send /\ p.out = q.out + 1
      BY <1>7, CountedIsSession
    <3> HIDE DEF p
    <3>2. r = Counted(p)
      BY DEF p
    <3> QED BY <1>8, <3>1, <3>2, CountedIsSession
  <2>2. e = Frame("DATA", q.id, q.send, q.out + 2) /\ Counted(q) \in Session
    BY <1>3, <1>8 DEF Encrypted, Counted, Session
  <2>3. e \in Frames /\ e.kind = "DATA" /\ e.key = q.send /\ e.n = q.out + 2
    <3>1. e \in Frames
      BY <2>2, FramesAreFrames
    <3> QED BY <2>2, <3>1 DEF Frame
  <2>4. PICK c \in Nat : KeyedBy(q, c, h)
    BY <1>10 DEF IInv, KeysInv, Wiped, Received, Decrypts
  <2>5. q.send = <<c, h, "server">> /\ ~Wiped(q)
    BY <2>4, <1>10 DEF KeyedBy, Wiped, Received, Decrypts
  <2> HIDE DEF e, r
  <2>6. h \in Nat /\ q.out + 2 \in Nat
    BY <1>8, LinkAssumption DEF Handshakes
  <2>7. ~ServerSealed(c, h, q.out + 2)
    <3> SUFFICES ASSUME ServerSealed(c, h, q.out + 2) PROVE FALSE
      OBVIOUS
    <3>1. Wiped(session[h]) \/ q.out + 2 <= session[h].out
      BY <2>6 DEF IInv, SealedInv
    <3> QED BY <3>1, <1>8, <2>5
  <2>8. ~reused' /\ sealed' = sealed \cup {<<<<c, h, "server">>, q.out + 2>>}
    BY <1>10, <2>3, <2>5, <2>7, SealNew DEF ServerSealed
  <2>9. ~foreign'
    BY <1>1, <1>10, NoneForeign
  <2>10. ServerTyped /\ ServerCalm
    <3>1. r.out >= q.out
      BY <1>8, <2>1
    <3>2. session' = [session EXCEPT ![h] = r]
      BY <1>10 DEF r
    <3> QED BY <1>1, <1>10, <2>1, <3>1, <3>2, SessionGoesOn
  <2>11. down' \in [Handshakes -> Seq(Frames)] /\ WireCalm
    <3>1. /\ down' \in [Handshakes -> Seq(Frames)]
          /\ \A S : \A g \in Handshakes :
               down[g] \in Seq(S) /\ (g = h => e \in S) => down'[g] \in Seq(S)
      BY <1>1, <1>10, <2>3, PushDown
    <3>2. e \in {d \in Frames : d.kind # "ACK"}
      BY <2>3
    <3> QED BY <3>1, <3>2 DEF WireCalm
  <2>12. Typed' /\ Calm
    BY <1>1, <1>2, <1>4, <2>10, <2>11 DEF Typed, Calm, ServerTyped
  <2>13. Places' /\ KeysInv'
    BY <2>12, CalmKeys DEF IInv
  <2>14. SealedInv'
    <3>1. ASSUME NEW a \in Nat, NEW i \in Nat, NEW n \in Nat, ClientSealed(a, i, n)'
          PROVE  /\ a <= client'.begun /\ (Waiting' => a < client'.begun)
                 /\ HasSession' /\ client'.ses.send = <<a, i, "client">> => n <= client'.ses.out
      <4>1. ClientSealed(a, i, n)
        BY <2>8, <3>1 DEF ClientSealed
      <4> QED BY <1>1, <4>1 DEF IInv, SealedInv, Waiting, HasSession
    <3>2. ASSUME NEW a \in Nat, NEW n \in Nat, NEW g \in Handshakes, ServerSealed(a, g, n)'
          PROVE  thread'[g] \in {"loop", "gone"} /\ (Wiped(session'[g]) \/ n <= session'[g].out)
      <4>1. session'[h] = r /\ \A k \in Handshakes \ {h} : session'[k] = session[k]
        BY <1>1, <1>10 DEF Typed, r
      <4>2. CASE ServerSealed(a, g, n)
        <5>1. thread[g] \in {"loop", "gone"} /\ (Wiped(session[g]) \/ n <= session[g].out)
          BY <4>2 DEF IInv, SealedInv
        <5>2. CASE g = h
          BY <1>8, <1>10, <2>1, <2>5, <4>1, <5>1, <5>2
        <5>3. CASE g # h
          BY <1>10, <4>1, <5>1, <5>3
        <5> QED BY <5>2, <5>3
      <4>3. CASE <<<<a, g, "server">>, n>> = <<<<c, h, "server">>, q.out + 2>>
        <5>1. g = h /\ n = q.out + 2
          BY <4>3
        <5> QED BY <1>1, <1>10, <2>1, <2>6, <4>1, <5>1
      <4> QED BY <2>8, <3>2, <4>2, <4>3 DEF ServerSealed
    <3> QED BY <3>1, <3>2 DEF SealedInv
  <2> QED BY <2>8, <2>9, <2>12, <2>13, <2>14 DEF IInv
<1> QED BY <1>5, <1>6, <1>9, <1>10

\* The client encrypts with the number that follows those of its session.
LEMMA ClientSendStep ==
  ASSUME IInv, ClientSend
  PROVE  IInv'
<1> DEFINE q == client.ses
           e == Encrypted(q)
           r == Counted(q)
<1>1. /\ Typed /\ UNCHANGED <<memory, thread, session, down>> /\ ~foreign' /\ ~reused
      /\ client.at = "idle" /\ HasSession /\ Seal(e) /\ client' = [client EXCEPT !.ses = r]
  BY DEF IInv, ClientSend
<1>2. q \in Session /\ q.out \in Nat
  BY <1>1 DEF Typed, Client, Session
<1>3. /\ r \in Session /\ r.id = q.id /\ r.send = q.send /\ r.recv = q.recv
      /\ r.out = q.out + 1
  BY <1>2, CountedIsSession
<1>4. e \in Frames /\ e.key = q.send /\ e.n = q.out + 1
  <2>1. e \in Frames
    BY <1>2, FramesAreFrames
  <2> QED BY <2>1 DEF Encrypted, Frame
<1>5. up' \in [Handshakes -> Seq(Frames)]
  <2>1. /\ Torn \in Frames
        /\ \/ up' = up \/ up' = Push(up, Lane, e)
           \/ up' = Push(up, Lane, Torn)
    BY FramesAreFrames DEF ClientSend, WriteFrame
  <2> HIDE DEF e
  <2> QED BY <1>1, <1>4, <2>1, PushUp
<1> HIDE DEF e, r
<1>6. /\ client' \in Client /\ client'.at = "idle" /\ client'.sock = client.sock
      /\ client'.begun = client.begun /\ client'.ses = r
  BY <1>1, <1>3 DEF Typed, Client
<1>7. ClientCalm
  BY <1>2, <1>3, <1>6 DEF ClientCalm, Waiting
<1>8. Typed' /\ Calm
  BY <1>1, <1>5, <1>6, <1>7, SameServer, SameWire DEF Typed, Calm
<1>9. Places' /\ KeysInv'
  BY <1>8, CalmKeys DEF IInv
<1>10. PICK i \in Handshakes, c \in Nat : q.send = <<c, i, "client">> /\ c <= client.begun
  BY <1>1 DEF IInv, KeysInv
<1>11. i \in Nat /\ q.out + 1 \in Nat
  BY <1>2, LinkAssumption DEF Handshakes
<1>12. ~ClientSealed(c, i, q.out + 1)
  <2> SUFFICES ASSUME ClientSealed(c, i, q.out + 1) PROVE FALSE
    OBVIOUS
  <2>1. q.out + 1 <= q.out
    BY <1>1, <1>10, <1>11 DEF IInv, SealedInv
  <2> QED BY <2>1, <1>2
<1>13. ~reused' /\ sealed' = sealed \cup {<<<<c, i, "client">>, q.out + 1>>}
  BY <1>1, <1>4, <1>10, <1>12, SealNew DEF ClientSealed
<1>14. SealedInv'
  <2>1. ASSUME NEW a \in Nat, NEW j \in Nat, NEW n \in Nat, ClientSealed(a, j, n)'
        PROVE  /\ a <= client'.begun /\ (Waiting' => a < client'.begun)
               /\ HasSession' /\ client'.ses.send = <<a, j, "client">> => n <= client'.ses.out
    <3>1. ~Waiting'
      BY <1>6 DEF Waiting
    <3>2. CASE ClientSealed(a, j, n)
      <4>1. a <= client.begun /\ (q.send = <<a, j, "client">> => n <= q.out)
        BY <1>1, <3>2 DEF IInv, SealedInv
      <4> QED BY <1>2, <1>3, <1>6, <3>1, <4>1
    <3>3. CASE <<<<a, j, "client">>, n>> = <<<<c, i, "client">>, q.out + 1>>
      <4>1. a = c /\ n = q.out + 1
        BY <3>3
      <4> QED BY <1>3, <1>6, <1>10, <1>11, <3>1, <4>1
    <3> QED BY <1>13, <2>1, <3>2, <3>3 DEF ClientSealed
  <2>2. ASSUME NEW a \in Nat, NEW n \in Nat, NEW g \in Handshakes, ServerSealed(a, g, n)'
        PROVE  thread'[g] \in {"loop", "gone"} /\ (Wiped(session'[g]) \/ n <= session'[g].out)
    <3>1. ServerSealed(a, g, n)
      BY <1>13, <2>2 DEF ServerSealed
    <3> QED BY <1>1, <3>1 DEF IInv, SealedInv
  <2> QED BY <2>1, <2>2 DEF SealedInv
<1> QED BY <1>1, <1>8, <1>9, <1>13, <1>14 DEF IInv

-----------------------------------------------------------------------------
(* The handshakes.                                                         *)

LEMMA NewSessionKeys ==
  ASSUME NEW c \in Nat, NEW h \in Nat
  PROVE  /\ LET q == NewSession(h, DerivedKeys(c, h, TRUE)) IN
              /\ q \in Session /\ q.id = h /\ q.out = 0
              /\ q.send = <<c, h, "client">> /\ q.recv = <<c, h, "server">>
         /\ LET q == NewSession(h, DerivedKeys(c, h, FALSE)) IN
              /\ q \in Session /\ q.id = h /\ q.out = 0
              /\ q.send = <<c, h, "server">> /\ q.recv = <<c, h, "client">>
<1>1. <<c, h, "client">> \in Key /\ <<c, h, "server">> \in Key
  BY DEF Key
<1>2. Unused \in Session /\ Unused.out = 0
  BY UnusedIsSession DEF Unused
<1>3. ASSUME NEW k \in Key, NEW l \in Key
      PROVE  LET q == NewSession(h, [send |-> k, recv |-> l]) IN
               q \in Session /\ q.id = h /\ q.out = 0 /\ q.send = k /\ q.recv = l
  BY <1>2 DEF NewSession, Session
<1> HIDE DEF Key
<1> QED BY <1>1, <1>3 DEF DerivedKeys

\* What is settled stays so, and its session as it is.
LEMMA AcksGrow ==
  ASSUME NEW h \in Handshakes, Settled(h) => Settled(h)' /\ session'[h] = session[h]
  PROVE  Acks(h) \subseteq Acks(h)'
BY DEF Acks

LEMMA SettledClient ==
  ASSUME KeysInv, HasSession
  PROVE  \E i \in Handshakes :
           /\ client.ses.id = i /\ Settled(i)
           /\ \E c \in Nat : /\ client.ses.send = <<c, i, "client">>
                             /\ c <= client.begun
                             /\ Waiting => c < client.begun
           /\ Wiped(session[i]) \/ Crosswise(session[i])
BY DEF KeysInv

LEMMA DialStep ==
  ASSUME IInv, Dial
  PROVE  IInv'
<1> DEFINE h == client.begun + 1
<1>1. /\ Typed /\ ~memory /\ client.at = "idle" /\ h \in Handshakes /\ client.begun \in Nat
      /\ client' = [client EXCEPT !.at = "init", !.sock = h, !.begun = h]
      /\ thread' = [thread EXCEPT ![h] = "init"]
      /\ UNCHANGED <<memory, session, up, down, sealed>> /\ ~reused' /\ ~foreign'
  BY LinkAssumption DEF IInv, Dial, linkHistory, Typed, Client, Handshakes
<1>2. thread[h] = "none"
  BY <1>1 DEF IInv, Places
<1> HIDE DEF h
<1>3. h = client.begun + 1
  BY DEF h
<1>4. /\ client' \in Client /\ client'.at = "init" /\ client'.sock = h /\ client'.begun = h
      /\ client'.ses = client.ses
  <2>1. h \in 0 .. MaxHandshakes /\ client \in Client
    BY <1>1, LinkAssumption DEF Handshakes, Typed
  <2>2. client' = [client EXCEPT !.at = "init", !.sock = h, !.begun = h]
    BY <1>1
  <2> QED BY <2>1, <2>2 DEF Client
<1>5. /\ thread' \in [Handshakes -> {"none", "init", "loop", "gone"}] /\ thread'[h] = "init"
      /\ \A g \in Handshakes \ {h} : thread'[g] = thread[g]
  BY <1>1 DEF Typed
<1>6. Typed'
  BY <1>1, <1>4, <1>5 DEF Typed
<1>7. Places'
  BY <1>1, <1>3, <1>4, <1>5 DEF IInv, Places, Waiting, Handshakes
<1>8. \A g \in Handshakes : Settled(g) => Settled(g)'
  BY <1>1, <1>2, <1>5 DEF Settled
<1>9. \A g \in Handshakes : down'[g] \in Seq(Acks(g)')
  <2> TAKE g \in Handshakes
  <2>1. Acks(g) \subseteq Acks(g)'
    BY <1>1, <1>8, AcksGrow
  <2>2. down'[g] \in Seq(Acks(g))
    BY <1>1 DEF IInv, KeysInv
  <2> QED BY <2>1, <2>2, SeqMonotonic
<1>10. KeysInv'
  <2>1. ASSUME HasSession'
        PROVE  \E i \in Handshakes :
                 /\ client'.ses.id = i /\ Settled(i)'
                 /\ \E c \in Nat : /\ client'.ses.send = <<c, i, "client">>
                                   /\ c <= client'.begun
                                   /\ Waiting' => c < client'.begun
                 /\ Wiped(session'[i]) \/ Crosswise(session[i])'
    <3>1. HasSession
      BY <2>1, <1>4 DEF HasSession
    <3>2. PICK i \in Handshakes :
            /\ client.ses.id = i /\ Settled(i)
            /\ \E c \in Nat : client.ses.send = <<c, i, "client">> /\ c <= client.begun
            /\ Wiped(session[i]) \/ Crosswise(session[i])
      BY <3>1, SettledClient DEF IInv
    <3>3. PICK c \in Nat : client.ses.send = <<c, i, "client">> /\ c <= client.begun
      BY <3>2
    <3>4. client'.ses.send = <<c, i, "client">> /\ c <= client'.begun /\ c < client'.begun
      BY <3>3, <1>1, <1>3, <1>4
    <3>5. Wiped(session'[i]) \/ Crosswise(session[i])'
      BY <3>2, <1>1, <1>4 DEF Crosswise
    <3> QED BY <3>2, <3>4, <3>5, <1>4, <1>8
  <2>2. \A g \in Handshakes : Wiped(session'[g]) \/ \E c \in Nat : KeyedBy(session'[g], c, g)
    BY <1>1 DEF IInv, KeysInv
  <2> QED BY <2>1, <2>2, <1>9 DEF KeysInv
<1>11. SealedInv'
  <2>1. ASSUME NEW a \in Nat, NEW j \in Nat, NEW n \in Nat, ClientSealed(a, j, n)'
        PROVE  /\ a <= client'.begun /\ (Waiting' => a < client'.begun)
               /\ HasSession' /\ client'.ses.send = <<a, j, "client">> => n <= client'.ses.out
    <3>1. /\ a <= client.begun
          /\ HasSession /\ client.ses.send = <<a, j, "client">> => n <= client.ses.out
      BY <1>1, <2>1 DEF IInv, SealedInv, ClientSealed
    <3> QED BY <3>1, <1>1, <1>3, <1>4 DEF HasSession
  <2>2. ASSUME NEW a \in Nat, NEW n \in Nat, NEW g \in Handshakes, ServerSealed(a, g, n)'
        PROVE  thread'[g] \in {"loop", "gone"} /\ (Wiped(session'[g]) \/ n <= session'[g].out)
    <3>1. thread[g] \in {"loop", "gone"} /\ (Wiped(session[g]) \/ n <= session[g].out)
      BY <1>1, <2>2 DEF IInv, SealedInv, ServerSealed
    <3> QED BY <3>1, <1>1, <1>2, <1>5
  <2> QED BY <2>1, <2>2 DEF SealedInv
<1> QED BY <1>1, <1>6, <1>7, <1>10, <1>11 DEF IInv

LEMMA ReadAckStep ==
  ASSUME IInv, ReadAck
  PROVE  IInv'
<1>0. PICK h \in Nat : h = client.sock
  BY LinkAssumption DEF IInv, Typed, Client
<1> DEFINE f == Head(down[h])
           q == NewSession(f.id, DerivedKeys(h, f.id, TRUE))
<1>1. /\ Typed /\ client.at = "ack" /\ down[h] # <<>> /\ down' = Pop(down, h)
      /\ UNCHANGED <<memory, thread, session, up, sealed>> /\ ~reused' /\ ~foreign'
      /\ \/ VerifiedAck(f, h) /\ client' = [client EXCEPT !.at = "record", !.ses = q]
         \/ Raise
  BY <1>0 DEF IInv, ReadAck, linkHistory
<1>2. down' \in [Handshakes -> Seq(Frames)] /\ WireCalm
  BY <1>1, PopDown
<1>3. up' \in [Handshakes -> Seq(Frames)]
  BY <1>1 DEF Typed
<1>4. ServerTyped /\ ServerCalm
  BY <1>1, SameServer DEF ServerTyped
<1>5. h = client.begun /\ Waiting
  BY <1>0, <1>1 DEF IInv, Places, Waiting
<1>6. CASE Raise
  <2>1. client' = [client EXCEPT !.at = "idle"]
    BY <1>6 DEF Raise
  <2>2. client' \in Client /\ ClientCalm
    BY <1>1, <2>1, ClientGoesOn
  <2>3. Typed' /\ Calm
    BY <1>1, <1>2, <1>3, <1>4, <2>2 DEF Typed, Calm, ServerTyped
  <2> QED BY <1>1, <2>3, CalmStep
<1>7. CASE VerifiedAck(f, h) /\ client' = [client EXCEPT !.at = "record", !.ses = q]
  <2>1. h \in Handshakes /\ h \in Nat
    BY <1>0, <1>5 DEF IInv, Places
  <2>2. f \in Acks(h)
    <3>1. down[h] \in Seq(Acks(h))
      BY <2>1 DEF IInv, KeysInv
    <3> QED BY <1>1, <3>1, PopIsSeq
  <2>3. /\ f.id = h /\ Settled(h)
        /\ \E c \in Nat : f.key = <<c>> /\ (Wiped(session[h]) \/ KeyedBy(session[h], c, h))
    BY <1>7, <2>2 DEF Acks, VerifiedAck
  <2>4. f.key = <<h>>
    BY <1>7 DEF VerifiedAck
  <2>5. Wiped(session[h]) \/ KeyedBy(session[h], h, h)
    BY <2>3, <2>4
  <2> HIDE DEF f
  <2>6. /\ q \in Session /\ q.id = h /\ q.out = 0
        /\ q.send = <<h, h, "client">> /\ q.recv = <<h, h, "server">>
    BY <2>1, <2>3, NewSessionKeys
  <2> HIDE DEF q
  <2>7. /\ client' \in Client /\ client'.at = "record" /\ client'.ses = q
        /\ client'.begun = client.begun
    BY <1>1, <1>7, <2>6 DEF Typed, Client
  <2>8. Typed'
    BY <1>1, <1>2, <1>3, <1>4, <2>7 DEF Typed, ServerTyped
  <2>9. Places' /\ ~Waiting'
    BY <1>1, <2>7 DEF IInv, Places, Waiting
  <2>10. \A g \in Handshakes : Settled(g)' = Settled(g)
    BY <1>1, <2>7 DEF Settled
  <2>11. \A g \in Handshakes : down'[g] \in Seq(Acks(g)')
    <3> TAKE g \in Handshakes
    <3>1. Acks(g) \subseteq Acks(g)'
      BY <1>1, <2>10, AcksGrow
    <3>2. down[g] \in Seq(Acks(g)) /\ {d \in Frames : d.kind # "ACK"} \subseteq Acks(g)
      BY DEF IInv, KeysInv, Acks
    <3>3. down'[g] \in Seq(Acks(g))
      BY <1>2, <3>2 DEF WireCalm
    <3> QED BY <3>1, <3>3, SeqMonotonic
  <2>12. KeysInv'
    <3>1. \A g \in Handshakes : Wiped(session'[g]) \/ \E c \in Nat : KeyedBy(session'[g], c, g)
      BY <1>1 DEF IInv, KeysInv
    <3>2. client'.ses.id = h /\ Settled(h)'
      BY <2>1, <2>3, <2>6, <2>7, <2>10
    <3>3. client'.ses.send = <<h, h, "client">> /\ h <= client'.begun
      BY <1>5, <2>1, <2>6, <2>7
    <3>4. Wiped(session'[h]) \/ Crosswise(session[h])'
      BY <1>1, <2>5, <2>6, <2>7 DEF KeyedBy, Crosswise
    <3>5. HasSession' =>
            \E i \in Handshakes :
              /\ client'.ses.id = i /\ Settled(i)'
              /\ \E c \in Nat : /\ client'.ses.send = <<c, i, "client">>
                                /\ c <= client'.begun
                                /\ Waiting' => c < client'.begun
              /\ Wiped(session'[i]) \/ Crosswise(session[i])'
      BY <2>1, <2>9, <3>2, <3>3, <3>4
    <3> QED BY <2>11, <3>1, <3>5 DEF KeysInv
  <2>13. SealedInv'
    <3>1. ASSUME NEW a \in Nat, NEW j \in Nat, NEW n \in Nat, ClientSealed(a, j, n)'
          PROVE  /\ a <= client'.begun /\ (Waiting' => a < client'.begun)
                 /\ HasSession' /\ client'.ses.send = <<a, j, "client">> => n <= client'.ses.out
      <4>1. a <= client.begun /\ a < client.begun
        BY <1>1, <1>5, <3>1 DEF IInv, SealedInv, ClientSealed
      <4>2. a # h /\ client'.ses.send = <<h, h, "client">>
        BY <1>5, <2>1, <2>6, <2>7, <4>1
      <4> QED BY <2>7, <2>9, <4>1, <4>2
    <3>2. ASSUME NEW a \in Nat, NEW n \in Nat, NEW g \in Handshakes, ServerSealed(a, g, n)'
          PROVE  thread'[g] \in {"loop", "gone"} /\ (Wiped(session'[g]) \/ n <= session'[g].out)
      BY <1>1, <3>2 DEF IInv, SealedInv, ServerSealed
    <3> QED BY <3>1, <3>2 DEF SealedInv
  <2> QED BY <1>1, <2>8, <2>9, <2>12, <2>13 DEF IInv
<1> QED BY <1>1, <1>6, <1>7

LEMMA ThreadHandshakeStep ==
  ASSUME IInv, NEW h \in Handshakes, ThreadHandshake(h)
  PROVE  IInv'
<1>0. PICK f : f = Head(up[h])
  OBVIOUS
<1> DEFINE ack == SessionAck(f, h)
           q == NewSession(h, DerivedKeys(f.id, h, FALSE))
<1>1. /\ Typed /\ thread[h] = "init" /\ up[h] # <<>> /\ up' = Pop(up, h)
      /\ UNCHANGED <<memory, client, sealed, reused>> /\ ~reused' /\ ~foreign'
      /\ \/ /\ down' = Push(down, h, ack) /\ session' = [session EXCEPT ![h] = q]
            /\ thread' = [thread EXCEPT ![h] = "loop"]
         \/ thread' = [thread EXCEPT ![h] = "gone"] /\ UNCHANGED <<session, down>>
  BY <1>0 DEF IInv, ThreadHandshake, linkHistory
<1>2. up' \in [Handshakes -> Seq(Frames)]
  BY <1>1, PopUp
<1>3. f \in Frames /\ f.id \in Nat /\ h \in Nat
  <2>1. up[h] \in Seq(Frames)
    BY <1>1 DEF Typed
  <2>2. f \in Frames
    BY <1>0, <1>1, <2>1, PopIsSeq
  <2> QED BY <2>2, LinkAssumption DEF Frames, Handshakes
<1>4. CASE thread' = [thread EXCEPT ![h] = "gone"] /\ UNCHANGED <<session, down>>
  <2>1. ServerTyped /\ ServerCalm
    <3>1. /\ thread' \in [Handshakes -> {"none", "init", "loop", "gone"}]
          /\ \A g \in Handshakes : \/ thread'[g] = thread[g]
                                   \/ thread[g] \in {"init", "loop"} /\ thread'[g] = "gone"
      BY <1>1, <1>4 DEF Typed
    <3>2. \A g \in Handshakes : session[g].out \in Nat
      BY <1>1 DEF Typed, Session
    <3> QED BY <1>1, <1>4, <3>1, <3>2 DEF ServerTyped, ServerCalm, Typed
  <2> QED BY <1>1, <1>2, <1>4, <2>1, SameClient, SameWire, ServerStepCalm
<1>5. CASE /\ down' = Push(down, h, ack) /\ session' = [session EXCEPT ![h] = q]
           /\ thread' = [thread EXCEPT ![h] = "loop"]
  <2>1. /\ q \in Session /\ q.recv = <<f.id, h, "client">> /\ q.send = <<f.id, h, "server">>
    BY <1>3, NewSessionKeys
  <2>2. ack \in Frames /\ ack = Frame("ACK", h, <<f.id>>, 0)
    BY <1>3, FramesAreFrames DEF SessionAck
  <2> HIDE DEF q, ack
  <2>3. /\ session' \in [Handshakes -> Session] /\ session'[h] = q
        /\ \A g \in Handshakes \ {h} : session'[g] = session[g]
        /\ thread' \in [Handshakes -> {"none", "init", "loop", "gone"}] /\ thread'[h] = "loop"
        /\ \A g \in Handshakes \ {h} : thread'[g] = thread[g]
    BY <1>1, <1>5, <2>1 DEF Typed
  <2>4. /\ down' \in [Handshakes -> Seq(Frames)]
        /\ \A S : \A g \in Handshakes :
             down[g] \in Seq(S) /\ (g = h => ack \in S) => down'[g] \in Seq(S)
    BY <1>1, <1>5, <2>2, PushDown
  <2>5. Typed'
    BY <1>1, <1>2, <2>3, <2>4 DEF Typed
  <2>6. ~memory /\ h <= client.begun
    <3>1. \A g \in Handshakes : memory \/ g > client.begun => thread[g] = "none"
      BY DEF IInv, Places
    <3>2. client.begun \in Nat /\ h \in Nat
      <4>1. client \in Client
        BY <1>1 DEF Typed
      <4>2. client.begun \in 0 .. MaxHandshakes
        BY <4>1, Zenon DEF Client
      <4> QED BY <1>3, <4>2, LinkAssumption
    <3> QED BY <1>1, <1>3, <3>1, <3>2
  <2>7. Places'
    BY <1>1, <2>3, <2>6 DEF IInv, Places, Waiting
  <2>8. /\ ~Settled(h) /\ Settled(h)'
        /\ \A g \in Handshakes \ {h} : Settled(g)' = Settled(g)
    BY <1>1, <2>3, <2>6 DEF Settled
  <2>9. KeyedBy(session'[h], f.id, h)
    BY <2>1, <2>3 DEF KeyedBy
  <2>10. \A g \in Handshakes : down'[g] \in Seq(Acks(g)')
    <3> TAKE g \in Handshakes
    <3>1. Acks(g) \subseteq Acks(g)'
      BY <2>3, <2>8, AcksGrow
    <3>2. down[g] \in Seq(Acks(g)')
      <4>1. down[g] \in Seq(Acks(g))
        BY DEF IInv, KeysInv
      <4> QED BY <3>1, <4>1, SeqMonotonic
    <3>3. ack \in Acks(h)'
      <4>1. ack.id = h /\ ack.key = <<f.id>>
        BY <2>2 DEF Frame
      <4> QED BY <1>3, <2>2, <2>8, <2>9, <4>1 DEF Acks
    <3> QED BY <2>4, <3>2, <3>3
  <2>11. KeysInv'
    <3>1. \A g \in Handshakes : Wiped(session'[g]) \/ \E c \in Nat : KeyedBy(session'[g], c, g)
      BY <1>3, <2>3, <2>9 DEF IInv, KeysInv
    <3>2. ASSUME HasSession'
          PROVE  \E i \in Handshakes :
                   /\ client'.ses.id = i /\ Settled(i)'
                   /\ \E c \in Nat : /\ client'.ses.send = <<c, i, "client">>
                                     /\ c <= client'.begun
                                     /\ Waiting' => c < client'.begun
                   /\ Wiped(session'[i]) \/ Crosswise(session[i])'
      <4>1. HasSession /\ Waiting' = Waiting
        BY <1>1, <3>2 DEF HasSession, Waiting
      <4>2. PICK i \in Handshakes :
              /\ client.ses.id = i /\ Settled(i)
              /\ \E c \in Nat : /\ client.ses.send = <<c, i, "client">>
                                /\ c <= client.begun
                                /\ Waiting => c < client.begun
              /\ Wiped(session[i]) \/ Crosswise(session[i])
        BY <4>1, SettledClient DEF IInv
      <4>3. i # h
        BY <2>8, <4>2
      <4>4. Wiped(session'[i]) \/ Crosswise(session[i])'
        BY <1>1, <2>3, <4>2, <4>3 DEF Crosswise
      <4> QED BY <1>1, <2>8, <4>1, <4>2, <4>3, <4>4
    <3> QED BY <2>10, <3>1, <3>2 DEF KeysInv
  <2>12. SealedInv'
    <3>1. \A a, j, n \in Nat :
            ClientSealed(a, j, n)' =>
              /\ a <= client'.begun /\ (Waiting' => a < client'.begun)
              /\ HasSession' /\ client'.ses.send = <<a, j, "client">> => n <= client'.ses.out
      BY <1>1 DEF IInv, SealedInv, ClientSealed, Waiting, HasSession
    <3>2. ASSUME NEW a \in Nat, NEW n \in Nat, NEW g \in Handshakes, ServerSealed(a, g, n)'
          PROVE  thread'[g] \in {"loop", "gone"} /\ (Wiped(session'[g]) \/ n <= session'[g].out)
      <4>1. thread[g] \in {"loop", "gone"} /\ (Wiped(session[g]) \/ n <= session[g].out)
        BY <1>1, <3>2 DEF IInv, SealedInv, ServerSealed
      <4>2. g # h
        BY <1>1, <4>1
      <4> QED BY <2>3, <4>1, <4>2
    <3> QED BY <3>1, <3>2 DEF SealedInv
  <2> QED BY <1>1, <2>5, <2>7, <2>11, <2>12 DEF IInv
<1> QED BY <1>1, <1>4, <1>5

\* Within one process both ends derive their keys at once, unless the client's fails.
LEMMA MemoryConnectStep ==
  ASSUME IInv, MemoryConnect
  PROVE  IInv'
<1>0. PICK h \in Nat : h = client.begun + 1
  BY LinkAssumption DEF IInv, Typed, Client
<1> DEFINE q == NewSession(h, DerivedKeys(h, h, FALSE))
           r == NewSession(h, DerivedKeys(h, h, TRUE))
<1>1. SessionInit(h).id = h /\ SessionAck(SessionInit(h), h).id = h
  BY DEF SessionInit, SessionAck, Frame
<1>2. /\ Typed /\ memory /\ client.at = "idle" /\ h \in Handshakes
      /\ UNCHANGED <<memory, thread, up, down, sealed>> /\ ~reused' /\ ~foreign'
      /\ session' = [session EXCEPT ![h] = q]
      /\ \/ client' = [client EXCEPT !.at = "record", !.begun = h, !.ses = r]
         \/ client' = [client EXCEPT !.begun = h]
  <2>1. /\ Typed /\ memory /\ client.at = "idle" /\ client.begun < MaxHandshakes
        /\ UNCHANGED <<memory, thread, up, down, sealed>> /\ ~reused' /\ ~foreign'
    BY DEF IInv, MemoryConnect, linkHistory
  <2>2. h \in Handshakes
    BY <1>0, <2>1, LinkAssumption DEF Typed, Client, Handshakes
  <2>3. /\ HandshakeAnswered(h, SessionInit(h))
        /\ \/ client' = [client EXCEPT !.at = "record", !.begun = h,
                         !.ses = NewSession(SessionAck(SessionInit(h), h).id,
                                   DerivedKeys(h, SessionAck(SessionInit(h), h).id, TRUE))]
           \/ client' = [client EXCEPT !.begun = h]
    BY <1>0, Zenon DEF MemoryConnect
  <2>4. session' = [session EXCEPT ![h] = q]
    BY <1>1, <2>3 DEF HandshakeAnswered
  <2>5. \/ client' = [client EXCEPT !.at = "record", !.begun = h, !.ses = r]
        \/ client' = [client EXCEPT !.begun = h]
    <3> HIDE DEF NewSession, DerivedKeys
    <3> QED BY <1>1, <2>3
  <2> QED BY <2>1, <2>2, <2>4, <2>5
<1>3. /\ q \in Session /\ q.recv = <<h, h, "client">> /\ q.send = <<h, h, "server">>
      /\ r \in Session /\ r.id = h /\ r.out = 0
      /\ r.send = <<h, h, "client">> /\ r.recv = <<h, h, "server">>
  BY NewSessionKeys
<1> HIDE DEF q, r
<1>4. /\ client' \in Client /\ client'.at \in {"idle", "record"} /\ client'.begun = h
      /\ \/ client'.ses = r
         \/ client'.ses = client.ses
  <2>1. h \in 0 .. MaxHandshakes /\ client \in Client
    BY <1>2, LinkAssumption DEF Typed, Handshakes
  <2>2. CASE client' = [client EXCEPT !.at = "record", !.begun = h, !.ses = r]
    BY <1>3, <2>1, <2>2 DEF Client
  <2>3. CASE client' = [client EXCEPT !.begun = h]
    BY <1>2, <2>1, <2>3 DEF Client
  <2> QED BY <1>2, <2>2, <2>3
<1>5. /\ session' \in [Handshakes -> Session] /\ session'[h] = q
      /\ \A g \in Handshakes \ {h} : session'[g] = session[g]
  BY <1>2, <1>3 DEF Typed
<1>6. Typed'
  BY <1>2, <1>4, <1>5 DEF Typed
<1>7. Places' /\ ~Waiting'
  BY <1>2, <1>4 DEF IInv, Places, Waiting
<1>8. /\ ~Settled(h) /\ Settled(h)'
      /\ \A g \in Handshakes : Settled(g) => Settled(g)' /\ g # h
  <2>1. \A g \in Handshakes : g \in Nat
    BY LinkAssumption DEF Handshakes
  <2>2. client.begun \in Nat
    BY <1>2, LinkAssumption DEF Typed, Client
  <2> QED BY <1>0, <1>2, <1>4, <2>1, <2>2 DEF Settled
<1>9. \A g \in Handshakes : down'[g] \in Seq(Acks(g)')
  <2> TAKE g \in Handshakes
  <2>1. Acks(g) \subseteq Acks(g)'
    BY <1>5, <1>8, AcksGrow
  <2>2. down'[g] \in Seq(Acks(g))
    BY <1>2 DEF IInv, KeysInv
  <2> QED BY <2>1, <2>2, SeqMonotonic
<1>10. KeysInv'
  <2>1. KeyedBy(session'[h], h, h)
    BY <1>3, <1>5 DEF KeyedBy
  <2>2. \A g \in Handshakes : Wiped(session'[g]) \/ \E c \in Nat : KeyedBy(session'[g], c, g)
    BY <1>5, <2>1 DEF IInv, KeysInv
  <2>3. ASSUME HasSession'
        PROVE  \E i \in Handshakes :
                 /\ client'.ses.id = i /\ Settled(i)'
                 /\ \E c \in Nat : /\ client'.ses.send = <<c, i, "client">>
                                   /\ c <= client'.begun
                                   /\ Waiting' => c < client'.begun
                 /\ Wiped(session'[i]) \/ Crosswise(session[i])'
    <3>1. CASE client'.ses = r
      <4>1. Crosswise(session[h])'
        BY <1>3, <1>5, <3>1 DEF Crosswise
      <4>2. client'.ses.id = h /\ client'.ses.send = <<h, h, "client">> /\ h <= client'.begun
        BY <1>3, <1>4, <3>1
      <4> QED BY <1>2, <1>7, <1>8, <4>1, <4>2
    <3>2. CASE client'.ses = client.ses
      <4>1. HasSession
        BY <2>3, <3>2 DEF HasSession
      <4>2. PICK i \in Handshakes :
              /\ client.ses.id = i /\ Settled(i)
              /\ \E c \in Nat : /\ client.ses.send = <<c, i, "client">>
                                /\ c <= client.begun
                                /\ Waiting => c < client.begun
              /\ Wiped(session[i]) \/ Crosswise(session[i])
        BY <4>1, SettledClient DEF IInv
      <4>3. i # h /\ Settled(i)'
        BY <1>8, <4>2
      <4>4. Wiped(session'[i]) \/ Crosswise(session[i])'
        BY <1>5, <3>2, <4>2, <4>3 DEF Crosswise
      <4>5. PICK c \in Nat : client.ses.send = <<c, i, "client">> /\ c <= client.begun
        BY <4>2
      <4>6. client'.ses.send = <<c, i, "client">> /\ c <= client'.begun
        <5>1. client.begun \in Nat
          BY <1>2, LinkAssumption DEF Typed, Client
        <5> QED BY <1>0, <1>4, <3>2, <4>5, <5>1
      <4> QED BY <1>7, <3>2, <4>2, <4>3, <4>4, <4>6
    <3> QED BY <1>4, <3>1, <3>2
  <2> QED BY <1>9, <2>2, <2>3 DEF KeysInv
<1>11. SealedInv'
  <2>1. ASSUME NEW a \in Nat, NEW j \in Nat, NEW n \in Nat, ClientSealed(a, j, n)'
        PROVE  /\ a <= client'.begun /\ (Waiting' => a < client'.begun)
               /\ HasSession' /\ client'.ses.send = <<a, j, "client">> => n <= client'.ses.out
    <3>1. /\ a <= client.begun
          /\ HasSession /\ client.ses.send = <<a, j, "client">> => n <= client.ses.out
      BY <1>2, <2>1 DEF IInv, SealedInv, ClientSealed
    <3>2. client.begun \in Nat
      BY <1>2, LinkAssumption DEF Typed, Client
    <3>3. a < h
      BY <1>0, <3>1, <3>2
    <3>4. CASE client'.ses = r
      <4>1. client'.ses.send # <<a, j, "client">>
        BY <1>3, <3>3, <3>4
      <4> QED BY <1>4, <1>7, <3>3, <4>1
    <3>5. CASE client'.ses = client.ses
      BY <1>4, <1>7, <3>1, <3>3, <3>5 DEF HasSession
    <3> QED BY <1>4, <3>4, <3>5
  <2>2. ASSUME NEW a \in Nat, NEW n \in Nat, NEW g \in Handshakes, ServerSealed(a, g, n)'
        PROVE  FALSE
    <3>1. thread[g] \in {"loop", "gone"}
      BY <1>2, <2>2 DEF IInv, SealedInv, ServerSealed
    <3>2. thread[g] = "none"
      BY <1>2 DEF IInv, Places
    <3> QED BY <3>1, <3>2
  <2> QED BY <2>1, <2>2 DEF SealedInv
<1> QED BY <1>2, <1>6, <1>7, <1>10, <1>11 DEF IInv

-----------------------------------------------------------------------------
LEMMA LinkInitially == LinkInit => IInv
<1> SUFFICES ASSUME LinkInit PROVE IInv
  OBVIOUS
<1>1. Unused \in Session /\ Unused.id = 0 /\ Unused.recv = NoKey
  BY UnusedIsSession DEF Unused
<1>2. Typed
  <2>1. client \in Client
    BY <1>1, LinkAssumption DEF LinkInit, Client
  <2>2. <<>> \in Seq(Frames)
    OBVIOUS
  <2> HIDE DEF Frames
  <2> QED BY <1>1, <2>1, <2>2 DEF LinkInit, Typed
<1>3. Places /\ ~HasSession
  BY <1>1 DEF LinkInit, Places, Waiting, HasSession
<1>4. KeysInv
  <2>1. \A S : <<>> \in Seq(S)
    OBVIOUS
  <2> QED BY <1>1, <1>3, <2>1 DEF LinkInit, KeysInv, Wiped
<1>5. SealedInv
  BY DEF LinkInit, SealedInv, ClientSealed, ServerSealed
<1> QED BY <1>2, <1>3, <1>4, <1>5 DEF IInv, LinkInit

LEMMA LinkInductive == IInv /\ [LinkNext]_linkVars => IInv'
<1> SUFFICES ASSUME IInv, [LinkNext]_linkVars PROVE IInv'
  OBVIOUS
<1>1. CASE UNCHANGED linkVars
  <2>1. /\ UNCHANGED <<memory, client, thread, session, up, down, sealed>>
        /\ ~reused' /\ ~foreign' /\ Typed
    BY <1>1 DEF linkVars, link, linkHistory, IInv
  <2>2. Typed'
    BY <2>1 DEF Typed
  <2>3. Calm
    BY <2>1, SameClient, SameServer, SameWire DEF Calm
  <2> QED BY <2>1, <2>2, <2>3, CalmStep
<1>2. CASE LinkNext
  BY <1>2, ClientStepCalm, DialStep, ReadAckStep, ClientSendStep, ThreadHandshakeStep,
     ThreadFrameStep, ThreadEndsStep, MemoryConnectStep, MemoryFrameStep, MemoryEndsStep
     DEF LinkNext
<1> QED BY <1>1, <1>2

\* The inductive invariant: whose keys the two ends hold, and how far each has counted.
THEOREM LinkInvariant == LinkSpec => []IInv
BY LinkInitially, LinkInductive, PTL DEF LinkSpec

\* construct_nonce makes the nonce of the counter alone: as every handshake derives
\* keys of its own and each direction has one, no pair of key and nonce comes twice.
THEOREM NonceTheorem == LinkSpec => []NonceUsedOnce
<1>1. IInv => NonceUsedOnce
  BY DEF IInv, NonceUsedOnce
<1> QED BY <1>1, LinkInvariant, PTL

\* A frame is accepted in its own session only, and verify_session_ack leaves no client
\* with keys that do not match those its session has at the server.
THEOREM FramesTheorem == LinkSpec => []FramesFindTheirSession
<1>1. IInv => FramesFindTheirSession
  <2> SUFFICES ASSUME IInv, HasSession, session[client.ses.id].recv # NoKey
               PROVE  Crosswise(session[client.ses.id])
    BY DEF FramesFindTheirSession, IInv, Crosswise
  <2> QED BY SettledClient DEF IInv, Wiped
<1> QED BY <1>1, LinkInvariant, PTL
=============================================================================
