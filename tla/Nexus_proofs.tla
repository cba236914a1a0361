---------------------------- MODULE Nexus_proofs ----------------------------
(***************************************************************************)
(* Proofs about Nexus, for any number of connections and frames, any       *)
(* window and any cache of message ids.                                    *)
(*                                                                         *)
(* LateInv: a thread that holds a message past the trust check has not yet *)
(*   used up the one message the revocation lets it have.                  *)
(* GhostInv: a thread about to write the peer's row for the last time has  *)
(*   already written the session's.                                        *)
(* Replay: what a session's guard remembers, seen numbers and cached ids,  *)
(*   is exactly what is left of the frames it has read, and those are the  *)
(*   accepted ones and the one in hand.                                    *)
(* Ahead: the places between a thread of a stopped server and its end.     *)
(***************************************************************************)
EXTENDS Nexus, SequenceTheorems, Integers, TLAPS

Thread ==
  [at : Place, mem : ConnectionState, inb : 0 .. MaxFrames, seen : SUBSET Number,
   ids : Seq(Number), cur : 0 .. MaxFrames]

Typed ==
  /\ running \in BOOLEAN
  /\ ses \in [Sessions -> Thread]
  /\ \A s \in Sessions : Len(ses[s].ids) <= IdCache
  /\ sessRow \in [Sessions -> ConnectionState]
  /\ peer \in ConnectionState
  /\ trusted \in BOOLEAN
  /\ sent \in [Sessions -> Seq(Number)]
  /\ accepted \in [Sessions -> Seq(Number)]
  /\ cli \in Sessions \cup {"idle", "peer"}
  /\ late \in [Sessions -> Nat]
  /\ \A s \in Sessions : Len(sent[s]) <= MaxFrames
  /\ \A s \in Sessions : ses[s].at \in {"check", "accept"} => ses[s].cur \in DOMAIN sent[s]

LateInv ==
  \A s \in Sessions : /\ late[s] <= 1
                      /\ ~trusted /\ At(s, "accept") => late[s] = 0

GhostInv ==
  /\ NoGhostConnection
  /\ \A s \in Sessions : At(s, "endPeer") => sessRow[s] # "CONNECTED"

-----------------------------------------------------------------------------
\* The thread s is at one of places, its guard as it was; the others stand still.
Moved(s, places) ==
  /\ ses' \in [Sessions -> Thread]
  /\ ses'[s].at \in places
  /\ ses'[s].mem \in {ses[s].mem, "CONNECTED", "DISCONNECTED"}
  /\ ses'[s].inb = ses[s].inb /\ ses'[s].seen = ses[s].seen
  /\ ses'[s].ids = ses[s].ids /\ ses'[s].cur = ses[s].cur
  /\ \A t \in Sessions \ {s} : ses'[t] = ses[t]

LEMMA ThreadSet ==
  ASSUME Typed, NEW s \in Sessions, NEW q \in Thread, ses' = [ses EXCEPT ![s] = q]
  PROVE  /\ ses' \in [Sessions -> Thread] /\ ses'[s] = q
         /\ \A t \in Sessions \ {s} : ses'[t] = ses[t]
  BY DEF Typed

LEMMA GotoMoves ==
  ASSUME Typed, NEW s \in Sessions, NEW place \in Place, Goto(s, place)
  PROVE  Moved(s, {place})
  <1> DEFINE q == [ses[s] EXCEPT !.at = place]
  <1>1. /\ q \in Thread /\ q.at = place /\ q.mem = ses[s].mem /\ q.inb = ses[s].inb
        /\ q.seen = ses[s].seen /\ q.ids = ses[s].ids /\ q.cur = ses[s].cur
    BY DEF Typed, Thread
  <1>2. ses' = [ses EXCEPT ![s] = q]
    BY DEF Goto
  <1> HIDE DEF q
  <1> QED BY <1>1, <1>2, ThreadSet DEF Moved

LEMMA CloseMoves ==
  ASSUME Typed, NEW s \in Sessions, NEW place \in Place, Close(s, place)
  PROVE  Moved(s, {place})
  <1> DEFINE q == [ses[s] EXCEPT !.at = place, !.mem = "DISCONNECTED"]
  <1>1. "DISCONNECTED" \in ConnectionState
    BY DEF ConnectionState
  <1>2. /\ q \in Thread /\ q.at = place /\ q.mem = "DISCONNECTED" /\ q.inb = ses[s].inb
        /\ q.seen = ses[s].seen /\ q.ids = ses[s].ids /\ q.cur = ses[s].cur
    BY <1>1 DEF Typed, Thread
  <1>3. ses' = [ses EXCEPT ![s] = q]
    BY DEF Close
  <1> HIDE DEF q
  <1> QED BY <1>2, <1>3, ThreadSet DEF Moved

LEMMA LeftIsThread ==
  ASSUME NEW place \in Place
  PROVE  Left(place) \in Thread /\ Left(place).at = place /\ Left(place).ids = <<>>
  <1>1. /\ NoSession.at = "none" /\ NoSession.mem \in ConnectionState
        /\ NoSession.inb = 0 /\ NoSession.seen = {} /\ NoSession.ids = <<>>
        /\ NoSession.cur = 0
    BY DEF NoSession, ConnectionState
  <1>2. 0 \in 0 .. MaxFrames /\ <<>> \in Seq(Number) /\ {} \in SUBSET Number
    BY NexusAssumption
  <1>3. "none" \in ConnectionState
    BY DEF ConnectionState
  <1> QED BY <1>1, <1>2, <1>3, NexusAssumption DEF Left, NoSession, Thread

\* The actions of a thread that neither read a frame nor leave the server.
Moving(s) ==
  \/ Connect(s) \/ Create(s) \/ RecordSession(s) \/ RecordPeer(s) \/ Loop(s)
  \/ ReadFails(s) \/ ReadEnds(s) \/ CheckTrust(s) \/ RevokeSession(s) \/ RevokePeer(s)
  \/ Refuse(s) \/ Accept(s) \/ Heartbeat(s) \/ GoodbyeSession(s) \/ GoodbyePeer(s)
  \/ EndSession(s)

\* Where each of them leads.
Follows(s) ==
  \/ At(s, "none") /\ Moved(s, {"create"})
  \/ At(s, "create") /\ Moved(s, {"gone", "record"})
  \/ At(s, "record") /\ Moved(s, {"peer"})
  \/ At(s, "peer") /\ Moved(s, {"loop"})
  \/ At(s, "loop") /\ Moved(s, {"read", "end"})
  \/ At(s, "read") /\ Moved(s, {"end"})
  \/ At(s, "check") /\ Moved(s, IF trusted THEN {"accept"} ELSE {"revoke"})
  \/ At(s, "revoke") /\ Moved(s, {"revokePeer"})
  \/ At(s, "revokePeer") /\ Moved(s, {"end"})
  \/ At(s, "accept") /\ Moved(s, {"end", "beat"})
  \/ At(s, "beat") /\ Moved(s, {"loop", "end", "bye"})
  \/ At(s, "bye") /\ Moved(s, {"byePeer"})
  \/ At(s, "byePeer") /\ Moved(s, {"loop"})
  \/ At(s, "end") /\ Moved(s, {"endPeer"})

LEMMA MovingFollows ==
  ASSUME Typed, NEW s \in Sessions, Moving(s)
  PROVE  Follows(s)
  <1>1. CASE Create(s)
    <2>1. CASE Goto(s, "gone")
      <3>1. Moved(s, {"gone"})
        BY <2>1, GotoMoves DEF Place
      <3>2. Moved(s, {"gone", "record"})
        BY <3>1 DEF Moved
      <3> QED BY <1>1, <3>2 DEF Create, Follows
    <2>2. CASE ses' = [ses EXCEPT ![s].at = "record", ![s].mem = "CONNECTED"]
      <3> DEFINE q == [ses[s] EXCEPT !.at = "record", !.mem = "CONNECTED"]
      <3>1. "CONNECTED" \in ConnectionState /\ "record" \in Place
        BY DEF ConnectionState, Place
      <3>2. /\ q \in Thread /\ q.at = "record" /\ q.mem = "CONNECTED" /\ q.inb = ses[s].inb
            /\ q.seen = ses[s].seen /\ q.ids = ses[s].ids /\ q.cur = ses[s].cur
        BY <3>1 DEF Typed, Thread
      <3>3. ses' = [ses EXCEPT ![s] = q]
        BY <2>2
      <3> HIDE DEF q
      <3>4. Moved(s, {"gone", "record"})
        BY <3>2, <3>3, ThreadSet DEF Moved
      <3> QED BY <1>1, <3>4 DEF Create, Follows
    <2> QED BY <1>1, <2>1, <2>2 DEF Create
  <1>2. CASE Connect(s)
    BY <1>2, GotoMoves DEF Connect, Follows, Place
  <1>3. CASE RecordSession(s)
    BY <1>3, GotoMoves DEF RecordSession, Follows, Place
  <1>4. CASE RecordPeer(s)
    BY <1>4, GotoMoves DEF RecordPeer, Follows, Place
  <1>5. CASE Loop(s)
    <2>1. Moved(s, {"read"}) \/ Moved(s, {"end"})
      BY <1>5, GotoMoves DEF Loop, Place
    <2>2. Moved(s, {"read", "end"})
      BY <2>1 DEF Moved
    <2> QED BY <1>5, <2>2 DEF Loop, Follows
  <1>6. CASE ReadFails(s) \/ ReadEnds(s)
    <2>1. Moved(s, {"end"})
      BY <1>6, GotoMoves, CloseMoves DEF ReadFails, TimedOut, Fail, ReadEnds, Place
    <2> QED BY <1>6, <2>1 DEF ReadFails, ReadEnds, Follows
  <1>7. CASE CheckTrust(s)
    <2>1. CASE trusted
      BY <1>7, <2>1, GotoMoves DEF CheckTrust, Admits, Follows, Place
    <2>2. CASE ~trusted
      BY <1>7, <2>2, CloseMoves DEF CheckTrust, Admits, Follows, Place
    <2> QED BY <2>1, <2>2
  <1>8. CASE RevokeSession(s)
    BY <1>8, GotoMoves DEF RevokeSession, Follows, Place
  <1>9. CASE RevokePeer(s)
    BY <1>9, CloseMoves DEF RevokePeer, Fail, Follows, Place
  <1>10. CASE Refuse(s) \/ Accept(s)
    <2>1. Moved(s, {"end"}) \/ Moved(s, {"beat"})
      BY <1>10, GotoMoves, CloseMoves DEF Refuse, Accept, Fail, Place
    <2>2. Moved(s, {"end", "beat"})
      BY <2>1 DEF Moved
    <2> QED BY <1>10, <2>2 DEF Refuse, Accept, Follows
  <1>11. CASE Heartbeat(s)
    <2>1. Moved(s, {"loop"}) \/ Moved(s, {"end"}) \/ Moved(s, {"bye"})
      BY <1>11, GotoMoves, CloseMoves DEF Heartbeat, Fail, Place
    <2>2. Moved(s, {"loop", "end", "bye"})
      BY <2>1 DEF Moved
    <2> QED BY <1>11, <2>2 DEF Heartbeat, Follows
  <1>12. CASE GoodbyeSession(s)
    BY <1>12, GotoMoves DEF GoodbyeSession, Follows, Place
  <1>13. CASE GoodbyePeer(s)
    BY <1>13, GotoMoves DEF GoodbyePeer, Follows, Place
  <1>14. CASE EndSession(s)
    BY <1>14, GotoMoves DEF EndSession, Follows, Place
  <1> QED BY <1>1, <1>2, <1>3, <1>4, <1>5, <1>6, <1>7, <1>8, <1>9, <1>10, <1>11,
             <1>12, <1>13, <1>14 DEF Moving

-----------------------------------------------------------------------------
(* Reading a frame.                                                        *)

\* What a session's guard is after it took frame n.
Taken(s, n) == [Advanced(ses[s], n, sent[s][n]) EXCEPT !.at = "check"]

Takes(s, n) ==
  /\ At(s, "read") /\ n \in DOMAIN sent[s]
  /\ Fresh(ses[s], n) /\ NewId(ses[s], sent[s][n])
  /\ ses' = [ses EXCEPT ![s] = Taken(s, n)]

LEMMA ReadFrameTakes ==
  ASSUME Typed, NEW s \in Sessions, NEW n \in Number, ReadFrame(s, n)
  PROVE  Takes(s, n) \/ (At(s, "read") /\ Moved(s, {"end"}))
  <1>1. "end" \in Place
    BY DEF Place
  <1>2. CASE Goto(s, "end") \/ Fail(s)
    BY <1>1, <1>2, GotoMoves, CloseMoves DEF Fail, ReadFrame
  <1>3. CASE Fresh(ses[s], n) /\ NewId(ses[s], sent[s][n])
             /\ ses' = [ses EXCEPT ![s] = [Advanced(@, n, sent[s][n]) EXCEPT !.at = "check"]]
    BY <1>3 DEF ReadFrame, Takes, Taken
  <1> QED BY <1>2, <1>3 DEF ReadFrame

LEMMA RememberFits ==
  ASSUME NEW ids \in Seq(Number), Len(ids) <= IdCache, NEW id \in Number
  PROVE  /\ Remember(ids, id) \in Seq(Number)
         /\ Len(Remember(ids, id)) = IF Len(ids) = IdCache THEN IdCache ELSE Len(ids) + 1
         /\ Remember(ids, id)[Len(Remember(ids, id))] = id
         /\ \A k \in 1 .. Len(Remember(ids, id)) - 1 :
              Remember(ids, id)[k] = IF Len(ids) = IdCache THEN ids[k + 1] ELSE ids[k]
  <1>1. CASE Len(ids) = IdCache
    <2>1. Len(ids) > 0
      BY <1>1, NexusAssumption
    <2>2. Tail(ids) \in Seq(Number) /\ Len(Tail(ids)) = Len(ids) - 1
          /\ \A k \in 1 .. Len(ids) - 1 : Tail(ids)[k] = ids[k + 1]
      BY <2>1
    <2> QED BY <1>1, <2>1, <2>2, NexusAssumption DEF Remember
  <1>2. CASE Len(ids) # IdCache
    BY <1>2, NexusAssumption DEF Remember
  <1> QED BY <1>1, <1>2

\* What the type invariant says of one session.
LEMMA SessionTyped ==
  ASSUME Typed, NEW s \in Sessions
  PROVE  /\ ses[s].ids \in Seq(Number) /\ Len(ses[s].ids) <= IdCache
         /\ ses[s].inb \in Nat /\ ses[s].inb <= MaxFrames /\ ses[s].cur \in Nat
         /\ sent[s] \in Seq(Number) /\ Len(sent[s]) <= MaxFrames
         /\ accepted[s] \in Seq(Number) /\ accepted[s] \in Seq(Nat)
  <1>1. ses[s] \in Thread /\ Len(ses[s].ids) <= IdCache
    BY DEF Typed
  <1>2. ses[s].ids \in Seq(Number) /\ ses[s].inb \in 0 .. MaxFrames /\ ses[s].cur \in 0 .. MaxFrames
    BY <1>1, Zenon DEF Thread
  <1>3. sent[s] \in Seq(Number) /\ Len(sent[s]) <= MaxFrames /\ accepted[s] \in Seq(Number)
    BY DEF Typed
  <1>4. Number \subseteq Nat
    BY NexusAssumption DEF Number
  <1>5. accepted[s] \in Seq(Nat)
    BY <1>3, <1>4, SeqMonotonic, Zenon
  <1> QED BY <1>1, <1>2, <1>3, <1>5, NexusAssumption

LEMMA TakenTyped ==
  ASSUME Typed, NEW s \in Sessions, NEW n \in DOMAIN sent[s]
  PROVE  /\ Taken(s, n) \in Thread
         /\ n \in Number /\ sent[s][n] \in Number
         /\ Taken(s, n).at = "check" /\ Taken(s, n).cur = n
         /\ Taken(s, n).ids = Remember(ses[s].ids, sent[s][n])
         /\ Len(Taken(s, n).ids) <= IdCache
         /\ Taken(s, n).inb = IF n > ses[s].inb THEN n ELSE ses[s].inb
         /\ Taken(s, n).seen = {m \in ses[s].seen \cup {n} : m + Window >= Taken(s, n).inb}
  <1> DEFINE q == ses[s]
             top == IF n > q.inb THEN n ELSE q.inb
  <1>1. /\ q \in Thread /\ Len(q.ids) <= IdCache
        /\ sent[s] \in Seq(Number) /\ Len(sent[s]) <= MaxFrames
    BY DEF Typed
  <1>2. n \in Number /\ sent[s][n] \in Number
    <2>1. sent[s][n] \in Number /\ n \in 1 .. Len(sent[s]) /\ Len(sent[s]) \in Nat
      BY <1>1
    <2>2. n \in 1 .. MaxFrames
      BY <1>1, <2>1, NexusAssumption
    <2> QED BY <2>1, <2>2 DEF Number
  <1>3. top \in 0 .. MaxFrames /\ n \in 0 .. MaxFrames
    BY <1>1, <1>2, NexusAssumption DEF Number, Thread
  <1>4. Remember(q.ids, sent[s][n]) \in Seq(Number)
        /\ Len(Remember(q.ids, sent[s][n])) <= IdCache
    <2>1. q.ids \in Seq(Number)
      BY <1>1 DEF Thread
    <2> HIDE DEF q
    <2>2. Len(Remember(q.ids, sent[s][n])) = IF Len(q.ids) = IdCache THEN IdCache ELSE Len(q.ids) + 1
      BY <1>1, <1>2, <2>1, RememberFits
    <2>3. Remember(q.ids, sent[s][n]) \in Seq(Number)
      BY <1>1, <1>2, <2>1, RememberFits
    <2>4. IdCache \in Nat /\ Len(q.ids) \in Nat
      BY <2>1, NexusAssumption
    <2> QED BY <1>1, <2>2, <2>3, <2>4
  <1>5. {m \in q.seen \cup {n} : m + Window >= top} \in SUBSET Number
    BY <1>1, <1>2 DEF Thread
  <1>6. "check" \in Place
    BY DEF Place
  <1> DEFINE r == [Advanced(q, n, sent[s][n]) EXCEPT !.at = "check"]
  <1>7. /\ r = [at |-> "check", mem |-> q.mem, inb |-> top,
                seen |-> {m \in q.seen \cup {n} : m + Window >= top},
                ids |-> Remember(q.ids, sent[s][n]), cur |-> n]
    <2>1. q = [at |-> q.at, mem |-> q.mem, inb |-> q.inb, seen |-> q.seen,
               ids |-> q.ids, cur |-> q.cur]
      BY <1>1 DEF Thread
    <2> HIDE DEF q, top
    <2>2. top = IF n > q.inb THEN n ELSE q.inb
      BY DEF top
    <2>3. r = [[q EXCEPT !.inb = top,
                         !.seen = {m \in @ \cup {n} : m + Window >= top},
                         !.ids = Remember(@, sent[s][n]),
                         !.cur = n] EXCEPT !.at = "check"]
      BY <2>2, Zenon DEF Advanced
    <2> HIDE DEF r
    <2> QED BY <2>1, <2>3
  <1>8. r = Taken(s, n)
    BY DEF Taken
  <1> HIDE DEF q, top, r
  <1>9. /\ r \in Thread /\ r.at = "check" /\ r.cur = n /\ r.inb = top
        /\ r.ids = Remember(q.ids, sent[s][n])
        /\ r.seen = {m \in q.seen \cup {n} : m + Window >= top}
    BY <1>1, <1>3, <1>4, <1>5, <1>6, <1>7 DEF Thread
  <1> QED BY <1>2, <1>4, <1>8, <1>9 DEF q, top

LEMMA TakesSets ==
  ASSUME Typed, NEW s \in Sessions, NEW n \in Number, Takes(s, n)
  PROVE  /\ n \in DOMAIN sent[s] /\ ses' \in [Sessions -> Thread]
         /\ ses'[s] = Taken(s, n) /\ ses'[s].at = "check"
         /\ \A t \in Sessions \ {s} : ses'[t] = ses[t]
  <1> DEFINE q == Taken(s, n)
  <1>1. n \in DOMAIN sent[s] /\ ses' = [ses EXCEPT ![s] = q]
    BY DEF Takes
  <1>2. q \in Thread /\ q.at = "check"
    BY <1>1, TakenTyped
  <1> HIDE DEF q
  <1>3. /\ ses' \in [Sessions -> Thread] /\ ses'[s] = q
        /\ \A t \in Sessions \ {s} : ses'[t] = ses[t]
    BY <1>1, <1>2, ThreadSet
  <1> QED BY <1>1, <1>2, <1>3 DEF q

-----------------------------------------------------------------------------
(* Type correctness.                                                       *)

LEMMA ThreadsMoved ==
  ASSUME Typed, NEW s \in Sessions, NEW places, Moved(s, places), UNCHANGED sent,
         ses'[s].at \in {"check", "accept"} => At(s, "check")
  PROVE  /\ ses' \in [Sessions -> Thread]
         /\ \A t \in Sessions : Len(ses'[t].ids) <= IdCache
         /\ \A t \in Sessions : ses'[t].at \in {"check", "accept"} => ses'[t].cur \in DOMAIN sent'[t]
  BY DEF Typed, Moved, At

LEMMA StatesAreStates ==
  /\ "none" \in ConnectionState /\ "CONNECTED" \in ConnectionState
  /\ "DISCONNECTED" \in ConnectionState /\ "REVOKED" \in ConnectionState
  BY DEF ConnectionState

LEMMA SessionRowTyped ==
  ASSUME Typed, NEW s, NEW st \in ConnectionState, SessionRow(s, st)
  PROVE  sessRow' \in [Sessions -> ConnectionState]
  BY DEF Typed, SessionRow

LEMMA StepTyped ==
  ASSUME Typed, [Next]_vars
  PROVE  Typed'
  <1>1. ASSUME NEW s \in Sessions, Moving(s) PROVE Typed'
    <2>1. Follows(s)
      BY <1>1, MovingFollows
    <2>2. UNCHANGED <<running, trusted, sent, cli>>
      BY <1>1 DEF Moving, Connect, Create, RecordSession, RecordPeer, Loop, ReadFails, ReadEnds,
         CheckTrust, RevokeSession, RevokePeer, Refuse, Accept, Heartbeat, GoodbyeSession,
         GoodbyePeer, EndSession
    <2>3. /\ ses' \in [Sessions -> Thread]
          /\ \A t \in Sessions : Len(ses'[t].ids) <= IdCache
          /\ \A t \in Sessions :
               ses'[t].at \in {"check", "accept"} => ses'[t].cur \in DOMAIN sent'[t]
      <3>1. PICK places : /\ Moved(s, places)
                          /\ At(s, "check") \/ ({"check", "accept"} \cap places = {})
        BY <2>1 DEF Follows
      <3>2. ses'[s].at \in places
        BY <3>1 DEF Moved
      <3> QED BY <2>2, <3>1, <3>2, ThreadsMoved
    <2>4. sessRow' \in [Sessions -> ConnectionState] /\ peer' \in ConnectionState
      <3>1. ses[s].mem \in ConnectionState
        BY DEF Typed, Thread
      <3>2. sessRow' = sessRow \/ (\E st \in ConnectionState : SessionRow(s, st))
            \/ sessRow' = [sessRow EXCEPT ![s] = ses[s].mem]
        BY <1>1, StatesAreStates DEF Moving, Connect, Create, RecordSession, RecordPeer, Loop,
           ReadFails, ReadEnds, CheckTrust, RevokeSession, RevokePeer, Refuse, Accept, Heartbeat,
           GoodbyeSession, GoodbyePeer, EndSession, EndRow, rows
      <3>3. sessRow' \in [Sessions -> ConnectionState]
        BY <3>1, <3>2, SessionRowTyped DEF Typed
      <3>4. peer' \in ConnectionState
        BY <1>1, StatesAreStates DEF Moving, Connect, Create, RecordSession, RecordPeer, Loop,
           ReadFails, ReadEnds, CheckTrust, RevokeSession, RevokePeer, Refuse, Accept, Heartbeat,
           GoodbyeSession, GoodbyePeer, EndSession, rows, PeerRow, Typed
      <3> QED BY <3>3, <3>4
    <2>5. accepted' \in [Sessions -> Seq(Number)] /\ late' \in [Sessions -> Nat]
      <3>1. CASE Accept(s)
        <4>1. ses[s].cur \in Number
          <5>1. ses[s].cur \in DOMAIN sent[s] /\ Len(sent[s]) <= MaxFrames
                /\ sent[s] \in Seq(Number)
            BY <3>1 DEF Accept, At, Typed
          <5> QED BY <5>1, NexusAssumption DEF Number
        <4>2. Append(accepted[s], ses[s].cur) \in Seq(Number)
          BY <4>1 DEF Typed
        <4> QED BY <3>1, <4>2 DEF Accept, RecordMessage, Typed
      <3>2. CASE ~Accept(s)
        BY <1>1, <3>2 DEF Moving, Connect, Create, RecordSession, RecordPeer, Loop, ReadFails,
           ReadEnds, CheckTrust, RevokeSession, RevokePeer, Refuse, Heartbeat, GoodbyeSession,
           GoodbyePeer, EndSession, history, Typed
      <3> QED BY <3>1, <3>2
    <2> QED BY <2>2, <2>3, <2>4, <2>5 DEF Typed
  <1>2. ASSUME NEW s \in Sessions, NEW n \in Number, ReadFrame(s, n) PROVE Typed'
    <2>1. UNCHANGED <<running, rows, trusted, sent, cli, history>>
      BY <1>2 DEF ReadFrame
    <2>2. /\ ses' \in [Sessions -> Thread]
          /\ \A t \in Sessions : Len(ses'[t].ids) <= IdCache
          /\ \A t \in Sessions :
               ses'[t].at \in {"check", "accept"} => ses'[t].cur \in DOMAIN sent'[t]
      <3>1. CASE Takes(s, n)
        <4>1. /\ n \in DOMAIN sent[s] /\ ses' \in [Sessions -> Thread]
              /\ ses'[s] = Taken(s, n) /\ \A t \in Sessions \ {s} : ses'[t] = ses[t]
          BY <3>1, TakesSets
        <4>2. Taken(s, n).cur = n /\ Len(Taken(s, n).ids) <= IdCache
          BY <4>1, TakenTyped
        <4> QED BY <2>1, <4>1, <4>2 DEF Typed
      <3>2. CASE Moved(s, {"end"})
        <4>1. ses'[s].at = "end"
          BY <3>2 DEF Moved
        <4> QED BY <2>1, <3>2, <4>1, ThreadsMoved
      <3> QED BY <1>2, <3>1, <3>2, ReadFrameTakes
    <2> QED BY <2>1, <2>2 DEF Typed, rows, history
  <1>3. ASSUME NEW s \in Sessions, EndPeer(s) \/ DbFails(s) PROVE Typed'
    <2>1. /\ UNCHANGED <<running, sessRow, trusted, sent, cli, history>>
          /\ peer' \in ConnectionState
      BY <1>3, StatesAreStates DEF EndPeer, DbFails, rows, PeerRow, Typed
    <2>2. /\ ses' \in [Sessions -> Thread]
          /\ \A t \in Sessions : Len(ses'[t].ids) <= IdCache
          /\ \A t \in Sessions :
               ses'[t].at \in {"check", "accept"} => ses'[t].cur \in DOMAIN sent'[t]
      <3>1. CASE Fail(s)
        <4>1. Moved(s, {"end"})
          BY <3>1, CloseMoves DEF Fail, Place
        <4>2. ses'[s].at = "end"
          BY <4>1 DEF Moved
        <4> QED BY <2>1, <4>1, <4>2, ThreadsMoved
      <3>2. ASSUME NEW place \in {"gone", "killed"}, ses' = [ses EXCEPT ![s] = Left(place)]
            PROVE  /\ ses' \in [Sessions -> Thread]
                   /\ \A t \in Sessions : Len(ses'[t].ids) <= IdCache
                   /\ \A t \in Sessions :
                        ses'[t].at \in {"check", "accept"} => ses'[t].cur \in DOMAIN sent'[t]
        <4>1. Left(place) \in Thread /\ Left(place).at = place /\ Len(Left(place).ids) <= IdCache
          BY LeftIsThread, NexusAssumption DEF Place
        <4> QED BY <2>1, <3>2, <4>1, ThreadSet DEF Typed
      <3> QED BY <1>3, <3>1, <3>2 DEF EndPeer, DbFails
    <2> QED BY <2>1, <2>2 DEF Typed, history
  <1>4. CASE Stop \/ Crash
    <2>1. UNCHANGED <<sessRow, peer, trusted, sent, cli, history>> /\ running' \in BOOLEAN
      BY <1>4 DEF Stop, Crash, rows
    <2>2. \A s \in Sessions :
            /\ ses'[s] \in Thread /\ Len(ses'[s].ids) <= IdCache
            /\ ses'[s].at \in {"check", "accept"} => ses'[s].cur \in DOMAIN sent'[s]
      <3> SUFFICES ASSUME NEW s \in Sessions
                   PROVE  /\ ses'[s] \in Thread /\ Len(ses'[s].ids) <= IdCache
                          /\ ses'[s].at \in {"check", "accept"} => ses'[s].cur \in DOMAIN sent'[s]
        OBVIOUS
      <3>1. /\ ses[s] \in Thread /\ Len(ses[s].ids) <= IdCache
            /\ ses[s].at \in {"check", "accept"} => ses[s].cur \in DOMAIN sent[s]
        BY DEF Typed
      <3> DEFINE q == [ses[s] EXCEPT !.mem = "DISCONNECTED"]
      <3>2. q \in Thread /\ q.ids = ses[s].ids /\ q.at = ses[s].at /\ q.cur = ses[s].cur
        BY <3>1, StatesAreStates DEF Thread
      <3> HIDE DEF q
      <3>3. /\ Left("killed") \in Thread /\ Left("killed").at = "killed"
            /\ Len(Left("killed").ids) <= IdCache
        BY LeftIsThread, NexusAssumption DEF Place
      <3>4. ses'[s] \in {ses[s], q, Left("killed")}
        BY <1>4 DEF Stop, Crash, q
      <3> QED BY <2>1, <3>1, <3>2, <3>3, <3>4
    <2>3. ses' \in [Sessions -> Thread]
      <3>1. ses' = [s \in Sessions |-> ses'[s]]
        BY <1>4 DEF Stop, Crash
      <3> QED BY <2>2, <3>1
    <2> QED BY <2>1, <2>2, <2>3 DEF Typed, history
  <1>5. CASE Start
    BY <1>5 DEF Start, Typed, rows, history
  <1>6. ASSUME NEW s \in Sessions, Send(s) PROVE Typed'
    <2>1. PICK id \in {sent[s][i] : i \in DOMAIN sent[s]} \cup {Len(sent[s]) + 1} :
            sent' = [sent EXCEPT ![s] = Append(@, id)]
      BY <1>6 DEF Send
    <2>2. sent[s] \in Seq(Number) /\ Len(sent[s]) < MaxFrames
      BY <1>6 DEF Send, Typed
    <2>3. id \in Number
      BY <2>1, <2>2, NexusAssumption DEF Number
    <2>4. /\ Append(sent[s], id) \in Seq(Number)
          /\ Len(Append(sent[s], id)) <= MaxFrames
          /\ DOMAIN sent[s] \subseteq DOMAIN Append(sent[s], id)
      BY <2>2, <2>3, NexusAssumption
    <2>5. /\ sent' \in [Sessions -> Seq(Number)]
          /\ \A t \in Sessions : /\ Len(sent'[t]) <= MaxFrames
                                 /\ DOMAIN sent[t] \subseteq DOMAIN sent'[t]
      BY <2>1, <2>4 DEF Typed
    <2>6. UNCHANGED <<running, ses, rows, trusted, cli, history>>
      BY <1>6 DEF Send
    <2> QED BY <2>5, <2>6 DEF Typed, rows, history
  <1>7. CASE TransportDisconnect
    <2>1. UNCHANGED <<running, ses, trusted, sent, history>>
      BY <1>7 DEF TransportDisconnect, FindSession, DisconnectSession, DisconnectPeer, rows
    <2>2. sessRow' \in [Sessions -> ConnectionState]
      BY <1>7, SessionRowTyped, StatesAreStates DEF TransportDisconnect, FindSession,
         DisconnectSession, DisconnectPeer, rows, Typed
    <2>3. peer' \in ConnectionState /\ cli' \in Sessions \cup {"idle", "peer"}
      BY <1>7, StatesAreStates DEF TransportDisconnect, FindSession, DisconnectSession,
         DisconnectPeer, rows, PeerRow, Typed
    <2> QED BY <2>1, <2>2, <2>3 DEF Typed, history
  <1>8. CASE RevokeTrust \/ EstablishTrust
    <2>1. UNCHANGED <<running, ses, rows, sent, cli, accepted>> /\ trusted' \in BOOLEAN
      BY <1>8 DEF RevokeTrust, EstablishTrust, history
    <2>2. late' \in [Sessions -> Nat]
      BY <1>8 DEF RevokeTrust, EstablishTrust, history, Typed
    <2> QED BY <2>1, <2>2 DEF Typed, rows
  <1>9. CASE UNCHANGED vars
    BY <1>9 DEF vars, rows, history, Typed
  <1>10. ASSUME NEW s \in Sessions, ClientStep(s) \/ ThreadStep(s) PROVE Typed'
    BY <1>1, <1>2, <1>3, <1>6, <1>10 DEF ClientStep, ThreadStep, Moving
  <1>11. CASE Next
    BY <1>4, <1>5, <1>7, <1>8, <1>10, <1>11, Zenon DEF Next
  <1> QED BY <1>9, <1>11

-----------------------------------------------------------------------------
(* Messages of a revoked device.                                           *)

\* A step that makes no thread enter the accept place, and leaves trust and the
\* count alone, changes nothing for them.
LEMMA LateKept ==
  ASSUME LateInv, UNCHANGED <<trusted, late>>,
         \A s \in Sessions : ses'[s].at = "accept" => At(s, "accept")
  PROVE  LateInv'
  BY DEF LateInv, At

LEMMA StepLate ==
  ASSUME Typed, LateInv, [Next]_vars
  PROVE  LateInv'
  <1>1. ASSUME NEW s \in Sessions, Moving(s) PROVE LateInv'
    <2>1. Follows(s)
      BY <1>1, MovingFollows
    <2>2. CASE At(s, "check") /\ trusted
      <3>1. CheckTrust(s)
        BY <1>1, <2>2 DEF Moving, At, Connect, Create, RecordSession, RecordPeer, Loop, ReadFails,
           ReadEnds, CheckTrust, RevokeSession, RevokePeer, Refuse, Accept, Heartbeat,
           GoodbyeSession, GoodbyePeer, EndSession
      <3> QED BY <2>2, <3>1 DEF CheckTrust, LateInv, history
    <2>3. CASE At(s, "accept")
      <3>1. Moved(s, {"end", "beat"})
        BY <2>1, <2>3 DEF Follows, At
      <3>2. /\ \A t \in Sessions : ses'[t].at = "accept" => t # s /\ At(t, "accept")
            /\ UNCHANGED trusted
        BY <1>1, <2>3, <3>1 DEF Moved, Moving, At, Connect, Create, RecordSession, RecordPeer, Loop,
           ReadFails, ReadEnds, CheckTrust, RevokeSession, RevokePeer, Refuse, Accept, Heartbeat,
           GoodbyeSession, GoodbyePeer, EndSession
      <3>3. \A t \in Sessions : late'[t] =
               IF t = s /\ late'[s] # late[s] THEN late[s] + 1 ELSE late[t]
        BY <1>1, <2>3 DEF Moving, At, Connect, Create, RecordSession, RecordPeer, Loop,
           ReadFails, ReadEnds, CheckTrust, RevokeSession, RevokePeer, Refuse, Accept, Heartbeat,
           GoodbyeSession, GoodbyePeer, EndSession, RecordMessage, history, Typed
      <3>4. late'[s] # late[s] => ~trusted
        BY <1>1, <2>3 DEF Moving, At, Connect, Create, RecordSession, RecordPeer, Loop,
           ReadFails, ReadEnds, CheckTrust, RevokeSession, RevokePeer, Refuse, Accept, Heartbeat,
           GoodbyeSession, GoodbyePeer, EndSession, RecordMessage, history, Typed
      <3>5. late'[s] <= 1
        BY <2>3, <3>3, <3>4 DEF LateInv, Typed
      <3>6. \A t \in Sessions \ {s} : late'[t] = late[t]
        BY <3>3
      <3> QED BY <3>2, <3>5, <3>6 DEF LateInv, At
    <2>4. CASE ~At(s, "accept") /\ ~(At(s, "check") /\ trusted)
      <3>1. UNCHANGED <<trusted, late>>
        BY <1>1, <2>4 DEF Moving, Connect, Create, RecordSession, RecordPeer, Loop, ReadFails,
           ReadEnds, CheckTrust, RevokeSession, RevokePeer, Refuse, Accept, Heartbeat,
           GoodbyeSession, GoodbyePeer, EndSession, history
      <3>2. ses'[s].at # "accept" /\ \A t \in Sessions \ {s} : ses'[t] = ses[t]
        BY <2>1, <2>4 DEF Follows, Moved
      <3> QED BY <3>1, <3>2, LateKept DEF At
    <2> QED BY <2>2, <2>3, <2>4
  <1>2. ASSUME NEW s \in Sessions, NEW n \in Number, ReadFrame(s, n) PROVE LateInv'
    <2>1. ses'[s].at # "accept" /\ \A t \in Sessions \ {s} : ses'[t] = ses[t]
      <3>1. CASE Takes(s, n)
        BY <3>1, TakesSets
      <3>2. CASE Moved(s, {"end"})
        BY <3>2 DEF Moved
      <3> QED BY <1>2, <3>1, <3>2, ReadFrameTakes
    <2>2. UNCHANGED <<trusted, late>>
      BY <1>2 DEF ReadFrame, history
    <2> QED BY <2>1, <2>2, LateKept DEF At
  <1>3. ASSUME NEW s \in Sessions, EndPeer(s) \/ DbFails(s) PROVE LateInv'
    <2>1. ses'[s].at # "accept" /\ \A t \in Sessions \ {s} : ses'[t] = ses[t]
      <3>1. CASE Fail(s)
        <4>1. Moved(s, {"end"})
          BY <3>1, CloseMoves DEF Fail, Place
        <4> QED BY <4>1 DEF Moved
      <3>2. ASSUME NEW place \in {"gone", "killed"}, ses' = [ses EXCEPT ![s] = Left(place)]
            PROVE  ses'[s].at # "accept" /\ \A t \in Sessions \ {s} : ses'[t] = ses[t]
        BY <3>2, LeftIsThread, ThreadSet DEF Place
      <3> QED BY <1>3, <3>1, <3>2 DEF EndPeer, DbFails
    <2>2. UNCHANGED <<trusted, late>>
      BY <1>3 DEF EndPeer, DbFails, history
    <2> QED BY <2>1, <2>2, LateKept DEF At
  <1>4. CASE Stop \/ Crash
    <2>1. \A s \in Sessions : ses'[s].at = "accept" => At(s, "accept")
      <3> SUFFICES ASSUME NEW s \in Sessions, ses'[s].at = "accept" PROVE At(s, "accept")
        OBVIOUS
      <3>1. ses[s] \in Thread /\ Left("killed").at = "killed"
        BY LeftIsThread DEF Typed, Place
      <3>2. [ses[s] EXCEPT !.mem = "DISCONNECTED"].at = ses[s].at
        BY <3>1 DEF Thread
      <3>3. ses'[s] \in {ses[s], [ses[s] EXCEPT !.mem = "DISCONNECTED"], Left("killed")}
        BY <1>4 DEF Stop, Crash
      <3> QED BY <3>1, <3>2, <3>3 DEF At
    <2> QED BY <1>4, <2>1, LateKept DEF Stop, Crash, history
  <1>5. CASE RevokeTrust
    BY <1>5 DEF RevokeTrust, LateInv
  <1>6. CASE EstablishTrust
    BY <1>6 DEF EstablishTrust, LateInv, history
  <1>7. UNCHANGED <<ses, trusted, late>> => LateInv'
    BY LateKept DEF At
  <1>8. ASSUME NEW s \in Sessions, Send(s) PROVE UNCHANGED <<ses, trusted, late>>
    BY <1>8 DEF Send, history
  <1>9. CASE Start \/ TransportDisconnect \/ UNCHANGED vars
    BY <1>7, <1>9 DEF Start, TransportDisconnect, FindSession, DisconnectSession,
       DisconnectPeer, history, vars
  <1>10. ASSUME NEW s \in Sessions, ClientStep(s) \/ ThreadStep(s) PROVE LateInv'
    BY <1>1, <1>2, <1>3, <1>7, <1>8, <1>10 DEF ClientStep, ThreadStep, Moving
  <1>11. CASE Next
    BY <1>4, <1>5, <1>6, <1>9, <1>10, <1>11, Zenon DEF Next
  <1> QED BY <1>9, <1>11

-----------------------------------------------------------------------------
(* What a connection leaves behind.                                        *)

\* A step that takes no thread off its work and writes no row CONNECTED.
LEMMA GhostQuiet ==
  ASSUME GhostInv,
         \A s \in Sessions : /\ AtWork(s) => AtWork(s)'
                             /\ ses'[s].at = "endPeer" => At(s, "endPeer")
                             /\ sessRow'[s] = "CONNECTED" => sessRow[s] = "CONNECTED",
         peer' = "CONNECTED" => peer = "CONNECTED"
  PROVE  GhostInv'
  BY DEF GhostInv, NoGhostConnection, At

\* A step of one thread that is at work after it, or was not before it and writes
\* nothing that says CONNECTED.
LEMMA GhostKept ==
  ASSUME GhostInv, NEW s \in Sessions,
         \A t \in Sessions \ {s} : ses'[t] = ses[t] /\ sessRow'[t] = sessRow[t],
         \/ AtWork(s)'
         \/ ~AtWork(s) /\ peer' = peer /\ sessRow'[s] # "CONNECTED",
         ses'[s].at = "endPeer" => sessRow'[s] # "CONNECTED"
  PROVE  GhostInv'
  <1>1. \A t \in Sessions \ {s} : AtWork(t)' <=> AtWork(t)
    BY DEF AtWork
  <1>2. \A t \in Sessions : sessRow'[t] = "CONNECTED" => AtWork(t)'
    BY <1>1 DEF GhostInv, NoGhostConnection
  <1>3. peer' = "CONNECTED" => \E t \in Sessions : AtWork(t)'
    <2>1. CASE AtWork(s)'
      BY <2>1
    <2>2. CASE ~AtWork(s) /\ peer' = peer
      BY <1>1, <2>2 DEF GhostInv, NoGhostConnection
    <2> QED BY <2>1, <2>2
  <1>4. \A t \in Sessions : ses'[t].at = "endPeer" => sessRow'[t] # "CONNECTED"
    BY DEF GhostInv, At
  <1> QED BY <1>2, <1>3, <1>4 DEF GhostInv, NoGhostConnection, At

LEMMA SessionRowChanges ==
  ASSUME Typed, NEW s \in Sessions, NEW st \in ConnectionState, SessionRow(s, st)
  PROVE  /\ sessRow'[s] \in {st, "none"}
         /\ \A t \in Sessions \ {s} : sessRow'[t] = sessRow[t]
  BY DEF Typed, SessionRow

LEMMA StepGhost ==
  ASSUME Typed, GhostInv, [Next]_vars
  PROVE  GhostInv'
  <1>1. ASSUME NEW s \in Sessions, Moving(s) PROVE GhostInv'
    <2>1. Follows(s)
      BY <1>1, MovingFollows
    <2>2. \A t \in Sessions \ {s} : ses'[t] = ses[t]
      BY <2>1 DEF Follows, Moved
    <2>3. CASE At(s, "none") \/ At(s, "create")
      <3>1. /\ ~AtWork(s)
            /\ ses'[s].at \in {"create", "gone", "record"}
        BY <2>1, <2>3 DEF Follows, Moved, At, AtWork
      <3>2. UNCHANGED <<sessRow, peer>>
        BY <1>1, <2>3 DEF Moving, At, Connect, Create, RecordSession, RecordPeer, Loop, ReadFails,
           ReadEnds, CheckTrust, RevokeSession, RevokePeer, Refuse, Accept, Heartbeat,
           GoodbyeSession, GoodbyePeer, EndSession, rows
      <3>3. sessRow[s] # "CONNECTED"
        BY <3>1 DEF GhostInv, NoGhostConnection
      <3> QED BY <2>2, <3>1, <3>2, <3>3, GhostKept
    <2>4. CASE ~(At(s, "none") \/ At(s, "create"))
      <3>1. AtWork(s)'
        BY <2>1, <2>4 DEF Follows, Moved, At, AtWork
      <3>2. CASE At(s, "end")
        <4>1. SessionRow(s, "DISCONNECTED")
          BY <1>1, <3>2 DEF Moving, At, Connect, Create, RecordSession, RecordPeer, Loop, ReadFails,
             ReadEnds, CheckTrust, RevokeSession, RevokePeer, Refuse, Accept, Heartbeat,
             GoodbyeSession, GoodbyePeer, EndSession, EndRow
        <4> QED BY <2>2, <3>1, <4>1, SessionRowChanges, StatesAreStates, GhostKept
      <3>3. CASE ~At(s, "end")
        <4>1. ses'[s].at # "endPeer"
          BY <2>1, <3>3 DEF Follows, Moved
        <4>2. \/ UNCHANGED sessRow
              \/ \E st \in ConnectionState : SessionRow(s, st)
              \/ sessRow' = [sessRow EXCEPT ![s] = ses[s].mem]
          BY <1>1, <3>3, StatesAreStates DEF Moving, Connect, Create, RecordSession, RecordPeer,
             Loop, ReadFails, ReadEnds, CheckTrust, RevokeSession, RevokePeer, Refuse, Accept,
             Heartbeat, GoodbyeSession, GoodbyePeer, EndSession, rows
        <4>3. \A t \in Sessions \ {s} : sessRow'[t] = sessRow[t]
          BY <4>2, SessionRowChanges DEF Typed
        <4> QED BY <2>2, <3>1, <4>1, <4>3, GhostKept
      <3> QED BY <3>2, <3>3
    <2> QED BY <2>3, <2>4
  <1>2. ASSUME NEW s \in Sessions, NEW n \in Number, ReadFrame(s, n) PROVE GhostInv'
    <2>1. /\ ses'[s].at \in {"check", "end"}
          /\ \A t \in Sessions \ {s} : ses'[t] = ses[t]
      <3>1. CASE Takes(s, n)
        BY <3>1, TakesSets
      <3>2. CASE Moved(s, {"end"})
        BY <3>2 DEF Moved
      <3> QED BY <1>2, <3>1, <3>2, ReadFrameTakes
    <2>2. UNCHANGED <<sessRow, peer>>
      BY <1>2 DEF ReadFrame, rows
    <2> QED BY <2>1, <2>2, GhostKept DEF AtWork
  <1>3. ASSUME NEW s \in Sessions, DbFails(s) PROVE GhostInv'
    <2>1. /\ ses'[s].at \in {"end", "killed"}
          /\ \A t \in Sessions \ {s} : ses'[t] = ses[t]
      <3>1. CASE Fail(s)
        <4>1. Moved(s, {"end"})
          BY <3>1, CloseMoves DEF Fail, Place
        <4> QED BY <4>1 DEF Moved
      <3>2. CASE ses' = [ses EXCEPT ![s] = Left("killed")]
        BY <3>2, LeftIsThread, ThreadSet DEF Place
      <3> QED BY <1>3, <3>1, <3>2 DEF DbFails
    <2>2. UNCHANGED <<sessRow, peer>>
      BY <1>3 DEF DbFails, rows
    <2> QED BY <2>1, <2>2, GhostKept DEF AtWork
  <1>4. ASSUME NEW s \in Sessions, EndPeer(s) PROVE GhostInv'
    <2>1. /\ ses'[s].at = "gone"
          /\ \A t \in Sessions \ {s} : ses'[t] = ses[t]
      BY <1>4, LeftIsThread, ThreadSet DEF EndPeer, Place
    <2>2. sessRow[s] # "CONNECTED" /\ sessRow' = sessRow /\ peer' = "DISCONNECTED"
      BY <1>4 DEF EndPeer, PeerRow, GhostInv
    <2> QED BY <2>1, <2>2 DEF GhostInv, NoGhostConnection, AtWork, At
  <1>5. CASE Stop \/ Crash
    <2>1. \A s \in Sessions : ses'[s].at \in {ses[s].at, "killed"}
      <3> SUFFICES ASSUME NEW s \in Sessions
                   PROVE  ses'[s].at \in {ses[s].at, "killed"}
        OBVIOUS
      <3>1. ses[s] \in Thread /\ Left("killed").at = "killed"
        BY LeftIsThread DEF Typed, Place
      <3>2. [ses[s] EXCEPT !.mem = "DISCONNECTED"].at = ses[s].at
        BY <3>1 DEF Thread
      <3>3. ses'[s] \in {ses[s], [ses[s] EXCEPT !.mem = "DISCONNECTED"], Left("killed")}
        BY <1>5 DEF Stop, Crash
      <3> QED BY <3>1, <3>2, <3>3
    <2>2. UNCHANGED <<sessRow, peer>>
      BY <1>5 DEF Stop, Crash, rows
    <2> QED BY <2>1, <2>2, GhostQuiet DEF AtWork, At
  <1>6. CASE TransportDisconnect
    <2>1. UNCHANGED ses /\ peer' \in {peer, "DISCONNECTED"}
      BY <1>6 DEF TransportDisconnect, FindSession, DisconnectSession, DisconnectPeer, PeerRow, rows
    <2>2. \A s \in Sessions : sessRow'[s] = "CONNECTED" => sessRow[s] = "CONNECTED"
      BY <1>6 DEF TransportDisconnect, FindSession, DisconnectSession, DisconnectPeer,
         SessionRow, rows, Typed
    <2> QED BY <2>1, <2>2, GhostQuiet DEF AtWork, At
  <1>7. UNCHANGED <<ses, sessRow, peer>> => GhostInv'
    BY GhostQuiet DEF AtWork, At
  <1>8. ASSUME NEW s \in Sessions, Send(s) PROVE UNCHANGED <<ses, sessRow, peer>>
    BY <1>8 DEF Send, rows
  <1>9. CASE Start \/ RevokeTrust \/ EstablishTrust \/ UNCHANGED vars
    BY <1>7, <1>9 DEF Start, RevokeTrust, EstablishTrust, rows, vars
  <1>10. ASSUME NEW s \in Sessions, ClientStep(s) \/ ThreadStep(s) PROVE GhostInv'
    BY <1>1, <1>2, <1>3, <1>4, <1>7, <1>8, <1>10 DEF ClientStep, ThreadStep, Moving
  <1>11. CASE Next
    BY <1>5, <1>6, <1>9, <1>10, <1>11, Zenon DEF Next
  <1> QED BY <1>9, <1>11

-----------------------------------------------------------------------------
(* Frames repeated, delayed and reordered.                                 *)

\* A sequence of frames of session s in which none is a replay of an earlier one.
Once(q, s) ==
  \A i, j \in DOMAIN q :
    i < j => /\ q[i] # q[j]
             /\ q[j] + Window >= q[i]
             /\ j <= i + IdCache => sent[s][q[i]] # sent[s][q[j]]

\* Places from which a thread may still accept frames.
Reading(s) ==
  ses[s].at \in {"none", "create", "record", "peer", "loop", "read", "check", "accept",
                 "beat", "bye", "byePeer"}

InHand(s) == ses[s].at \in {"check", "accept"}

\* The frames a session has read: the accepted ones, and the one in hand.
Taking(s) == IF InHand(s) THEN Append(accepted[s], ses[s].cur) ELSE accepted[s]

\* The guard g remembers the frames q: their numbers, unless they have fallen out
\* of the window, and the ids of the last of them.
Remembers(s, g, q) ==
  /\ \A i \in DOMAIN q : /\ q[i] \in DOMAIN sent[s]
                         /\ q[i] <= g.inb
                         /\ q[i] \in g.seen \/ q[i] + Window < g.inb
  /\ Len(g.ids) = IF Len(q) < IdCache THEN Len(q) ELSE IdCache
  /\ \A k \in DOMAIN g.ids : g.ids[k] = sent[s][q[Len(q) - Len(g.ids) + k]]

Replay(s) ==
  /\ \A i \in DOMAIN accepted[s] : accepted[s][i] \in DOMAIN sent[s]
  /\ Once(Taking(s), s)
  /\ Reading(s) => Remembers(s, ses[s], Taking(s))

ReplayInv == \A s \in Sessions : Replay(s)

\* What was taken before the last frame is no replay either.
LEMMA TakingCovers ==
  ASSUME Typed, NEW s \in Sessions, Once(Taking(s), s)
  PROVE  Once(accepted[s], s)
  <1>1. CASE InHand(s)
    <2> DEFINE q == accepted[s]
               r == Append(q, ses[s].cur)
    <2>1. q \in Seq(Number)
      BY DEF Typed
    <2>2. DOMAIN q \subseteq DOMAIN r /\ \A i \in DOMAIN q : r[i] = q[i]
      BY <2>1
    <2>3. Once(r, s)
      BY <1>1 DEF Taking
    <2> HIDE DEF q, r
    <2>4. Once(q, s)
      BY <2>2, <2>3 DEF Once
    <2> QED BY <2>4 DEF q
  <1> QED BY <1>1 DEF Taking

\* A thread that goes on keeps its guard and what it has taken, whether the frame
\* in hand becomes an accepted one or not; one that stops reading drops it.
LEMMA ReplayKept ==
  ASSUME Typed, NEW s \in Sessions, Replay(s), UNCHANGED sent[s],
         Reading(s)' => /\ Reading(s)
                        /\ Taking(s)' = Taking(s)
                        /\ ses'[s].inb = ses[s].inb
                        /\ ses'[s].seen = ses[s].seen
                        /\ ses'[s].ids = ses[s].ids,
         ~Reading(s)' => Taking(s)' = accepted'[s],
         accepted'[s] \in {accepted[s], Taking(s)},
         \A i \in DOMAIN accepted'[s] : accepted'[s][i] \in DOMAIN sent[s]
  PROVE  Replay(s)'
  <1>1. Once(accepted[s], s)
    BY TakingCovers DEF Replay
  <1>2. Taking(s)' \in {accepted[s], Taking(s)}
    OBVIOUS
  <1>3. \A q : Once(q, s)' <=> Once(q, s)
    BY DEF Once
  <1>4. Once(Taking(s), s)'
    <2>1. Once(Taking(s)', s)
      BY <1>1, <1>2 DEF Replay
    <2> QED BY <2>1, Zenon DEF Once
  <1>5. Reading(s)' => Remembers(s, ses[s], Taking(s))'
    <2> SUFFICES ASSUME Reading(s)' PROVE Remembers(s, ses[s], Taking(s))'
      OBVIOUS
    <2>1. Remembers(s, ses[s], Taking(s))
      BY DEF Replay
    <2> DEFINE q == Taking(s)
               r == Taking(s)'
    <2>2. r = q
      OBVIOUS
    <2> HIDE DEF q
    <2> QED BY <2>1, <2>2 DEF Remembers, q
  <1> QED BY <1>4, <1>5 DEF Replay

\* The lengths of a history and of what a cache of size c keeps of it.
LEMMA LastKept ==
  ASSUME NEW a \in Nat, NEW c \in Nat \ {0}, NEW b, b = IF a < c THEN a ELSE c,
         NEW i \in 1 .. a, a + 1 <= i + c
  PROVE  i - (a - b) \in 1 .. b /\ a - b + (i - (a - b)) = i
  OBVIOUS

LEMMA OneMoreKept ==
  ASSUME NEW a \in Nat, NEW c \in Nat \ {0}, NEW b, b = IF a < c THEN a ELSE c,
         NEW d, d = IF b = c THEN c ELSE b + 1
  PROVE  /\ d = IF a + 1 < c THEN a + 1 ELSE c
         /\ d \in Nat /\ a + 1 - d + d = a + 1
         /\ \A k \in 1 .. d - 1 :
              LET m == IF b = c THEN k + 1 ELSE k
              IN  /\ m \in 1 .. b /\ a - b + m = a + 1 - d + k
                  /\ a - b + m \in 1 .. a
  OBVIOUS

\* A frame the guard lets through is no replay, and the guard remembers it too.
LEMMA ReplayTaken ==
  ASSUME Typed, NEW s \in Sessions, Replay(s), NEW n \in Number, Takes(s, n),
         UNCHANGED <<sent, accepted>>
  PROVE  Replay(s)'
  <1> DEFINE q == accepted[s]
             r == Append(q, n)
             g == ses[s]
             h == ses'[s]
             id == sent[s][n]
  <1>1. /\ q \in Seq(Number) /\ Len(q) \in Nat /\ n \in DOMAIN sent[s]
        /\ Fresh(g, n) /\ NewId(g, id)
    BY DEF Typed, Takes
  <1>2. /\ Taking(s) = q /\ Reading(s)
    BY DEF Takes, At, Taking, InHand, Reading
  <1>3. /\ h = Taken(s, n)
    BY TakesSets
  <1>4. /\ h.at = "check" /\ h.cur = n /\ h.ids = Remember(g.ids, id)
        /\ h.inb = IF n > g.inb THEN n ELSE g.inb
        /\ h.seen = {m \in g.seen \cup {n} : m + Window >= h.inb}
        /\ id \in Number
    BY <1>1, <1>3, TakenTyped
  <1>5. Taking(s)' = r
    BY <1>4 DEF Taking, InHand
  <1>6. /\ g.ids \in Seq(Number) /\ Len(g.ids) <= IdCache /\ Len(g.ids) \in Nat
        /\ g.inb \in Int
    BY SessionTyped
  <1>7. Once(q, s) /\ Remembers(s, g, q) /\ \A i \in DOMAIN q : q[i] \in DOMAIN sent[s]
    BY <1>2 DEF Replay
  <1>8. /\ Len(r) = Len(q) + 1 /\ DOMAIN r = 1 .. Len(q) + 1 /\ DOMAIN q = 1 .. Len(q)
        /\ r[Len(q) + 1] = n /\ \A i \in DOMAIN q : r[i] = q[i] /\ q[i] \in Int
    <2>1. Len(r) = Len(q) + 1 /\ r[Len(q) + 1] = n /\ \A i \in 1 .. Len(q) : r[i] = q[i]
      BY <1>1
    <2>2. r \in Seq(Number)
      BY <1>1
    <2>3. \A i \in DOMAIN q : q[i] \in Number
      BY <1>1
    <2>4. Number \subseteq Int
      BY NexusAssumption DEF Number
    <2> HIDE DEF q, r
    <2>5. DOMAIN r = 1 .. Len(r) /\ DOMAIN q = 1 .. Len(q)
      BY <1>1, <2>2
    <2> QED BY <2>1, <2>3, <2>4, <2>5
  <1>9. IdCache \in Nat /\ Window \in Nat /\ n \in Int
    BY NexusAssumption DEF Number
  <1> HIDE DEF q, r, g, h, id
  <1>10. \A i \in DOMAIN q : q[i] # n
    <2> SUFFICES ASSUME NEW i \in DOMAIN q PROVE q[i] # n
      OBVIOUS
    <2>1. q[i] \in g.seen \/ q[i] + Window < g.inb
      BY <1>7 DEF Remembers
    <2>2. n \notin g.seen /\ n + Window >= g.inb
      BY <1>1 DEF Fresh
    <2> QED BY <2>1, <2>2, <1>6, <1>8, <1>9
  <1>11. \A i \in DOMAIN q : n + Window >= q[i]
    <2> SUFFICES ASSUME NEW i \in DOMAIN q PROVE n + Window >= q[i]
      OBVIOUS
    <2>1. q[i] <= g.inb
      BY <1>7 DEF Remembers
    <2>2. n + Window >= g.inb
      BY <1>1 DEF Fresh
    <2> QED BY <2>1, <2>2, <1>6, <1>8, <1>9
  <1>12. Len(g.ids) = IF Len(q) < IdCache THEN Len(q) ELSE IdCache
    BY <1>7 DEF Remembers
  <1>13. \A k \in 1 .. Len(g.ids) : g.ids[k] = sent[s][q[Len(q) - Len(g.ids) + k]]
    BY <1>6, <1>7 DEF Remembers
  <1>14. \A i \in DOMAIN q : Len(q) + 1 <= i + IdCache => sent[s][q[i]] # id
    <2> SUFFICES ASSUME NEW i \in 1 .. Len(q), Len(q) + 1 <= i + IdCache
                 PROVE  sent[s][q[i]] # id
      BY <1>8
    <2> DEFINE k == i - (Len(q) - Len(g.ids))
    <2>1. k \in 1 .. Len(g.ids) /\ Len(q) - Len(g.ids) + k = i
      <3> DEFINE a == Len(q)
                 b == Len(g.ids)
      <3>1. /\ a \in Nat /\ b = (IF a < IdCache THEN a ELSE IdCache)
            /\ i \in 1 .. a /\ a + 1 <= i + IdCache
        BY <1>1, <1>12
      <3> HIDE DEF a, b
      <3>2. i - (a - b) \in 1 .. b /\ a - b + (i - (a - b)) = i
        BY <3>1, NexusAssumption, LastKept
      <3> QED BY <3>2 DEF a, b
    <2> HIDE DEF k
    <2>2. g.ids[k] = sent[s][q[i]]
      BY <1>13, <2>1
    <2>3. k \in DOMAIN g.ids
      BY <2>1, <1>6
    <2> QED BY <1>1, <2>2, <2>3 DEF NewId
  <1>15. Once(r, s)
    <2> SUFFICES ASSUME NEW i \in DOMAIN r, NEW j \in DOMAIN r, i < j
                 PROVE  /\ r[i] # r[j]
                        /\ r[j] + Window >= r[i]
                        /\ j <= i + IdCache => sent[s][r[i]] # sent[s][r[j]]
      BY DEF Once
    <2>1. i \in DOMAIN q /\ r[i] = q[i]
      BY <1>1, <1>8
    <2>2. CASE j = Len(q) + 1
      BY <1>8, <1>10, <1>11, <1>14, <2>1, <2>2 DEF id
    <2>3. CASE j # Len(q) + 1
      <3>1. j \in DOMAIN q /\ r[j] = q[j]
        BY <1>1, <1>8, <2>3
      <3> QED BY <1>7, <2>1, <3>1 DEF Once
    <2> QED BY <2>2, <2>3
  <1>16. \A i \in DOMAIN r : /\ r[i] \in DOMAIN sent[s]
                             /\ r[i] <= h.inb
                             /\ r[i] \in h.seen \/ r[i] + Window < h.inb
    <2> SUFFICES ASSUME NEW i \in DOMAIN r
                 PROVE  /\ r[i] \in DOMAIN sent[s]
                        /\ r[i] <= h.inb
                        /\ r[i] \in h.seen \/ r[i] + Window < h.inb
      OBVIOUS
    <2>1. CASE i = Len(q) + 1
      BY <1>1, <1>4, <1>6, <1>8, <1>9, <2>1
    <2>2. CASE i # Len(q) + 1
      <3>1. i \in DOMAIN q /\ r[i] = q[i] /\ q[i] \in Int
        BY <1>1, <1>8, <2>2
      <3>2. /\ q[i] \in DOMAIN sent[s] /\ q[i] <= g.inb
            /\ q[i] \in g.seen \/ q[i] + Window < g.inb
        BY <1>7, <3>1 DEF Remembers
      <3>3. h.inb \in Int /\ g.inb <= h.inb
        BY <1>4, <1>6, <1>9
      <3>4. q[i] \in h.seen \/ q[i] + Window < h.inb
        BY <1>4, <1>6, <1>9, <3>1, <3>2, <3>3
      <3> QED BY <1>6, <3>1, <3>2, <3>3, <3>4
    <2> QED BY <2>1, <2>2
  <1>17. /\ Len(h.ids) = IF Len(g.ids) = IdCache THEN IdCache ELSE Len(g.ids) + 1
         /\ h.ids \in Seq(Number)
         /\ h.ids[Len(h.ids)] = id
         /\ \A k \in 1 .. Len(h.ids) - 1 :
              h.ids[k] = IF Len(g.ids) = IdCache THEN g.ids[k + 1] ELSE g.ids[k]
    <2> DEFINE new == Remember(g.ids, id)
    <2>1. /\ Len(new) = IF Len(g.ids) = IdCache THEN IdCache ELSE Len(g.ids) + 1
          /\ new \in Seq(Number)
          /\ new[Len(new)] = id
          /\ \A k \in 1 .. Len(new) - 1 :
               new[k] = IF Len(g.ids) = IdCache THEN g.ids[k + 1] ELSE g.ids[k]
      BY <1>4, <1>6, RememberFits
    <2>2. h.ids = new
      BY <1>4
    <2> HIDE DEF new
    <2> QED BY <2>1, <2>2
  <1>18. /\ Len(h.ids) = IF Len(q) + 1 < IdCache THEN Len(q) + 1 ELSE IdCache
         /\ Len(h.ids) \in Nat
         /\ Len(q) + 1 - Len(h.ids) + Len(h.ids) = Len(q) + 1
         /\ \A k \in 1 .. Len(h.ids) - 1 :
              LET m == IF Len(g.ids) = IdCache THEN k + 1 ELSE k
              IN  /\ m \in 1 .. Len(g.ids)
                  /\ Len(q) - Len(g.ids) + m = Len(q) + 1 - Len(h.ids) + k
                  /\ Len(q) - Len(g.ids) + m \in 1 .. Len(q)
    <2> DEFINE a == Len(q)
               b == Len(g.ids)
               d == Len(h.ids)
    <2>1. /\ a \in Nat /\ b = (IF a < IdCache THEN a ELSE IdCache)
          /\ d = (IF b = IdCache THEN IdCache ELSE b + 1)
      BY <1>1, <1>12, <1>17
    <2> HIDE DEF a, b, d
    <2>2. /\ d = IF a + 1 < IdCache THEN a + 1 ELSE IdCache
          /\ d \in Nat /\ a + 1 - d + d = a + 1
          /\ \A k \in 1 .. d - 1 :
               LET m == IF b = IdCache THEN k + 1 ELSE k
               IN  /\ m \in 1 .. b /\ a - b + m = a + 1 - d + k
                   /\ a - b + m \in 1 .. a
      BY <2>1, NexusAssumption, OneMoreKept
    <2> QED BY <2>2 DEF a, b, d
  <1>19. \A k \in DOMAIN h.ids : h.ids[k] = sent[s][r[Len(r) - Len(h.ids) + k]]
    <2> SUFFICES ASSUME NEW k \in DOMAIN h.ids
                 PROVE  h.ids[k] = sent[s][r[Len(r) - Len(h.ids) + k]]
      OBVIOUS
    <2>0. Len(r) = Len(q) + 1 /\ k \in 1 .. Len(h.ids)
      BY <1>8, <1>17
    <2>1. CASE k = Len(h.ids)
      <3>1. Len(r) - Len(h.ids) + k = Len(q) + 1
        BY <1>18, <2>0, <2>1
      <3>2. r[Len(r) - Len(h.ids) + k] = n
        BY <1>8, <3>1, Zenon
      <3>3. h.ids[k] = id
        BY <1>17, <2>1, Zenon
      <3> QED BY <3>2, <3>3, Zenon DEF id
    <2>2. CASE k # Len(h.ids)
      <3> DEFINE m == IF Len(g.ids) = IdCache THEN k + 1 ELSE k
                 i == Len(q) - Len(g.ids) + m
      <3>1. k \in 1 .. Len(h.ids) - 1
        BY <2>0, <2>2, <1>18
      <3>2. m \in 1 .. Len(g.ids) /\ i = Len(q) + 1 - Len(h.ids) + k /\ i \in 1 .. Len(q)
        BY <1>18, <3>1
      <3>3. h.ids[k] = g.ids[m]
        BY <1>17, <3>1
      <3>4. g.ids[m] = sent[s][q[i]]
        <4> HIDE DEF m
        <4> QED BY <1>13, <3>2
      <3> HIDE DEF i
      <3>5. r[i] = q[i]
        BY <1>8, <3>2
      <3>6. i = Len(r) - Len(h.ids) + k
        BY <2>0, <3>2
      <3> QED BY <3>3, <3>4, <3>5, <3>6, Zenon
    <2> QED BY <2>1, <2>2
  <1>20. Once(Taking(s), s)'
    BY <1>5, <1>15 DEF Once
  <1>21. Remembers(s, ses[s], Taking(s))'
    <2>1. ses'[s] = h
      BY DEF h
    <2>2. Len(h.ids) = IF Len(r) < IdCache THEN Len(r) ELSE IdCache
      BY <1>8, <1>18
    <2> QED BY <1>5, <1>16, <1>19, <2>1, <2>2 DEF Remembers
  <1> QED BY <1>7, <1>20, <1>21 DEF Replay, q

\* What a session has read stays in what its client has sent.
LEMMA ReplaySent ==
  ASSUME Typed, NEW s \in Sessions, Replay(s), NEW id, UNCHANGED <<ses, accepted>>,
         sent' \in [Sessions -> Seq(Number)],
         sent'[s] = sent[s] \/ sent'[s] = Append(sent[s], id)
  PROVE  Replay(s)'
  <1>1. /\ DOMAIN sent[s] \subseteq DOMAIN sent'[s]
        /\ \A m \in DOMAIN sent[s] : sent'[s][m] = sent[s][m]
    <2>1. PICK t \in Seq(Number) : t = sent[s]
      BY DEF Typed
    <2>2. CASE sent'[s] = t
      BY <2>1, <2>2
    <2>3. CASE sent'[s] = Append(t, id)
      <3>1. DOMAIN t = 1 .. Len(t) /\ DOMAIN Append(t, id) = 1 .. Len(t) + 1 /\ Len(t) \in Nat
        OBVIOUS
      <3>2. \A m \in 1 .. Len(t) : Append(t, id)[m] = t[m]
        OBVIOUS
      <3> QED BY <2>1, <2>3, <3>1, <3>2
    <2> QED BY <2>1, <2>2, <2>3
  <1> DEFINE q == Taking(s)
             g == ses[s]
  <1>2. \A i \in DOMAIN q : q[i] \in DOMAIN sent[s]
    <2>1. CASE InHand(s)
      BY <2>1 DEF InHand, Reading, Replay, Remembers
    <2>2. CASE ~InHand(s)
      BY <2>2 DEF Taking, Replay
    <2> QED BY <2>1, <2>2
  <1>3. Taking(s)' = q /\ Reading(s)' = Reading(s) /\ ses'[s] = g
    BY DEF Taking, InHand, Reading
  <1>4. q \in Seq(Nat) /\ Len(q) \in Nat
    <2>1. accepted[s] \in Seq(Nat) /\ ses[s].cur \in Nat
      BY SessionTyped
    <2> QED BY <2>1 DEF Taking
  <1>5. g.ids \in Seq(Number) /\ Len(g.ids) \in Nat /\ DOMAIN g.ids = 1 .. Len(g.ids)
    BY SessionTyped
  <1> HIDE DEF q, g
  <1>6. Once(q, s)' 
    <2>1. Once(q, s)
      BY DEF q, Replay
    <2> SUFFICES ASSUME NEW i \in DOMAIN q, NEW j \in DOMAIN q, i < j
                 PROVE  /\ q[i] # q[j]
                        /\ q[j] + Window >= q[i]
                        /\ j <= i + IdCache => sent'[s][q[i]] # sent'[s][q[j]]
      BY <1>3 DEF Once, q
    <2> QED BY <1>1, <1>2, <2>1 DEF Once
  <1>7. ASSUME Reading(s) PROVE Remembers(s, g, q)'
    <2>1. Remembers(s, g, q)
      BY <1>7 DEF g, q, Replay
    <2>2. \A k \in DOMAIN g.ids : Len(q) - Len(g.ids) + k \in DOMAIN q
      <3>1. Len(g.ids) <= Len(q)
        BY <2>1, <1>4, NexusAssumption DEF Remembers
      <3> QED BY <1>4, <1>5, <3>1
    <2>3. q' = q /\ g' = g
      BY <1>3 DEF q, g
    <2> QED BY <1>1, <1>2, <2>1, <2>2, <2>3 DEF Remembers
  <1> QED BY <1>1, <1>3, <1>6, <1>7 DEF Replay, q, g

\* What a step of another thread, or of none, leaves of a session's reading.
LEMMA ReplayStands ==
  ASSUME Typed, NEW s \in Sessions, Replay(s), UNCHANGED <<sent[s], accepted[s]>>,
         \/ ses'[s].at \in {"end", "gone", "killed"}
         \/ /\ ses'[s].at = ses[s].at /\ ses'[s].inb = ses[s].inb
            /\ ses'[s].seen = ses[s].seen /\ ses'[s].ids = ses[s].ids
            /\ ses'[s].cur = ses[s].cur
  PROVE  Replay(s)'
  <1>1. CASE ses'[s].at \in {"end", "gone", "killed"}
    <2>1. ~Reading(s)' /\ Taking(s)' = accepted'[s]
      BY <1>1 DEF Reading, Taking, InHand
    <2> QED BY <2>1, ReplayKept DEF Replay
  <1>2. CASE /\ ses'[s].at = ses[s].at /\ ses'[s].inb = ses[s].inb
             /\ ses'[s].seen = ses[s].seen /\ ses'[s].ids = ses[s].ids
             /\ ses'[s].cur = ses[s].cur
    <2>1. Taking(s)' = Taking(s) /\ (Reading(s)' <=> Reading(s))
      BY <1>2 DEF Reading, Taking, InHand
    <2>2. ~Reading(s)' => Taking(s)' = accepted'[s]
      BY <2>1 DEF Taking, InHand, Reading
    <2> QED BY <1>2, <2>1, <2>2, ReplayKept DEF Replay
  <1> QED BY <1>1, <1>2

LEMMA StepReplay ==
  ASSUME Typed, ReplayInv, [Next]_vars
  PROVE  ReplayInv'
  <1> USE DEF ReplayInv
  <1>1. ASSUME NEW s \in Sessions, Moving(s) PROVE ReplayInv'
    <2>1. Follows(s)
      BY <1>1, MovingFollows
    <2>2. \A t \in Sessions \ {s} : ses'[t] = ses[t]
      BY <2>1 DEF Follows, Moved
    <2>3. UNCHANGED sent
      BY <1>1 DEF Moving, Connect, Create, RecordSession, RecordPeer, Loop, ReadFails, ReadEnds,
         CheckTrust, RevokeSession, RevokePeer, Refuse, Accept, Heartbeat, GoodbyeSession,
         GoodbyePeer, EndSession
    <2>4. \A t \in Sessions \ {s} : accepted'[t] = accepted[t]
      BY <1>1 DEF Moving, Connect, Create, RecordSession, RecordPeer, Loop, ReadFails, ReadEnds,
         CheckTrust, RevokeSession, RevokePeer, Refuse, Accept, Heartbeat, GoodbyeSession,
         GoodbyePeer, EndSession, RecordMessage, history, Typed
    <2>5. \A t \in Sessions \ {s} : Replay(t)'
      BY <2>2, <2>3, <2>4, ReplayStands
    <2>6. /\ ses'[s].inb = ses[s].inb /\ ses'[s].seen = ses[s].seen
          /\ ses'[s].ids = ses[s].ids /\ ses'[s].cur = ses[s].cur
      BY <2>1 DEF Follows, Moved
    <2>7. CASE At(s, "accept")
      <3>1. Reading(s) /\ Taking(s) = Append(accepted[s], ses[s].cur)
        BY <2>7 DEF At, Reading, Taking, InHand
      <3>2. ses'[s].at \in {"end", "beat"}
        BY <2>1, <2>7 DEF Follows, Moved, At
      <3>3. Taking(s)' = accepted'[s]
        BY <3>2 DEF Taking, InHand
      <3>4. Accept(s) \/ Refuse(s)
        BY <1>1, <2>7 DEF Moving, At, Connect, Create, RecordSession, RecordPeer, Loop, ReadFails,
           ReadEnds, CheckTrust, RevokeSession, RevokePeer, Heartbeat, GoodbyeSession,
           GoodbyePeer, EndSession
      <3>5. CASE Accept(s)
        <4>1. accepted'[s] = Taking(s)
          BY <3>1, <3>5 DEF Accept, RecordMessage, Typed
        <4>2. \A i \in DOMAIN Taking(s) : Taking(s)[i] \in DOMAIN sent[s]
          BY <3>1 DEF Replay, Remembers
        <4> QED BY <2>3, <2>5, <2>6, <3>1, <3>3, <4>1, <4>2, ReplayKept
      <3>6. CASE Refuse(s)
        <4>1. accepted' = accepted
          BY <3>6 DEF Refuse, history
        <4>2. ses'[s].at = "end"
          <5>1. Moved(s, {"end"})
            BY <3>6, CloseMoves DEF Refuse, Fail, Place
          <5> QED BY <5>1 DEF Moved
        <4> QED BY <2>3, <2>5, <4>1, <4>2, ReplayStands
      <3> QED BY <3>4, <3>5, <3>6
    <2>8. CASE ~At(s, "accept")
      <3>1. accepted' = accepted
        BY <1>1, <2>8 DEF Moving, Connect, Create, RecordSession, RecordPeer, Loop, ReadFails,
           ReadEnds, CheckTrust, RevokeSession, RevokePeer, Refuse, Accept, Heartbeat,
           GoodbyeSession, GoodbyePeer, EndSession, history
      <3>2. Reading(s)' => Reading(s) /\ (InHand(s)' <=> InHand(s))
        BY <2>1, <2>8 DEF Follows, Moved, At, Reading, InHand
      <3>3. InHand(s)' => Reading(s)'
        BY DEF InHand, Reading
      <3> QED BY <2>3, <2>5, <2>6, <3>1, <3>2, <3>3, ReplayKept DEF Taking, Replay
    <2> QED BY <2>7, <2>8
  <1>2. ASSUME NEW s \in Sessions, NEW n \in Number, ReadFrame(s, n) PROVE ReplayInv'
    <2>1. UNCHANGED <<sent, accepted>>
      BY <1>2 DEF ReadFrame, history
    <2>2. CASE Takes(s, n)
      <3>1. \A t \in Sessions \ {s} : ses'[t] = ses[t]
        BY <2>2, TakesSets
      <3>2. \A t \in Sessions \ {s} : Replay(t)'
        BY <2>1, <3>1, ReplayStands
      <3> QED BY <2>1, <2>2, <3>2, ReplayTaken
    <2>3. CASE Moved(s, {"end"})
      <3>1. ses'[s].at = "end" /\ \A t \in Sessions \ {s} : ses'[t] = ses[t]
        BY <2>3 DEF Moved
      <3> QED BY <2>1, <3>1, ReplayStands
    <2> QED BY <1>2, <2>2, <2>3, ReadFrameTakes
  <1>3. ASSUME NEW s \in Sessions, EndPeer(s) \/ DbFails(s) PROVE ReplayInv'
    <2>1. /\ ses'[s].at \in {"end", "gone", "killed"}
          /\ \A t \in Sessions \ {s} : ses'[t] = ses[t]
      <3>1. CASE Fail(s)
        <4>1. Moved(s, {"end"})
          BY <3>1, CloseMoves DEF Fail, Place
        <4> QED BY <4>1 DEF Moved
      <3>2. ASSUME NEW place \in {"gone", "killed"}, ses' = [ses EXCEPT ![s] = Left(place)]
            PROVE  /\ ses'[s].at \in {"end", "gone", "killed"}
                   /\ \A t \in Sessions \ {s} : ses'[t] = ses[t]
        <4>1. ses'[s].at = place /\ \A t \in Sessions \ {s} : ses'[t] = ses[t]
          BY <3>2, LeftIsThread, ThreadSet DEF Place
        <4> QED BY <4>1
      <3> QED BY <1>3, <3>1, <3>2 DEF EndPeer, DbFails
    <2>2. UNCHANGED <<sent, accepted>>
      BY <1>3 DEF EndPeer, DbFails, history
    <2> QED BY <2>1, <2>2, ReplayStands
  <1>4. CASE Stop \/ Crash
    <2>1. UNCHANGED <<sent, accepted>>
      BY <1>4 DEF Stop, Crash, history
    <2> SUFFICES ASSUME NEW s \in Sessions PROVE Replay(s)'
      OBVIOUS
    <2>2. ses[s] \in Thread /\ Left("killed").at = "killed"
      BY LeftIsThread DEF Typed, Place
    <2> DEFINE q == [ses[s] EXCEPT !.mem = "DISCONNECTED"]
    <2>3. /\ q.at = ses[s].at /\ q.inb = ses[s].inb /\ q.seen = ses[s].seen
          /\ q.ids = ses[s].ids /\ q.cur = ses[s].cur
      BY <2>2 DEF Thread
    <2>4. ses'[s] \in {ses[s], q, Left("killed")}
      BY <1>4 DEF Stop, Crash
    <2> HIDE DEF q
    <2> QED BY <2>1, <2>2, <2>3, <2>4, ReplayStands
  <1>5. ASSUME NEW s \in Sessions, Send(s) PROVE ReplayInv'
    <2>1. UNCHANGED <<ses, accepted>>
      BY <1>5 DEF Send, history
    <2>2. sent' \in [Sessions -> Seq(Number)]
      BY <1>5, StepTyped DEF Next, ClientStep, Typed
    <2>3. PICK id : sent' = [sent EXCEPT ![s] = Append(sent[s], id)]
      BY <1>5 DEF Send
    <2>4. \A t \in Sessions : sent'[t] = sent[t] \/ sent'[t] = Append(sent[t], id)
      BY <2>3 DEF Typed
    <2> QED BY <2>1, <2>2, <2>4, ReplaySent
  <1>6. UNCHANGED <<ses, sent, accepted>> => ReplayInv'
    BY ReplayStands
  <1>7. CASE Start \/ RevokeTrust \/ EstablishTrust \/ TransportDisconnect \/ UNCHANGED vars
    BY <1>6, <1>7 DEF Start, RevokeTrust, EstablishTrust, TransportDisconnect, FindSession,
       DisconnectSession, DisconnectPeer, history, vars
  <1>10. ASSUME NEW s \in Sessions, ClientStep(s) \/ ThreadStep(s) PROVE ReplayInv'
    BY <1>1, <1>2, <1>3, <1>5, <1>10 DEF ClientStep, ThreadStep, Moving
  <1>11. CASE Next
    BY <1>4, <1>7, <1>10, <1>11, Zenon DEF Next
  <1> QED BY <1>7, <1>11

-----------------------------------------------------------------------------
IInv == Typed /\ LateInv /\ GhostInv /\ ReplayInv

LEMMA InitHolds ==
  ASSUME Init PROVE IInv
  <1>1. NoSession \in Thread /\ NoSession.at = "none" /\ NoSession.ids = <<>>
    <2>1. Left("none") = NoSession
      BY DEF Left, NoSession
    <2> QED BY <2>1, LeftIsThread DEF Place
  <1>2. \A s \in Sessions : /\ ses[s] = NoSession /\ sent[s] = <<>> /\ accepted[s] = <<>>
                            /\ late[s] = 0 /\ sessRow[s] = "none"
    BY DEF Init
  <1>3. <<>> \in Seq(Number) /\ Len(<<>>) = 0 /\ DOMAIN <<>> = {}
    OBVIOUS
  <1>4. Typed
    <2>1. /\ ses \in [Sessions -> Thread] /\ sessRow \in [Sessions -> ConnectionState]
          /\ sent \in [Sessions -> Seq(Number)] /\ accepted \in [Sessions -> Seq(Number)]
          /\ late \in [Sessions -> Nat]
      BY <1>1, <1>3, StatesAreStates DEF Init
    <2>2. \A s \in Sessions : /\ Len(ses[s].ids) <= IdCache /\ Len(sent[s]) <= MaxFrames
                              /\ ses[s].at = "none"
      <3>1. IdCache >= 0 /\ MaxFrames >= 0
        BY NexusAssumption
      <3>2. \A s \in Sessions : Len(ses[s].ids) = 0 /\ Len(sent[s]) = 0
        BY <1>1, <1>2, <1>3
      <3> QED BY <1>1, <1>2, <3>1, <3>2
    <2> QED BY <2>1, <2>2, StatesAreStates DEF Init, Typed
  <1>5. LateInv
    <2>1. trusted
      BY DEF Init
    <2>2. \A s \in Sessions : late[s] <= 1 /\ late[s] = 0
      <3>1. \A s \in Sessions : late[s] = 0
        BY <1>2
      <3>2. 0 <= 1
        OBVIOUS
      <3> QED BY <3>1, <3>2, Zenon
    <2> QED BY <2>1, <2>2, Zenon DEF LateInv
  <1>6. GhostInv
    BY <1>2 DEF Init, GhostInv, NoGhostConnection
  <1>7. ReplayInv
    <2> SUFFICES ASSUME NEW s \in Sessions PROVE Replay(s)
      BY DEF ReplayInv
    <2>1. Taking(s) = <<>>
      BY <1>1, <1>2 DEF Taking, InHand
    <2>2. Once(<<>>, s) /\ Remembers(s, ses[s], <<>>)
      BY <1>1, <1>2, <1>3, NexusAssumption DEF Once, Remembers
    <2> QED BY <1>2, <1>3, <2>1, <2>2 DEF Replay
  <1> QED BY <1>4, <1>5, <1>6, <1>7 DEF IInv

LEMMA Inductive == Spec => []IInv
  <1>1. Init => IInv
    BY InitHolds
  <1>2. IInv /\ [Next]_vars => IInv'
    BY StepTyped, StepLate, StepGhost, StepReplay DEF IInv
  <1> QED BY <1>1, <1>2, PTL DEF Spec

\* Every variable of the transport keeps its type: the memory a session needs for
\* its guard stays within the window and the cache (session.py 103-163).
THEOREM NexusTypeCorrect == Spec => []TypeOK
  <1>1. IInv => TypeOK
    BY DEF IInv, Typed, Thread, TypeOK
  <1> QED BY <1>1, Inductive, PTL

\* For any window and any cache: no frame, none that lags by more than the window
\* and no message within the cache's reach is accepted a second time in a session
\* (docs/TRANSPORT.md 56, session.py 103-163).
THEOREM NoReplayAccepted == Spec => []AcceptedOnce
  <1>1. IInv => AcceptedOnce
    <2> SUFFICES ASSUME IInv, NEW s \in Sessions PROVE Once(accepted[s], s)
      BY DEF AcceptedOnce, Once
    <2> QED BY TakingCovers DEF IInv, ReplayInv, Replay
  <1> QED BY <1>1, Inductive, PTL

\* For any number of connections: each gets one message past a revocation at most
\* (docs/SECURITY.md 38, router.py 78-105, 123-135).
THEOREM RevokedIsRejected == Spec => []OneLateMessage
  <1>1. IInv => OneLateMessage
    BY DEF IInv, LateInv, OneLateMessage
  <1> QED BY <1>1, Inductive, PTL

\* For any number of connections of one peer: nothing stays CONNECTED behind the
\* last thread at work (server.py 394-409).
THEOREM NothingStaysConnected == Spec => []NoGhostConnection
  <1>1. IInv => NoGhostConnection
    BY DEF IInv, GhostInv
  <1> QED BY <1>1, Inductive, PTL

-----------------------------------------------------------------------------
(* What StopDrains rests on: a stopped server's threads only go on.        *)

\* How far a thread of a stopped server is from its end.
Ahead(place) ==
  CASE place = "create" -> 13 [] place = "record" -> 12 [] place = "peer" -> 11
    [] place = "read" -> 10 [] place = "check" -> 9 [] place = "revoke" -> 8
    [] place = "revokePeer" -> 7 [] place = "accept" -> 7 [] place = "beat" -> 6
    [] place = "bye" -> 5 [] place = "byePeer" -> 4 [] place = "loop" -> 3
    [] place = "end" -> 2 [] place = "endPeer" -> 1 [] OTHER -> 0

GoesOn(s) == Ahead(ses'[s].at) < Ahead(ses[s].at)

WindsDown ==
  ~running /\ ~running' =>
    \A s \in Sessions : /\ ses'[s] = ses[s] \/ GoesOn(s)
                        /\ ThreadStep(s) => GoesOn(s)

ThreadsWindDown == [][WindsDown]_vars

LEMMA AheadIs ==
  /\ Ahead("create") = 13 /\ Ahead("record") = 12 /\ Ahead("peer") = 11 /\ Ahead("read") = 10
  /\ Ahead("check") = 9 /\ Ahead("revoke") = 8 /\ Ahead("revokePeer") = 7
  /\ Ahead("accept") = 7 /\ Ahead("beat") = 6 /\ Ahead("bye") = 5 /\ Ahead("byePeer") = 4
  /\ Ahead("loop") = 3 /\ Ahead("end") = 2 /\ Ahead("endPeer") = 1
  /\ Ahead("gone") = 0 /\ Ahead("killed") = 0 /\ Ahead("none") = 0
BY DEF Ahead

\* A thread that leaves, normally or not, is at its end.
LEMMA LeavingGoesOn ==
  ASSUME Typed, NEW s \in Sessions, ses[s].at \in {"end", "endPeer"},
         NEW place \in {"gone", "killed"}, ses' = [ses EXCEPT ![s] = Left(place)]
  PROVE  GoesOn(s) /\ \A t \in Sessions \ {s} : ses'[t] = ses[t]
<1>1. Left(place) \in Thread /\ Left(place).at = place
  BY LeftIsThread DEF Place
<1>2. ses'[s] = Left(place) /\ \A t \in Sessions \ {s} : ses'[t] = ses[t]
  BY <1>1, ThreadSet
<1>3. ses'[s].at = place
  BY <1>1, <1>2
<1> QED BY <1>2, <1>3, AheadIs DEF GoesOn

\* One step of a thread, whoever asked for it.
LEMMA StepGoesOn ==
  ASSUME Typed, ~running, NEW s \in Sessions,
         ThreadStep(s) \/ ReadEnds(s) \/ \E n \in Number : ReadFrame(s, n)
  PROVE  GoesOn(s) /\ \A t \in Sessions \ {s} : ses'[t] = ses[t]
<1>1. ASSUME NEW places, Moved(s, places),
             \A place \in places : Ahead(place) < Ahead(ses[s].at)
      PROVE  GoesOn(s) /\ \A t \in Sessions \ {s} : ses'[t] = ses[t]
  BY <1>1 DEF Moved, GoesOn
<1>2. CASE Loop(s)
  <2>1. Moved(s, {"end"}) /\ ses[s].at = "loop"
    BY <1>2, GotoMoves DEF Loop, At, Place
  <2> QED BY <1>1, <2>1, AheadIs
<1>3. CASE Moving(s) /\ ~Connect(s) /\ ~Loop(s)
  <2>1. Follows(s)
    BY <1>3, MovingFollows
  <2>2. ses[s].at \notin {"none", "loop"}
    BY <1>3 DEF Moving, Create, RecordSession, RecordPeer, ReadFails, ReadEnds, CheckTrust,
                RevokeSession, RevokePeer, Refuse, Accept, Heartbeat, GoodbyeSession,
                GoodbyePeer, EndSession, At
  <2>3. PICK places : /\ Moved(s, places)
                      /\ \A place \in places : Ahead(place) < Ahead(ses[s].at)
    <3>1. CASE ses[s].at \in {"create", "record", "peer", "read"}
      BY <2>1, <3>1, AheadIs DEF Follows, At
    <3>2. CASE ses[s].at = "check"
      <4>1. Moved(s, IF trusted THEN {"accept"} ELSE {"revoke"})
        BY <2>1, <3>2 DEF Follows, At
      <4>2. CASE trusted
        BY <3>2, <4>1, <4>2, AheadIs
      <4>3. CASE ~trusted
        BY <3>2, <4>1, <4>3, AheadIs
      <4> QED BY <4>2, <4>3
    <3>3. CASE ses[s].at \in {"revoke", "revokePeer", "accept", "beat"}
      BY <2>1, <3>3, AheadIs DEF Follows, At
    <3>4. CASE ses[s].at \in {"bye", "byePeer", "end"}
      BY <2>1, <3>4, AheadIs DEF Follows, At
    <3> QED BY <2>1, <2>2, <3>1, <3>2, <3>3, <3>4 DEF Follows, At
  <2> QED BY <1>1, <2>3
<1>4. ASSUME NEW n \in Number, ReadFrame(s, n)
      PROVE  GoesOn(s) /\ \A t \in Sessions \ {s} : ses'[t] = ses[t]
  <2>1. CASE At(s, "read") /\ Moved(s, {"end"})
    BY <1>1, <2>1, AheadIs DEF At
  <2>2. CASE Takes(s, n)
    <3>1. /\ ses[s].at = "read" /\ ses'[s] = Taken(s, n)
          /\ \A t \in Sessions \ {s} : ses'[t] = ses[t]
      BY <2>2, TakesSets DEF Takes, At
    <3>2. Taken(s, n).at = "check"
      BY <2>2, TakenTyped DEF Takes
    <3> QED BY <3>1, <3>2, AheadIs DEF GoesOn
  <2> QED BY <1>4, <2>1, <2>2, ReadFrameTakes
<1>5. CASE EndPeer(s)
  BY <1>5, LeavingGoesOn DEF EndPeer, At
<1>6. CASE DbFails(s)
  <2>1. CASE ses[s].at \in {"end", "endPeer"}
    <3>1. ses' = [ses EXCEPT ![s] = Left("killed")]
      BY <1>6, <2>1 DEF DbFails
    <3> QED BY <2>1, <3>1, LeavingGoesOn
  <2>2. CASE ses[s].at \notin {"end", "endPeer"}
    <3>1. /\ ses[s].at \in {"record", "peer", "check", "accept", "beat",
                            "revoke", "revokePeer", "bye", "byePeer"}
          /\ Fail(s)
      BY <1>6, <2>2 DEF DbFails
    <3>2. Moved(s, {"end"})
      BY <3>1, CloseMoves DEF Fail, Place
    <3> QED BY <1>1, <3>1, <3>2, AheadIs
  <2> QED BY <2>1, <2>2
<1>7. ReadEnds(s) => Moving(s)
  BY DEF Moving
<1>8. ThreadStep(s) => Moving(s) \/ EndPeer(s) \/ DbFails(s)
  BY DEF ThreadStep, Moving
<1>9. ~Connect(s)
  BY DEF Connect
<1> QED BY <1>2, <1>3, <1>4, <1>5, <1>6, <1>7, <1>8, <1>9

LEMMA StepWindsDown == Typed /\ [Next]_vars => [WindsDown]_vars
<1> SUFFICES ASSUME Typed, Next, ~running, ~running' PROVE WindsDown
  BY DEF WindsDown, vars
<1>0. ASSUME NEW s \in Sessions, ThreadStep(s) PROVE GoesOn(s)
  BY <1>0, StepGoesOn
<1>1. ASSUME NEW s \in Sessions, NEW t \in Sessions, ClientStep(s) \/ ThreadStep(s)
      PROVE  ses'[t] = ses[t] \/ GoesOn(t)
  <2>1. CASE ThreadStep(s) \/ ReadEnds(s) \/ \E n \in Number : ReadFrame(s, n)
    <3>1. GoesOn(s) /\ \A u \in Sessions \ {s} : ses'[u] = ses[u]
      BY <2>1, StepGoesOn
    <3> QED BY <3>1
  <2>2. CASE Connect(s) \/ Send(s)
    BY <2>2 DEF Connect, Send
  <2> QED BY <1>1, <2>1, <2>2 DEF ClientStep
<1>2. ASSUME NEW t \in Sessions, Crash PROVE ses'[t] = ses[t] \/ GoesOn(t)
  <2>1. CASE ses[t].at \in {"none", "gone", "killed"}
    BY <1>2, <2>1 DEF Crash
  <2>2. CASE ses[t].at \notin {"none", "gone", "killed"}
    <3>1. ses'[t] = Left("killed") /\ ses[t].at \in Place
      BY <1>2, <2>2 DEF Crash, Typed, Thread
    <3>2. ses'[t].at = "killed"
      BY <3>1, LeftIsThread DEF Place
    <3>3. Ahead(ses[t].at) > 0
      BY <2>2, <3>1, AheadIs DEF Place
    <3> QED BY <3>2, <3>3, AheadIs DEF GoesOn
  <2> QED BY <2>1, <2>2
<1>3. ASSUME NEW t \in Sessions, Stop \/ Start \/ TransportDisconnect \/ RevokeTrust \/ EstablishTrust
      PROVE  ses'[t] = ses[t]
  BY <1>3 DEF Stop, Start, TransportDisconnect, FindSession, DisconnectSession, DisconnectPeer,
              RevokeTrust, EstablishTrust
<1>4. ASSUME NEW t \in Sessions PROVE ses'[t] = ses[t] \/ GoesOn(t)
  BY <1>1, <1>2, <1>3, <1>4, Zenon DEF Next
<1> QED BY <1>0, <1>4 DEF WindsDown

\* Each step of a thread of a stopped server brings it nearer to its end, and nothing
\* that others do, clients included, takes it back: it handles the frame it has read,
\* finds the loop's condition false and cleans up (server.py 363-409, 411-429).  There
\* are at most thirteen such steps.
THEOREM StoppedThreadsEnd == Spec => ThreadsWindDown
<1>1. IInv /\ [Next]_vars => [WindsDown]_vars
  BY StepWindsDown DEF IInv
<1> QED BY <1>1, Inductive, PTL DEF Spec, ThreadsWindDown
=============================================================================
