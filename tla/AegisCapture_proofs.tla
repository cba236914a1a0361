------------------------ MODULE AegisCapture_proofs ------------------------
(*****************************************************************************)
(* Proofs about AegisCapture, then about FrameBuffer.                        *)
(*                                                                           *)
(* AegisInv: ConsentIsFresh is not inductive by itself, as granting a record *)
(*   adds the screen that record was asked for; the deciding record of a     *)
(*   screen has to be one asked for that screen (DecidesForItself).          *)
(* BufferInv: what was delivered and what waits are places in the sequence of*)
(*   accepted frames, and what waits is its end unless frames are refused.   *)
(*****************************************************************************)
EXTENDS AegisCapture, FrameBuffer, SequenceTheorems, TLAPS

\* The deciding record of a screen session exists and was asked for it.
DecidesForItself ==
  \A s \in ScreenSessions :
    bySession[s] # 0 => /\ bySession[s] \in DOMAIN records
                        /\ Newest(s).screen = s

AegisInv == AegisTypeOK /\ DecidesForItself /\ ConsentIsFresh

-----------------------------------------------------------------------------
(* Sequences changed in place.                                             *)

\* Replacing an element by another of the set keeps the length and the others.
LEMMA ReplacedElement ==
  ASSUME NEW S, NEW q \in Seq(S), NEW i \in DOMAIN q, NEW e \in S,
         NEW r, r = [q EXCEPT ![i] = e]
  PROVE  /\ r \in Seq(S) /\ Len(r) = Len(q) /\ DOMAIN r = DOMAIN q
         /\ r[i] = e
         /\ \A j \in DOMAIN q : j # i => r[j] = q[j]
  OBVIOUS

\* Replacing every element keeps the length.
LEMMA ReplacedElements ==
  ASSUME NEW S, NEW q \in Seq(S), NEW r, DOMAIN r = DOMAIN q,
         r = [j \in DOMAIN q |-> r[j]], \A j \in DOMAIN q : r[j] \in S
  PROVE  r \in Seq(S) /\ Len(r) = Len(q)
  <1>1. DOMAIN q = 1 .. Len(q) /\ Len(q) \in Nat
    OBVIOUS
  <1>2. r \in [1 .. Len(q) -> S]
    BY <1>1
  <1> QED BY <1>1, <1>2

-----------------------------------------------------------------------------
(* Type correctness.                                                       *)

LEMMA CreatedTyped ==
  ASSUME AegisTypeOK, NEW c \in Created
  PROVE  /\ sessions[c] \in AegisSessionInfo
         /\ sessions[c].screen \in ScreenSessions
         /\ c \in Captures
  <1>1. sessions[c] \in AegisSessionInfo /\ c \in 1 .. Len(sessions)
    BY DEF AegisTypeOK, Created
  <1>2. c \in Captures
    BY <1>1, AegisAssumption DEF AegisTypeOK, Captures
  <1> QED BY <1>1, <1>2 DEF AegisSessionInfo

LEMMA StateChanged ==
  ASSUME AegisTypeOK, NEW c \in Created, NEW st \in AegisSessionState, SetState(c, st)
  PROVE  sessions' \in Seq(AegisSessionInfo) /\ Len(sessions') <= MaxCaptures
  <1>1. sessions[c] \in AegisSessionInfo
    BY DEF AegisTypeOK, Created
  <1>2. [sessions[c] EXCEPT !.state = st] \in AegisSessionInfo
    BY <1>1 DEF AegisSessionInfo
  <1>3. sessions' = [sessions EXCEPT ![c] = [sessions[c] EXCEPT !.state = st]]
    BY DEF SetState
  <1> QED BY <1>2, <1>3, ReplacedElement DEF AegisTypeOK, Created

LEMMA RecordChanged ==
  ASSUME AegisTypeOK, NEW t \in DOMAIN records, NEW st \in SystemConsentState,
         records' = [records EXCEPT ![t].state = st]
  PROVE  /\ records' \in Seq(SystemConsentRecord)
         /\ Len(records') = Len(records)
         /\ DOMAIN records' = DOMAIN records
         /\ records'[t].state = st
         /\ \A u \in DOMAIN records : /\ records'[u].screen = records[u].screen
                                      /\ u # t => records'[u] = records[u]
  <1>1. records[t] \in SystemConsentRecord
    BY DEF AegisTypeOK
  <1> DEFINE e == [records[t] EXCEPT !.state = st]
  <1>2. e \in SystemConsentRecord /\ e.state = st /\ e.screen = records[t].screen
    BY <1>1 DEF SystemConsentRecord
  <1>3. records' = [records EXCEPT ![t] = e]
    OBVIOUS
  <1> HIDE DEF e
  <1>4. /\ records' \in Seq(SystemConsentRecord)
        /\ Len(records') = Len(records)
        /\ DOMAIN records' = DOMAIN records
        /\ records'[t] = e
        /\ \A u \in DOMAIN records : u # t => records'[u] = records[u]
    <2>1. records \in Seq(SystemConsentRecord)
      BY DEF AegisTypeOK
    <2> QED BY ONLY <2>1, <1>2, <1>3, t \in DOMAIN records, ReplacedElement
  <1> QED BY <1>2, <1>4

LEMMA RecordsChanged ==
  ASSUME AegisTypeOK, NEW ts, NEW st \in SystemConsentState,
         records' = [t \in DOMAIN records |->
           IF t \in ts THEN [records[t] EXCEPT !.state = st] ELSE records[t]]
  PROVE  /\ records' \in Seq(SystemConsentRecord)
         /\ Len(records') = Len(records)
         /\ DOMAIN records' = DOMAIN records
         /\ \A u \in DOMAIN records : /\ records'[u].screen = records[u].screen
                                      /\ u \in ts => records'[u].state = st
                                      /\ u \notin ts => records'[u] = records[u]
  <1>1. \A t \in DOMAIN records : records[t] \in SystemConsentRecord
    BY DEF AegisTypeOK
  <1>2. \A t \in DOMAIN records : records'[t] \in SystemConsentRecord
    <2> SUFFICES ASSUME NEW t \in DOMAIN records
                 PROVE  records'[t] \in SystemConsentRecord
      OBVIOUS
    <2>1. [records[t] EXCEPT !.state = st] \in SystemConsentRecord
      BY <1>1 DEF SystemConsentRecord
    <2> QED BY <1>1, <2>1
  <1>3. DOMAIN records' = DOMAIN records
    OBVIOUS
  <1>4. records' = [t \in DOMAIN records |-> records'[t]]
    OBVIOUS
  <1>5. records' \in Seq(SystemConsentRecord) /\ Len(records') = Len(records)
    <2>1. records \in Seq(SystemConsentRecord)
      BY DEF AegisTypeOK
    <2> QED BY ONLY <2>1, <1>2, <1>3, <1>4, ReplacedElements
  <1>6. \A u \in DOMAIN records : /\ records'[u].screen = records[u].screen
                                  /\ u \in ts => records'[u].state = st
                                  /\ u \notin ts => records'[u] = records[u]
    <2> SUFFICES ASSUME NEW u \in DOMAIN records
                 PROVE  /\ records'[u].screen = records[u].screen
                        /\ u \in ts => records'[u].state = st
                        /\ u \notin ts => records'[u] = records[u]
      OBVIOUS
    <2>1. CASE u \in ts
      <3>1. records'[u] = [records[u] EXCEPT !.state = st]
        BY <2>1
      <3> QED BY <1>1, <2>1, <3>1 DEF SystemConsentRecord
    <2>2. CASE u \notin ts
      <3>1. records'[u] = records[u]
        BY <2>2
      <3> QED BY <2>2, <3>1
    <2> QED BY <2>1, <2>2
  <1> QED BY <1>3, <1>5, <1>6

LEMMA PipesStopped ==
  ASSUME AegisTypeOK, NEW ps,
         pipes' = [p \in DOMAIN pipes |-> IF p \in ps THEN StoppedPipe(p) ELSE pipes[p]]
  PROVE  pipes' \in Seq(Pipeline) /\ Len(pipes') <= MaxPipelines
  <1>1. \A p \in DOMAIN pipes : pipes[p] \in Pipeline
    BY DEF AegisTypeOK
  <1>2. \A p \in DOMAIN pipes : StoppedPipe(p) \in Pipeline
    <2> SUFFICES ASSUME NEW p \in DOMAIN pipes
                 PROVE  StoppedPipe(p) \in Pipeline
      OBVIOUS
    <2>1. <<>> \in Seq(Nat \ {0})
      OBVIOUS
    <2> QED BY <1>1, <2>1 DEF StoppedPipe, Pipeline
  <1>3. \A p \in DOMAIN pipes : pipes'[p] \in Pipeline
    BY <1>1, <1>2
  <1>4. DOMAIN pipes' = DOMAIN pipes /\ pipes' = [p \in DOMAIN pipes |-> pipes'[p]]
    OBVIOUS
  <1>5. pipes' \in Seq(Pipeline) /\ Len(pipes') = Len(pipes)
    <2>1. pipes \in Seq(Pipeline)
      BY DEF AegisTypeOK
    <2> QED BY <1>3, <1>4, <2>1, ReplacedElements
  <1> QED BY <1>5 DEF AegisTypeOK

LEMMA PipeChanged ==
  ASSUME AegisTypeOK, NEW p \in DOMAIN pipes, NEW q \in Pipeline,
         pipes' = [pipes EXCEPT ![p] = q]
  PROVE  /\ pipes' \in Seq(Pipeline) /\ Len(pipes') <= MaxPipelines
         /\ DOMAIN pipes' = DOMAIN pipes
         /\ pipes'[p] = q
         /\ \A u \in DOMAIN pipes : u # p => pipes'[u] = pipes[u]
  BY ReplacedElement DEF AegisTypeOK

\* What TearDown leaves typed.
LEMMA TornDown ==
  ASSUME AegisTypeOK, NEW cs, TearDown(cs)
  PROVE  /\ records' \in Seq(SystemConsentRecord) /\ Len(records') <= MaxTokens
         /\ pipes' \in Seq(Pipeline) /\ Len(pipes') <= MaxPipelines
         /\ registered' \in [Captures -> 0 .. MaxPipelines]
         /\ projecting' \in BOOLEAN
         /\ indicator' \in 0 .. MaxCaptures
         /\ consented' \subseteq ScreenSessions
         /\ UNCHANGED <<android, lapsed, bySession>>
  <1>1. records' \in Seq(SystemConsentRecord) /\ Len(records') <= MaxTokens
    <2>1. "REVOKED" \in SystemConsentState
      BY DEF SystemConsentState
    <2> QED BY <2>1, RecordsChanged DEF TearDown, WithdrawConsent, AegisTypeOK
  <1>2. pipes' \in Seq(Pipeline) /\ Len(pipes') <= MaxPipelines
    BY PipesStopped DEF TearDown
  <1>3. registered' \in [Captures -> 0 .. MaxPipelines]
    BY AegisAssumption DEF TearDown, Unregister, AegisTypeOK
  <1>4. consented' \subseteq ScreenSessions
    BY DEF TearDown, WithdrawConsent, AegisTypeOK
  <1> QED BY <1>1, <1>2, <1>3, <1>4, AegisAssumption DEF TearDown, AegisTypeOK

LEMMA StepTyped ==
  ASSUME AegisTypeOK, [AegisNext]_aegisVars
  PROVE  AegisTypeOK'
  <1>1. ASSUME NEW s \in ScreenSessions, CreateSession(s) PROVE AegisTypeOK'
    <2>1. [screen |-> s, state |-> "INITIALIZED"] \in AegisSessionInfo
      BY DEF AegisSessionInfo, AegisSessionState
    <2>2. sessions' \in Seq(AegisSessionInfo) /\ Len(sessions') <= MaxCaptures
      BY <1>1, <2>1 DEF CreateSession, AegisTypeOK
    <2> QED BY <1>1, <2>2 DEF CreateSession, AegisTypeOK
  <1>2. ASSUME NEW c \in Created, RequestSystemConsent(c) PROVE AegisTypeOK'
    <2>1. sessions' \in Seq(AegisSessionInfo) /\ Len(sessions') <= MaxCaptures
      BY <1>2, StateChanged DEF RequestSystemConsent, AegisSessionState
    <2>2. c \in Captures /\ sessions[c].screen \in ScreenSessions
      BY CreatedTyped
    <2> DEFINE r == [screen |-> sessions[c].screen, askedBy |-> c, state |-> "REQUESTED"]
    <2>3. r \in SystemConsentRecord
      BY <2>2 DEF SystemConsentRecord, SystemConsentState
    <2>4. CASE UNCHANGED <<records, bySession>>
      BY <1>2, <2>1, <2>4 DEF RequestSystemConsent, AegisTypeOK
    <2>5. CASE /\ Len(records) < MaxTokens
               /\ records' = Append(records, r)
               /\ bySession' = [bySession EXCEPT ![sessions[c].screen] = Len(records) + 1]
      <3>1. records' \in Seq(SystemConsentRecord) /\ Len(records') <= MaxTokens
        BY <2>3, <2>5, AegisAssumption DEF AegisTypeOK
      <3>2. Len(records) + 1 \in 0 .. MaxTokens
        BY <2>5, AegisAssumption DEF AegisTypeOK
      <3>3. bySession' \in [ScreenSessions -> 0 .. MaxTokens]
        BY <2>2, <2>5, <3>2 DEF AegisTypeOK
      <3> QED BY <1>2, <2>1, <3>1, <3>3 DEF RequestSystemConsent, AegisTypeOK
    <2> QED BY <1>2, <2>4, <2>5 DEF RequestSystemConsent, Ask
  <1>3. ASSUME NEW c \in Created, NEW t \in DOMAIN records, GrantSystemConsent(c, t)
        PROVE  AegisTypeOK'
    <2>1. sessions' \in Seq(AegisSessionInfo) /\ Len(sessions') <= MaxCaptures
      BY <1>3, StateChanged DEF GrantSystemConsent, AegisSessionState
    <2>2. records' \in Seq(SystemConsentRecord) /\ Len(records') <= MaxTokens
      BY <1>3, RecordChanged DEF GrantSystemConsent, SystemConsentState, AegisTypeOK
    <2>3. records[t].screen \in ScreenSessions
      <3>1. records[t] \in SystemConsentRecord
        BY DEF AegisTypeOK
      <3> QED BY <3>1 DEF SystemConsentRecord
    <2> QED BY <1>3, <2>1, <2>2, <2>3 DEF GrantSystemConsent, AegisTypeOK
  <1>4. ASSUME NEW c \in Created, NEW t \in DOMAIN records, DenySystemConsent(c, t)
        PROVE  AegisTypeOK'
    <2>1. sessions' \in Seq(AegisSessionInfo) /\ Len(sessions') <= MaxCaptures
      BY <1>4, StateChanged DEF DenySystemConsent, AegisSessionState
    <2>2. records' \in Seq(SystemConsentRecord) /\ Len(records') <= MaxTokens
      BY <1>4, RecordChanged DEF DenySystemConsent, SystemConsentState, AegisTypeOK
    <2> QED BY <1>4, <2>1, <2>2 DEF DenySystemConsent, AegisTypeOK
  <1>5. ASSUME NEW t \in DOMAIN records, RevokeConsent(t) PROVE AegisTypeOK'
    <2>2. records' \in Seq(SystemConsentRecord) /\ Len(records') <= MaxTokens
      BY <1>5, RecordChanged DEF RevokeConsent, SystemConsentState, AegisTypeOK
    <2> QED BY <1>5, <2>2 DEF RevokeConsent, AegisTypeOK
  <1>6. CASE ExpireConsents
    <2>1. "EXPIRED" \in SystemConsentState
      BY DEF SystemConsentState
    <2>2. records' \in Seq(SystemConsentRecord) /\ Len(records') <= MaxTokens
      BY <1>6, <2>1, RecordsChanged DEF ExpireConsents, AegisTypeOK
    <2> QED BY <1>6, <2>2 DEF ExpireConsents, AegisTypeOK
  <1>7. ASSUME NEW c \in Created, StartCapture(c) PROVE AegisTypeOK'
    <2>1. sessions' \in Seq(AegisSessionInfo) /\ Len(sessions') <= MaxCaptures
      BY <1>7, StateChanged DEF StartCapture, AegisSessionState
    <2>2. c \in Captures /\ c \in 0 .. MaxCaptures
      BY CreatedTyped, AegisAssumption DEF Captures
    <2>3. NewPipeline(c) \in Pipeline
      <3>1. <<>> \in Seq(Nat \ {0})
        OBVIOUS
      <3> QED BY <2>2, <3>1 DEF NewPipeline, Pipeline
    <2>4. CASE UNCHANGED <<pipes, registered, projecting, indicator>>
      BY <1>7, <2>1, <2>4 DEF StartCapture, AegisTypeOK
    <2>5. CASE /\ pipes' = Append(pipes, NewPipeline(c))
               /\ projecting' = TRUE
               /\ IF IndicatorFree(c)
                  THEN /\ indicator' = c
                       /\ registered' = [registered EXCEPT ![c] = Len(pipes) + 1]
                  ELSE UNCHANGED <<indicator, registered>>
      <3>1. Len(pipes) < MaxPipelines
        BY <1>7 DEF StartCapture
      <3>2. pipes' \in Seq(Pipeline) /\ Len(pipes') <= MaxPipelines
        BY <2>3, <2>5, <3>1, AegisAssumption DEF AegisTypeOK
      <3>3. Len(pipes) + 1 \in 0 .. MaxPipelines
        BY <3>1, AegisAssumption DEF AegisTypeOK
      <3>4. registered' \in [Captures -> 0 .. MaxPipelines] /\ indicator' \in 0 .. MaxCaptures
        BY <2>2, <2>5, <3>3 DEF AegisTypeOK
      <3> QED BY <1>7, <2>1, <2>5, <3>2, <3>4 DEF StartCapture, AegisTypeOK
    <2> QED BY <1>7, <2>4, <2>5 DEF StartCapture
  <1>8. ASSUME NEW c \in Created, StopCapture(c) PROVE AegisTypeOK'
    <2>1. sessions' \in Seq(AegisSessionInfo) /\ Len(sessions') <= MaxCaptures
      BY <1>8, StateChanged DEF StopCapture, AegisSessionState
    <2> QED BY <1>8, <2>1, TornDown DEF StopCapture, AegisTypeOK
  <1>9. CASE ExpireDue
    <2>1. PICK cs, failed :
            /\ TearDown(cs)
            /\ sessions' = [c \in Created |->
                 IF c \in cs THEN [sessions[c] EXCEPT !.state =
                                    IF c = failed THEN "STOPPED" ELSE "EXPIRED"]
                 ELSE sessions[c]]
      <3> DEFINE due == {c \in 1 .. lapsed : sessions[c].state \notin {"STOPPED", "EXPIRED"}}
                 reached(failed) == {c \in due : failed = 0 \/ c <= failed}
      <3>1. PICK failed \in due \cup {0} :
              /\ TearDown(reached(failed))
              /\ sessions' = [c \in Created |->
                   IF c \in reached(failed)
                   THEN [sessions[c] EXCEPT !.state =
                          IF c = failed THEN "STOPPED" ELSE "EXPIRED"]
                   ELSE sessions[c]]
        BY <1>9 DEF ExpireDue
      <3> HIDE DEF reached
      <3> QED BY <3>1
    <2>2. \A c \in Created : sessions[c] \in AegisSessionInfo
      BY DEF AegisTypeOK, Created
    <2>3. \A c \in Created : sessions'[c] \in AegisSessionInfo
      <3> SUFFICES ASSUME NEW c \in Created PROVE sessions'[c] \in AegisSessionInfo
        OBVIOUS
      <3> DEFINE st == IF c = failed THEN "STOPPED" ELSE "EXPIRED"
      <3>1. st \in AegisSessionState
        BY DEF AegisSessionState
      <3>2. [sessions[c] EXCEPT !.state = st] \in AegisSessionInfo
        BY <2>2, <3>1 DEF AegisSessionInfo
      <3> QED BY <2>1, <2>2, <3>2
    <2>4. DOMAIN sessions' = DOMAIN sessions
          /\ sessions' = [c \in DOMAIN sessions |-> sessions'[c]]
      BY <2>1 DEF Created
    <2>5. sessions' \in Seq(AegisSessionInfo) /\ Len(sessions') = Len(sessions)
      <3>1. sessions \in Seq(AegisSessionInfo)
        BY DEF AegisTypeOK
      <3>2. \A c \in DOMAIN sessions : sessions'[c] \in AegisSessionInfo
        BY <2>3 DEF Created
      <3> QED BY ONLY <2>4, <3>1, <3>2, ReplacedElements
    <2> QED BY <2>1, <2>5, TornDown DEF AegisTypeOK
  <1>10. CASE Lapse
    BY <1>10, AegisAssumption DEF Lapse, AegisTypeOK
  <1>11. ASSUME NEW p \in DOMAIN pipes, Tick(p) PROVE AegisTypeOK'
    <2> DEFINE q == pipes[p]
               full == Len(q.buffer) = MaxWaiting
               kept == IF full THEN Tail(q.buffer) ELSE q.buffer
               queued == IF full THEN q.queued ELSE Counted(p)
               new == [q EXCEPT !.buffer = Append(kept, NextSequence(p)),
                                !.last = NextSequence(p), !.queued = queued]
    <2>1. q \in Pipeline
      BY DEF AegisTypeOK
    <2>2. NextSequence(p) \in Nat \ {0} /\ queued \in Nat
      BY <2>1 DEF NextSequence, Counted, Pipeline
    <2>3. kept \in Seq(Nat \ {0})
      BY <2>1, AegisAssumption DEF Pipeline
    <2>4. new \in Pipeline
      <3>1. Append(kept, NextSequence(p)) \in Seq(Nat \ {0})
        BY <2>2, <2>3
      <3> QED BY <2>1, <2>2, <3>1 DEF Pipeline
    <2>5. pipes' = [pipes EXCEPT ![p] = new]
      BY <1>11 DEF Tick
    <2> HIDE DEF q, kept, new
    <2>6. pipes' \in Seq(Pipeline) /\ Len(pipes') <= MaxPipelines
      BY <2>4, <2>5, PipeChanged
    <2> QED BY <1>11, <2>6 DEF Tick, AegisTypeOK
  <1>12. ASSUME NEW p \in DOMAIN pipes, DrainBuffer(p) PROVE AegisTypeOK'
    <2> DEFINE q == pipes[p]
               new == [q EXCEPT !.buffer = <<>>, !.taken = Len(q.buffer),
                                !.sent = q.buffer[Len(q.buffer)]]
    <2>1. q \in Pipeline
      BY DEF AegisTypeOK
    <2>2. q.buffer \in Seq(Nat \ {0}) /\ q.buffer # <<>>
      BY <1>12, <2>1 DEF DrainBuffer, Pipeline
    <2>3. Len(q.buffer) \in Nat /\ q.buffer[Len(q.buffer)] \in Nat
      BY <2>2
    <2>4. new \in Pipeline
      <3>1. <<>> \in Seq(Nat \ {0})
        OBVIOUS
      <3> QED BY <2>1, <2>3, <3>1 DEF Pipeline
    <2>5. pipes' = [pipes EXCEPT ![p] = new]
      BY <1>12 DEF DrainBuffer
    <2> HIDE DEF q, new
    <2>6. pipes' \in Seq(Pipeline) /\ Len(pipes') <= MaxPipelines
      BY <2>4, <2>5, PipeChanged
    <2> QED BY <1>12, <2>6 DEF DrainBuffer, AegisTypeOK
  <1>13. ASSUME NEW p \in DOMAIN pipes, DrainCount(p) PROVE AegisTypeOK'
    <2> DEFINE q == pipes[p]
               left == IF q.queued > q.taken THEN q.queued - q.taken ELSE 0
               new == [q EXCEPT !.queued = left, !.taken = 0]
    <2>1. q \in Pipeline
      BY DEF AegisTypeOK
    <2>2. left \in Nat
      BY <2>1 DEF Pipeline
    <2>4. new \in Pipeline
      BY <2>1, <2>2 DEF Pipeline
    <2>5. pipes' = [pipes EXCEPT ![p] = new]
      BY <1>13 DEF DrainCount
    <2> HIDE DEF q, left, new
    <2>6. pipes' \in Seq(Pipeline) /\ Len(pipes') <= MaxPipelines
      BY <2>4, <2>5, PipeChanged
    <2> QED BY <1>13, <2>6 DEF DrainCount, AegisTypeOK
  <1>14. CASE UNCHANGED aegisVars
    BY <1>14 DEF aegisVars, AegisTypeOK
  <1> QED BY <1>1, <1>2, <1>3, <1>4, <1>5, <1>6, <1>7, <1>8, <1>9, <1>10, <1>11,
             <1>12, <1>13, <1>14 DEF AegisNext, ControllerStep, FrameStep

-----------------------------------------------------------------------------
(* Consent.                                                                *)

\* While no record changes its screen, each still decides for its own.
LEMMA ScreensKept ==
  ASSUME DecidesForItself, UNCHANGED bySession, DOMAIN records' = DOMAIN records,
         \A u \in DOMAIN records : records'[u].screen = records[u].screen
  PROVE  DecidesForItself'
  BY DEF DecidesForItself, Newest

\* What lets a capture start.
LEMMA Allowed ==
  ASSUME NEW s \in ScreenSessions
  PROVE  /\ CaptureAllowed(s) <=>
              android /\ bySession[s] # 0 /\ Newest(s).state = "GRANTED"
         /\ CaptureAllowed(s)' <=>
              android' /\ bySession'[s] # 0 /\ records'[bySession'[s]].state = "GRANTED"
  BY Zenon DEF CaptureAllowed, Evaluate, Newest

\* Consent stays fresh if every record that still says GRANTED said so before, and
\* only screens whose deciding record no longer does lose their consent.
LEMMA FreshKept ==
  ASSUME DecidesForItself, ConsentIsFresh, UNCHANGED <<android, bySession>>,
         \A u \in DOMAIN records :
           records'[u].state = "GRANTED" => records[u].state = "GRANTED",
         \A s \in consented \ consented' :
           bySession[s] \in DOMAIN records => records'[bySession[s]].state # "GRANTED"
  PROVE  ConsentIsFresh'
  <1> SUFFICES ASSUME NEW s \in ScreenSessions, CaptureAllowed(s)'
               PROVE  s \in consented'
    BY DEF ConsentIsFresh
  <1>1. /\ android /\ bySession[s] # 0
        /\ records'[bySession[s]].state = "GRANTED"
    BY Allowed
  <1>2. bySession[s] \in DOMAIN records
    BY <1>1 DEF DecidesForItself
  <1>3. CaptureAllowed(s)
    BY <1>1, <1>2, Allowed DEF Newest
  <1> QED BY <1>1, <1>2, <1>3 DEF ConsentIsFresh

\* A stop or an expiry revokes what it withdraws.
LEMMA WithdrawalKeeps ==
  ASSUME AegisInv, NEW cs, TearDown(cs)
  PROVE  DecidesForItself' /\ ConsentIsFresh'
  <1> DEFINE screens == {sessions[c].screen : c \in cs}
             granted == {bySession[s] : s \in {u \in screens : bySession[u] # 0
                                                    /\ Newest(u).state = "GRANTED"}}
  <1>1. /\ records' = [t \in DOMAIN records |->
             IF t \in granted THEN [records[t] EXCEPT !.state = "REVOKED"] ELSE records[t]]
        /\ consented' = consented \ screens
        /\ UNCHANGED <<android, bySession>>
    BY DEF TearDown, WithdrawConsent
  <1> HIDE DEF granted
  <1>2. /\ DOMAIN records' = DOMAIN records
        /\ \A u \in DOMAIN records : /\ records'[u].screen = records[u].screen
                                     /\ u \in granted => records'[u].state = "REVOKED"
                                     /\ u \notin granted => records'[u] = records[u]
    BY <1>1, RecordsChanged DEF AegisInv, SystemConsentState
  <1>3. DecidesForItself'
    BY <1>1, <1>2, ScreensKept DEF AegisInv
  <1>4. \A s \in consented \ consented' :
          bySession[s] \in DOMAIN records => records'[bySession[s]].state # "GRANTED"
    <2> SUFFICES ASSUME NEW s \in screens, s \in ScreenSessions,
                        bySession[s] \in DOMAIN records
                 PROVE  records'[bySession[s]].state # "GRANTED"
      BY <1>1 DEF AegisInv, AegisTypeOK
    <2>1. bySession[s] # 0
      <3>1. DOMAIN records = 1 .. Len(records)
        BY DEF AegisInv, AegisTypeOK
      <3> QED BY <3>1
    <2>2. CASE bySession[s] \in granted
      BY <1>2, <2>2
    <2>3. CASE bySession[s] \notin granted
      <3>1. Newest(s).state # "GRANTED"
        BY <2>1, <2>3 DEF granted
      <3> QED BY <1>2, <2>3, <3>1 DEF Newest
    <2> QED BY <2>2, <2>3
  <1>5. \A u \in DOMAIN records :
          records'[u].state = "GRANTED" => records[u].state = "GRANTED"
    BY <1>2
  <1> QED BY <1>1, <1>3, <1>4, <1>5, FreshKept DEF AegisInv

LEMMA StepFresh ==
  ASSUME AegisInv, [AegisNext]_aegisVars
  PROVE  DecidesForItself' /\ ConsentIsFresh'
  <1> USE DEF AegisInv
  <1>0. ASSUME UNCHANGED <<android, records, bySession, consented>>
        PROVE  DecidesForItself' /\ ConsentIsFresh'
    <2>1. DecidesForItself'
      BY <1>0, ScreensKept
    <2> QED BY <1>0, <2>1, FreshKept
  <1>2. ASSUME NEW c \in Created, RequestSystemConsent(c)
        PROVE  DecidesForItself' /\ ConsentIsFresh'
    <2> DEFINE s == sessions[c].screen
               n == Len(records) + 1
    <2>1. CASE UNCHANGED <<records, bySession>>
      BY <1>0, <1>2, <2>1 DEF RequestSystemConsent
    <2>2. CASE /\ records' = Append(records,
                    [screen |-> s, askedBy |-> c, state |-> "REQUESTED"])
               /\ bySession' = [bySession EXCEPT ![s] = n]
      <3>1. s \in ScreenSessions
        BY CreatedTyped
      <3> HIDE DEF s
      <3>2. /\ DOMAIN records' = DOMAIN records \cup {n}
            /\ \A u \in DOMAIN records : u # n /\ records'[u] = records[u]
            /\ records'[n].screen = s /\ records'[n].state = "REQUESTED"
            /\ n # 0
        BY <2>2 DEF AegisTypeOK
      <3> HIDE DEF n
      <3>3. \A x \in ScreenSessions : bySession'[x] = IF x = s THEN n ELSE bySession[x]
        BY <2>2 DEF AegisTypeOK
      <3>4. DecidesForItself'
        BY <3>2, <3>3 DEF DecidesForItself, Newest
      <3>5. ConsentIsFresh'
        <4> SUFFICES ASSUME NEW x \in ScreenSessions, CaptureAllowed(x)'
                     PROVE  x \in consented'
          BY DEF ConsentIsFresh
        <4>1. /\ android' /\ bySession'[x] # 0
              /\ records'[bySession'[x]].state = "GRANTED"
          BY Allowed
        <4>2. x # s /\ bySession'[x] = bySession[x]
          BY <4>1, <3>2, <3>3
        <4>3. bySession[x] \in DOMAIN records /\ android
          BY <4>1, <4>2, <1>2 DEF DecidesForItself, RequestSystemConsent
        <4>4. CaptureAllowed(x)
          BY <4>1, <4>2, <4>3, <3>2, Allowed DEF Newest
        <4> QED BY <4>4, <1>2 DEF ConsentIsFresh, RequestSystemConsent
      <3> QED BY <3>4, <3>5
    <2> QED BY <1>2, <2>1, <2>2 DEF RequestSystemConsent, Ask
  <1>3. ASSUME NEW c \in Created, NEW t \in DOMAIN records, GrantSystemConsent(c, t)
        PROVE  DecidesForItself' /\ ConsentIsFresh'
    <2>1. /\ DOMAIN records' = DOMAIN records
          /\ \A u \in DOMAIN records : /\ records'[u].screen = records[u].screen
                                       /\ u # t => records'[u] = records[u]
      BY <1>3, RecordChanged DEF GrantSystemConsent, SystemConsentState
    <2>2. UNCHANGED <<android, bySession>> /\ consented' = consented \cup {records[t].screen}
      BY <1>3 DEF GrantSystemConsent
    <2>3. DecidesForItself'
      BY <2>1, <2>2, ScreensKept
    <2>4. ConsentIsFresh'
      <3> SUFFICES ASSUME NEW s \in ScreenSessions, CaptureAllowed(s)'
                   PROVE  s \in consented'
        BY DEF ConsentIsFresh
      <3>1. /\ android /\ bySession[s] # 0
            /\ records'[bySession[s]].state = "GRANTED"
        BY <2>2, Allowed
      <3>2. bySession[s] \in DOMAIN records /\ Newest(s).screen = s
        BY <3>1 DEF DecidesForItself
      <3>3. CASE bySession[s] = t
        BY <2>2, <3>2, <3>3 DEF Newest
      <3>4. CASE bySession[s] # t
        BY <2>1, <2>2, <3>1, <3>2, <3>4, Allowed DEF Newest, ConsentIsFresh
      <3> QED BY <3>3, <3>4
    <2> QED BY <2>3, <2>4
  <1>4. ASSUME NEW t \in DOMAIN records, NEW st \in {"DENIED", "REVOKED"},
               records' = [records EXCEPT ![t].state = st],
               consented' = consented \ DecidedBy({t}), UNCHANGED <<android, bySession>>
        PROVE  DecidesForItself' /\ ConsentIsFresh'
    <2>1. /\ DOMAIN records' = DOMAIN records
          /\ records'[t].state = st
          /\ \A u \in DOMAIN records : /\ records'[u].screen = records[u].screen
                                       /\ u # t => records'[u] = records[u]
      BY <1>4, RecordChanged DEF SystemConsentState
    <2>2. DecidesForItself'
      BY <1>4, <2>1, ScreensKept
    <2>3. \A u \in DOMAIN records :
            records'[u].state = "GRANTED" => records[u].state = "GRANTED"
      BY <2>1
    <2>4. \A s \in consented \ consented' : bySession[s] = t
      BY <1>4 DEF DecidedBy
    <2> QED BY <1>4, <2>1, <2>2, <2>3, <2>4, FreshKept
  <1>5. CASE ExpireConsents
    <2> DEFINE due == {t \in DOMAIN records :
                 records[t].askedBy <= lapsed /\ records[t].state \in {"GRANTED", "REQUESTED"}}
    <2>1. /\ records' = [t \in DOMAIN records |->
               IF t \in due THEN [records[t] EXCEPT !.state = "EXPIRED"] ELSE records[t]]
          /\ consented' = consented \ DecidedBy(due)
          /\ UNCHANGED <<android, bySession>>
      BY <1>5 DEF ExpireConsents
    <2> HIDE DEF due
    <2>2. /\ DOMAIN records' = DOMAIN records
          /\ \A u \in DOMAIN records : /\ records'[u].screen = records[u].screen
                                       /\ u \in due => records'[u].state = "EXPIRED"
                                       /\ u \notin due => records'[u] = records[u]
      BY <2>1, RecordsChanged DEF SystemConsentState
    <2>3. DecidesForItself'
      BY <2>1, <2>2, ScreensKept
    <2>4. \A u \in DOMAIN records :
            records'[u].state = "GRANTED" => records[u].state = "GRANTED"
      BY <2>2
    <2>5. \A s \in consented \ consented' : bySession[s] \in due
      BY <2>1 DEF DecidedBy
    <2>6. \A s \in consented \ consented' :
            bySession[s] \in DOMAIN records => records'[bySession[s]].state # "GRANTED"
      BY <2>2, <2>5
    <2> QED BY <2>1, <2>3, <2>4, <2>6, FreshKept
  <1>6. ASSUME NEW c \in Created, NEW t \in DOMAIN records, DenySystemConsent(c, t)
        PROVE  DecidesForItself' /\ ConsentIsFresh'
    BY <1>4, <1>6 DEF DenySystemConsent
  <1>7. ASSUME NEW t \in DOMAIN records, RevokeConsent(t)
        PROVE  DecidesForItself' /\ ConsentIsFresh'
    BY <1>4, <1>7 DEF RevokeConsent
  <1>8. ASSUME NEW c \in Created, StopCapture(c)
        PROVE  DecidesForItself' /\ ConsentIsFresh'
    BY <1>8, WithdrawalKeeps DEF StopCapture
  <1>9. CASE ExpireDue
    <2>1. PICK cs : TearDown(cs)
      BY <1>9 DEF ExpireDue
    <2> QED BY <2>1, WithdrawalKeeps
  <1>10. ASSUME NEW s \in ScreenSessions, CreateSession(s)
         PROVE  UNCHANGED <<android, records, bySession, consented>>
    BY <1>10 DEF CreateSession
  <1>11. ASSUME NEW c \in Created, StartCapture(c)
         PROVE  UNCHANGED <<android, records, bySession, consented>>
    BY <1>11 DEF StartCapture
  <1>12. CASE Lapse \/ FrameStep \/ UNCHANGED aegisVars
    BY <1>0, <1>12 DEF Lapse, FrameStep, Tick, DrainBuffer, DrainCount, aegisVars
  <1> QED BY <1>0, <1>2, <1>3, <1>5, <1>6, <1>7, <1>8, <1>9, <1>10, <1>11, <1>12
          DEF AegisNext, ControllerStep

-----------------------------------------------------------------------------
(* Frames.                                                                 *)

LEMMA StepStopsFrames ==
  ASSUME AegisTypeOK, NoFramesOutliveTheStop, [AegisNext]_aegisVars
  PROVE  NoFramesOutliveTheStop'
  <1>1. ASSUME UNCHANGED pipes PROVE NoFramesOutliveTheStop'
    BY <1>1 DEF NoFramesOutliveTheStop
  <1>2. ASSUME NEW c \in Created, StartCapture(c) PROVE NoFramesOutliveTheStop'
    <2>1. CASE pipes' = Append(pipes, NewPipeline(c))
      <3>1. /\ DOMAIN pipes' = DOMAIN pipes \cup {Len(pipes) + 1}
            /\ \A p \in DOMAIN pipes : pipes'[p] = pipes[p]
            /\ pipes'[Len(pipes) + 1] = NewPipeline(c)
        <4>1. pipes \in Seq(Pipeline)
          BY DEF AegisTypeOK
        <4> DEFINE new == NewPipeline(c)
        <4>2. pipes' = Append(pipes, new)
          BY <2>1
        <4> HIDE DEF new
        <4>3. pipes' \in Seq(Pipeline \cup {new}) /\ Len(pipes') = Len(pipes) + 1
          BY <4>1, <4>2
        <4> QED BY <4>1, <4>2, <4>3 DEF new
      <3>2. NewPipeline(c).running
        BY Zenon DEF NewPipeline
      <3>3. ASSUME NEW p \in DOMAIN pipes', pipes'[p].buffer # <<>> PROVE pipes'[p].running
        <4>1. CASE p \in DOMAIN pipes
          BY <3>1, <3>3, <4>1 DEF NoFramesOutliveTheStop
        <4>2. CASE p = Len(pipes) + 1
          BY <3>1, <3>2, <4>2, Zenon
        <4> QED BY <3>1, <4>1, <4>2
      <3> QED BY <3>3 DEF NoFramesOutliveTheStop
    <2> QED BY <1>1, <1>2, <2>1 DEF StartCapture
  <1>3. ASSUME NEW cs, TearDown(cs) PROVE NoFramesOutliveTheStop'
    <2> DEFINE stopped == {registered[c] : c \in cs} \ {0}
    <2>1. pipes' = [p \in DOMAIN pipes |->
                      IF p \in stopped THEN StoppedPipe(p) ELSE pipes[p]]
      BY <1>3 DEF TearDown
    <2> HIDE DEF stopped
    <2>2. \A p \in DOMAIN pipes : pipes[p] \in Pipeline
      BY DEF AegisTypeOK
    <2>3. \A p \in DOMAIN pipes : StoppedPipe(p).buffer = <<>>
      BY <2>2 DEF StoppedPipe, Pipeline
    <2> QED BY <2>1, <2>3 DEF NoFramesOutliveTheStop
  <1>4. CASE ExpireDue
    <2>1. PICK cs : TearDown(cs)
      BY <1>4 DEF ExpireDue
    <2> QED BY <1>3, <2>1
  <1>5. ASSUME NEW p \in DOMAIN pipes, Tick(p) \/ DrainBuffer(p) \/ DrainCount(p)
        PROVE  NoFramesOutliveTheStop'
    <2>1. DOMAIN pipes' = DOMAIN pipes
          /\ \A q \in DOMAIN pipes : q # p => pipes'[q] = pipes[q]
      BY <1>5 DEF Tick, DrainBuffer, DrainCount, AegisTypeOK
    <2>2. pipes[p] \in Pipeline
      BY DEF AegisTypeOK
    <2>3. CASE Tick(p)
      BY <2>1, <2>2, <2>3 DEF Tick, ProviderStarted, NoFramesOutliveTheStop, Pipeline
    <2>4. CASE DrainBuffer(p)
      BY <2>1, <2>2, <2>4 DEF DrainBuffer, NoFramesOutliveTheStop, Pipeline
    <2>5. CASE DrainCount(p)
      BY <2>1, <2>2, <2>5 DEF DrainCount, NoFramesOutliveTheStop, Pipeline
    <2> QED BY <1>5, <2>3, <2>4, <2>5
  <1>6. ASSUME NEW c \in Created, StopCapture(c) PROVE NoFramesOutliveTheStop'
    BY <1>3, <1>6 DEF StopCapture
  <1> QED BY <1>1, <1>2, <1>4, <1>5, <1>6
          DEF AegisNext, ControllerStep, FrameStep, CreateSession, RequestSystemConsent,
              GrantSystemConsent, DenySystemConsent, RevokeConsent, ExpireConsents, Lapse,
              aegisVars

-----------------------------------------------------------------------------
LEMMA InitHolds ==
  ASSUME AegisInit PROVE AegisInv /\ NoFramesOutliveTheStop
  <1>1. AegisTypeOK
    <2>1. /\ <<>> \in Seq(AegisSessionInfo) /\ <<>> \in Seq(SystemConsentRecord)
          /\ <<>> \in Seq(Pipeline) /\ Len(<<>>) = 0
      OBVIOUS
    <2>2. /\ MaxCaptures \in Nat /\ MaxTokens \in Nat /\ MaxPipelines \in Nat
      BY AegisAssumption
    <2>3. lapsed \in 0 .. MaxCaptures /\ indicator \in 0 .. MaxCaptures
      BY <2>2 DEF AegisInit
    <2>4. /\ bySession \in [ScreenSessions -> 0 .. MaxTokens]
          /\ registered \in [Captures -> 0 .. MaxPipelines]
      BY <2>2 DEF AegisInit
    <2>5. /\ sessions \in Seq(AegisSessionInfo) /\ Len(sessions) <= MaxCaptures
          /\ records \in Seq(SystemConsentRecord) /\ Len(records) <= MaxTokens
          /\ pipes \in Seq(Pipeline) /\ Len(pipes) <= MaxPipelines
      BY <2>1, <2>2 DEF AegisInit
    <2> QED BY <2>3, <2>4, <2>5 DEF AegisInit, AegisTypeOK
  <1> QED BY <1>1, Allowed DEF AegisInit, AegisInv, DecidesForItself, ConsentIsFresh,
                               NoFramesOutliveTheStop

\* Every variable of the capture keeps its type: no index of the gate or of the
\* controller ever points past the records and pipelines there are.
THEOREM AegisTypeCorrect == AegisSpec => []AegisTypeOK
  <1>1. AegisInit => AegisTypeOK
    BY InitHolds DEF AegisInv
  <1>2. AegisTypeOK /\ [AegisNext]_aegisVars => AegisTypeOK'
    BY StepTyped
  <1> QED BY <1>1, <1>2, PTL DEF AegisSpec

LEMMA Inductive == AegisSpec => [](AegisInv /\ NoFramesOutliveTheStop)
  <1>1. AegisInit => AegisInv /\ NoFramesOutliveTheStop
    BY InitHolds
  <1>2. AegisInv /\ NoFramesOutliveTheStop /\ [AegisNext]_aegisVars
          => (AegisInv /\ NoFramesOutliveTheStop)'
    BY StepTyped, StepFresh, StepStopsFrames DEF AegisInv
  <1> QED BY <1>1, <1>2, PTL DEF AegisSpec

\* For any number of sessions, dialogs and pipelines: a capture starts only for a
\* screen session whose consent the child has given and nobody withdrawn since
\* (consent.py 246-332, controller.py 413-480).
THEOREM ConsentStaysFresh == AegisSpec => []ConsentIsFresh
  <1>1. AegisInv => ConsentIsFresh
    BY DEF AegisInv
  <1> QED BY <1>1, Inductive, PTL

\* For any number of pipelines and any buffer size: a stopped pipeline holds no
\* frame (pipeline.py stop, tick, drain).
THEOREM StopDropsFrames == AegisSpec => []NoFramesOutliveTheStop
  BY Inductive, PTL
-----------------------------------------------------------------------------
(* The buffer of the viewer.  Its order is stated by the places of accepted    *)
(* instead of by Arrival: every frame handed on or waiting has a place there,   *)
(* and the places grow.  Two accepted frames have different numbers because     *)
(* the window remembers every number until the buffer is cleared.               *)

\* Sequence o takes its elements from a, in the order in which a has them.
Placed(o, a) == \A i \in DOMAIN o : \E k \in DOMAIN a : a[k] = o[i]

Follows(o, a) ==
  \A i, j \in DOMAIN o : \A k, l \in DOMAIN a :
    (i < j /\ a[k] = o[i] /\ a[l] = o[j]) => k < l

Distinct(a) == \A k, l \in DOMAIN a : a[k] = a[l] => k = l

SeenIsKept == ~closed => \A k \in DOMAIN accepted : accepted[k] \in seen

ClosedIsEmpty == closed => queue = <<>>

WaitsAtTheEnd ==
  (~closed /\ strategy # "DROP_NEWEST") =>
    /\ Len(queue) <= Len(accepted)
    /\ \A i \in DOMAIN queue :
         queue[i] = accepted[(Len(accepted) - Len(queue)) + i]

InOrder ==
  /\ Distinct(accepted)
  /\ Placed(Outgoing, accepted)
  /\ Follows(Outgoing, accepted)

BufferInv ==
  /\ TypeOK
  /\ SeenIsKept
  /\ ClosedIsEmpty
  /\ InOrder
  /\ WaitsAtTheEnd
  /\ FramesAreAccountedFor

\* A new number at the end of both sequences, or of the second alone, keeps the
\* order.
LEMMA OrderAppended ==
  ASSUME NEW S, NEW o \in Seq(S), NEW a \in Seq(S), NEW n \in S,
         Distinct(a), Placed(o, a), Follows(o, a),
         \A k \in DOMAIN a : a[k] # n
  PROVE  /\ Distinct(Append(a, n))
         /\ Placed(o, Append(a, n)) /\ Follows(o, Append(a, n))
         /\ Placed(Append(o, n), Append(a, n)) /\ Follows(Append(o, n), Append(a, n))
  <1> DEFINE b == Append(a, n)
             u == Append(o, n)
  <1>1. /\ b \in Seq(S) /\ Len(b) = Len(a) + 1 /\ b[Len(a) + 1] = n
        /\ \A k \in DOMAIN a : k \in DOMAIN b /\ b[k] = a[k]
        /\ \A k \in DOMAIN b : k \in DOMAIN a \/ k = Len(a) + 1
        /\ \A k \in DOMAIN a : k \in Nat /\ k < Len(a) + 1
        /\ Len(a) + 1 \in DOMAIN b
    OBVIOUS
  <1>2. /\ u \in Seq(S) /\ Len(u) = Len(o) + 1 /\ u[Len(o) + 1] = n
        /\ \A k \in DOMAIN o : k \in DOMAIN u /\ u[k] = o[k]
        /\ \A k \in DOMAIN u : k \in DOMAIN o \/ k = Len(o) + 1
        /\ \A k \in DOMAIN o : k \in Nat /\ k < Len(o) + 1
    OBVIOUS
  <1>3. \A i \in DOMAIN o : o[i] # n
    BY DEF Placed
  <1>l. Len(a) \in Nat /\ Len(o) \in Nat
    OBVIOUS
  <1> HIDE DEF b, u
  <1>4. Distinct(b)
    BY <1>1 DEF Distinct
  <1>5. Placed(o, b)
    BY <1>1 DEF Placed
  <1>6. Follows(o, b)
    <2> SUFFICES ASSUME NEW i \in DOMAIN o, NEW j \in DOMAIN o,
                        NEW k \in DOMAIN b, NEW l \in DOMAIN b,
                        i < j, b[k] = o[i], b[l] = o[j]
                 PROVE  k < l
      BY DEF Follows
    <2>1. k \in DOMAIN a /\ l \in DOMAIN a
      BY <1>1, <1>3
    <2> QED BY <2>1, <1>1 DEF Follows
  <1>7. Placed(u, b)
    <2> SUFFICES ASSUME NEW i \in DOMAIN u PROVE \E k \in DOMAIN b : b[k] = u[i]
      BY DEF Placed
    <2>1. CASE i \in DOMAIN o
      BY <2>1, <1>2, <1>5 DEF Placed
    <2>2. CASE i = Len(o) + 1
      BY <2>2, <1>1, <1>2
    <2> QED BY <2>1, <2>2, <1>2
  <1>8. Follows(u, b)
    <2> SUFFICES ASSUME NEW i \in DOMAIN u, NEW j \in DOMAIN u,
                        NEW k \in DOMAIN b, NEW l \in DOMAIN b,
                        i < j, b[k] = u[i], b[l] = u[j]
                 PROVE  k < l
      BY DEF Follows
    <2>1. i \in DOMAIN o
      BY <1>2, <1>l
    <2>2. CASE j \in DOMAIN o
      BY <2>1, <2>2, <1>2, <1>6 DEF Follows
    <2>3. CASE j = Len(o) + 1
      <3>1. l = Len(a) + 1
        BY <2>3, <1>1, <1>2
      <3>2. k \in DOMAIN a
        BY <2>1, <1>1, <1>2, <1>3
      <3> QED BY <3>1, <3>2, <1>1
    <2> QED BY <2>2, <2>3, <1>2
  <1> QED BY <1>4, <1>5, <1>6, <1>7, <1>8 DEF b, u

\* Taking an element out of the middle, or cutting the end off, keeps the order.
LEMMA OrderThinned ==
  ASSUME NEW S, NEW d \in Seq(S), NEW q \in Seq(S), NEW a \in Seq(S),
         Placed(d \o q, a), Follows(d \o q, a)
  PROVE  /\ Placed(d, a) /\ Follows(d, a)
         /\ q # <<>> => Placed(d \o Tail(q), a) /\ Follows(d \o Tail(q), a)
  <1> DEFINE o == d \o q
             t == d \o Tail(q)
             at == [i \in DOMAIN t |-> IF i <= Len(d) THEN i ELSE i + 1]
  <1>1. \A i \in DOMAIN d : i \in DOMAIN o /\ o[i] = d[i]
    OBVIOUS
  <1>2. Placed(d, a) /\ Follows(d, a)
    <2> HIDE DEF o
    <2> USE <1>1 DEF o
    <2>1. Placed(d, a)
      BY <1>1 DEF Placed
    <2>2. Follows(d, a)
      BY <1>1 DEF Follows
    <2> QED BY <2>1, <2>2
  <1>3. ASSUME q # <<>>
        PROVE  Placed(t, a) /\ Follows(t, a)
    <2>1. /\ t \in Seq(S) /\ Len(t) = Len(d) + Len(q) - 1
          /\ Len(o) = Len(d) + Len(q)
      BY <1>3
    <2>2. \A i \in DOMAIN t : at[i] \in DOMAIN o /\ t[i] = o[at[i]]
      <3> SUFFICES ASSUME NEW i \in DOMAIN t
                   PROVE  at[i] \in DOMAIN o /\ t[i] = o[at[i]]
        OBVIOUS
      <3>1. CASE i <= Len(d)
        BY <3>1, <2>1, <1>3
      <3>2. CASE ~(i <= Len(d))
        <4>1. at[i] = i + 1 /\ i + 1 \in DOMAIN o
          BY <3>2, <2>1, <1>3
        <4>2. t[i] = Tail(q)[i - Len(d)]
          BY <3>2, <2>1, <1>3
        <4>3. o[i + 1] = q[(i + 1) - Len(d)]
          BY <3>2, <2>1, <1>3
        <4>4. Tail(q)[i - Len(d)] = q[(i - Len(d)) + 1]
          BY <3>2, <2>1, <1>3
        <4>5. i \in Int /\ Len(d) \in Int
          BY <2>1, <1>3
        <4>6. (i + 1) - Len(d) = (i - Len(d)) + 1
          BY <4>5
        <4> QED BY <4>1, <4>2, <4>3, <4>4, <4>6
      <3> QED BY <3>1, <3>2
    <2>3. \A i, j \in DOMAIN t : i < j => at[i] < at[j]
      BY <2>1
    <2>4. Placed(o, a) /\ Follows(o, a)
      OBVIOUS
    <2> HIDE DEF o, t, at
    <2>5. Placed(t, a)
      BY <2>2, <2>4 DEF Placed
    <2>6. Follows(t, a)
      <3> SUFFICES ASSUME NEW i \in DOMAIN t, NEW j \in DOMAIN t,
                          NEW k \in DOMAIN a, NEW l \in DOMAIN a,
                          i < j, a[k] = t[i], a[l] = t[j]
                   PROVE  k < l
        BY DEF Follows
      <3>1. at[i] \in DOMAIN o /\ at[j] \in DOMAIN o /\ at[i] < at[j]
        BY <2>2, <2>3
      <3>2. a[k] = o[at[i]] /\ a[l] = o[at[j]]
        BY <2>2
      <3> QED BY <3>1, <3>2, <2>4 DEF Follows
    <2> QED BY <2>5, <2>6
  <1> QED BY <1>2, <1>3

\* A frame that leaves the head of the queue for the viewer, and a whole queue
\* drained, leave the outgoing frames as they are.
LEMMA HandedOver ==
  ASSUME NEW S, NEW d \in Seq(S), NEW q \in Seq(S)
  PROVE  /\ q # <<>> => Append(d, Head(q)) \o Tail(q) = d \o q
         /\ (d \o q) \o <<>> = d \o q
         /\ d \o <<>> = d
  <1>1. ASSUME q # <<>> PROVE Append(d, Head(q)) \o Tail(q) = d \o q
    <2>1. Head(q) \in S /\ Tail(q) \in Seq(S)
      BY <1>1
    <2>2. Append(d, Head(q)) = d \o <<Head(q)>>
      BY <2>1, AppendIsConcat
    <2>3. <<Head(q)>> \in Seq(S)
      BY <2>1
    <2>4. (d \o <<Head(q)>>) \o Tail(q) = d \o (<<Head(q)>> \o Tail(q))
      BY <2>1, <2>3, ConcatAssociative
    <2>5. <<Head(q)>> \o Tail(q) = q
      <3> DEFINE w == <<Head(q)>> \o Tail(q)
      <3>1. w \in Seq(S) /\ Len(w) = Len(q) /\ \A i \in 1 .. Len(q) : w[i] = q[i]
        BY <1>1, <2>1, <2>3
      <3> HIDE DEF w
      <3>2. w = q
        BY <3>1, SeqEqual
      <3> QED BY <3>2 DEF w
    <2> QED BY <2>2, <2>4, <2>5
  <1>2. (d \o q) \o <<>> = d \o q /\ d \o <<>> = d
    BY ConcatEmptySeq
  <1> QED BY <1>1, <1>2

\* The frames that wait are the last accepted ones: an append to both keeps that,
\* and so does dropping the head of the queue.
Ends(q, a) ==
  /\ Len(q) <= Len(a)
  /\ \A i \in DOMAIN q : q[i] = a[(Len(a) - Len(q)) + i]

LEMMA EndsKept ==
  ASSUME NEW S, NEW q \in Seq(S), NEW a \in Seq(S), NEW n \in S, Ends(q, a)
  PROVE  /\ Ends(Append(q, n), Append(a, n))
         /\ q # <<>> => Ends(Tail(q), a)
         /\ q # <<>> => Ends(Append(Tail(q), n), Append(a, n))
  <1>1. ASSUME NEW t \in Seq(S), Ends(t, a)
        PROVE  Ends(Append(t, n), Append(a, n))
    <2> DEFINE u == Append(t, n)
               b == Append(a, n)
    <2>1. /\ Len(u) = Len(t) + 1 /\ Len(b) = Len(a) + 1
          /\ Len(t) <= Len(a) /\ Len(t) \in Nat /\ Len(a) \in Nat
      BY <1>1 DEF Ends
    <2>2. ASSUME NEW i \in DOMAIN u PROVE u[i] = b[(Len(b) - Len(u)) + i]
      <3>1. CASE i \in DOMAIN t
        <4>1. u[i] = a[(Len(a) - Len(t)) + i]
          BY <3>1, <1>1 DEF Ends
        <4>2. (Len(a) - Len(t)) + i \in 1 .. Len(a)
          BY <3>1, <2>1
        <4>3. b[(Len(a) - Len(t)) + i] = a[(Len(a) - Len(t)) + i]
          BY <4>2
        <4>4. Len(b) - Len(u) = Len(a) - Len(t)
          BY <2>1
        <4> QED BY <4>1, <4>3, <4>4
      <3>2. CASE i = Len(t) + 1
        <4>1. u[i] = n /\ b[Len(a) + 1] = n
          BY <3>2
        <4>2. (Len(b) - Len(u)) + i = Len(a) + 1
          BY <3>2, <2>1
        <4> QED BY <4>1, <4>2
      <3>3. i \in DOMAIN t \/ i = Len(t) + 1
        BY <2>1
      <3> HIDE DEF u, b
      <3> QED BY <3>1, <3>2, <3>3
    <2> HIDE DEF u, b
    <2>3. Len(u) <= Len(b)
      BY <2>1
    <2>4. Ends(u, b)
      BY <2>2, <2>3 DEF Ends
    <2> QED BY <2>4 DEF u, b
  <1>2. ASSUME q # <<>> PROVE Ends(Tail(q), a) /\ Tail(q) \in Seq(S)
    <2>1. /\ Tail(q) \in Seq(S) /\ Len(Tail(q)) = Len(q) - 1
          /\ Len(q) \in Nat /\ Len(a) \in Nat /\ Len(q) <= Len(a) /\ Len(q) > 0
      BY <1>2 DEF Ends
    <2>2. ASSUME NEW i \in DOMAIN Tail(q)
          PROVE  Tail(q)[i] = a[(Len(a) - Len(Tail(q))) + i]
      <3>1. Tail(q)[i] = q[i + 1] /\ i + 1 \in DOMAIN q
        BY <1>2, <2>1
      <3>2. q[i + 1] = a[(Len(a) - Len(q)) + (i + 1)]
        BY <3>1 DEF Ends
      <3>3. (Len(a) - Len(q)) + (i + 1) = (Len(a) - Len(Tail(q))) + i
        BY <2>1
      <3> QED BY <3>1, <3>2, <3>3
    <2> QED BY <2>1, <2>2 DEF Ends
  <1> QED BY <1>1, <1>2

LEMMA WaitsIsEnds ==
  WaitsAtTheEnd <=> ((~closed /\ strategy # "DROP_NEWEST") => Ends(queue, accepted))
  BY DEF WaitsAtTheEnd, Ends

LEMMA BufferInit == Init => BufferInv
  <1> SUFFICES ASSUME Init PROVE BufferInv
    OBVIOUS
  <1>1. TypeOK
    <2>1. <<>> \in Seq(Frames) /\ Len(<<>>) = 0
      OBVIOUS
    <2>2. 0 <= MaxSize
      BY BufferAssumption
    <2>3. queue \in Seq(Frames) /\ Len(queue) <= MaxSize
      BY <2>1, <2>2 DEF Init
    <2>4. accepted \in Seq(Frames) /\ delivered \in Seq(Frames)
      BY <2>1 DEF Init
    <2> QED BY <2>3, <2>4 DEF Init, TypeOK
  <1>2. InOrder
    BY DEF Init, InOrder, Distinct, Placed, Follows, Outgoing
  <1>3. WaitsAtTheEnd
    BY DEF Init, WaitsAtTheEnd
  <1>4. FramesAreAccountedFor
    BY DEF Init, FramesAreAccountedFor, Outgoing
  <1> QED BY <1>1, <1>2, <1>3, <1>4 DEF BufferInv, Init, SeenIsKept, ClosedIsEmpty

\* A frame of a queue that makes room for it, of one that keeps what it has, and
\* of one with room: what is outgoing afterwards, and how many.
LEMMA IngestOutgoing ==
  ASSUME NEW n \in Frames, TypeOK, Push(n), delivered' = delivered,
         strategy' = strategy
  PROVE  \/ /\ queue' = Append(queue, n) /\ dropped' = dropped
            /\ Outgoing' = Append(Outgoing, n)
            /\ Len(queue') <= MaxSize
         \/ /\ strategy = "DROP_NEWEST"
            /\ queue' = queue /\ dropped' = dropped + 1
            /\ Outgoing' = Outgoing
         \/ /\ queue # <<>>
            /\ queue' = Append(Tail(queue), n) /\ dropped' = dropped + 1
            /\ Outgoing' = Append(delivered \o Tail(queue), n)
            /\ Len(queue') = Len(queue)
  <1>1. ASSUME NEW q \in Seq(Frames)
        PROVE  delivered \o Append(q, n) = Append(delivered \o q, n)
    <2>1. /\ delivered \in Seq(Frames) /\ <<n>> \in Seq(Frames)
          /\ delivered \o q \in Seq(Frames)
      BY DEF TypeOK
    <2>2. delivered \o (q \o <<n>>) = (delivered \o q) \o <<n>>
      BY <2>1, ConcatAssociative
    <2>3. Append(q, n) = q \o <<n>>
      BY AppendIsConcat
    <2>4. Append(delivered \o q, n) = (delivered \o q) \o <<n>>
      BY <2>1, AppendIsConcat
    <2> QED BY <2>2, <2>3, <2>4
  <1>2. CASE Room
    <2>1. queue' = Append(queue, n) /\ dropped' = dropped
      BY <1>2 DEF Push
    <2>2. queue \in Seq(Frames) /\ Len(queue) < MaxSize
      BY <1>2 DEF TypeOK, Room
    <2>3. Len(queue') <= MaxSize
      BY <2>1, <2>2, BufferAssumption
    <2>4. Outgoing' = Append(Outgoing, n)
      BY <2>1, <2>2, <1>1 DEF Outgoing
    <2> QED BY <2>1, <2>3, <2>4
  <1>3. CASE ~Room /\ strategy = "DROP_NEWEST"
    BY <1>3 DEF Push, Outgoing
  <1>4. CASE ~Room /\ strategy # "DROP_NEWEST"
    <2>1. queue' = Append(Tail(queue), n) /\ dropped' = dropped + 1
      BY <1>4 DEF Push, MakeRoom
    <2>2. queue \in Seq(Frames) /\ queue # <<>>
      BY <1>4, BufferAssumption DEF TypeOK, Room
    <2>3. Tail(queue) \in Seq(Frames) /\ Len(Tail(queue)) = Len(queue) - 1
      BY <2>2
    <2>4. Len(queue') = Len(queue)
      BY <2>1, <2>2, <2>3
    <2>5. Outgoing' = Append(delivered \o Tail(queue), n)
      BY <2>1, <2>3, <1>1 DEF Outgoing
    <2> QED BY <2>1, <2>2, <2>4, <2>5
  <1> QED BY <1>2, <1>3, <1>4

LEMMA IngestKeeps ==
  ASSUME BufferInv, NEW n \in 0 .. MaxSequence, Ingest(n)
  PROVE  BufferInv'
  <1>1. /\ n \in Frames /\ n \notin seen /\ ~closed /\ ~closed'
        /\ accepted' = Append(accepted, n) /\ seen' = seen \cup {n}
        /\ delivered' = delivered /\ strategy' = strategy /\ Push(n)
        /\ last' \in {n, last}
    BY BufferAssumption DEF Ingest, Accepts, Frames
  <1>2. /\ accepted \in Seq(Frames) /\ queue \in Seq(Frames) /\ delivered \in Seq(Frames)
        /\ dropped \in Nat /\ Len(queue) <= MaxSize /\ Outgoing \in Seq(Frames)
        /\ TypeOK
    BY DEF BufferInv, TypeOK, Outgoing
  <1>3. \A k \in DOMAIN accepted : accepted[k] # n
    BY <1>1 DEF BufferInv, SeenIsKept
  <1>4. /\ Distinct(accepted) /\ Placed(Outgoing, accepted)
        /\ Follows(Outgoing, accepted)
        /\ Len(accepted) = Len(Outgoing) + dropped
        /\ strategy # "DROP_NEWEST" => Ends(queue, accepted)
    BY <1>1, WaitsIsEnds DEF BufferInv, InOrder, FramesAreAccountedFor
  <1>5. SeenIsKept'
    <2>1. \A k \in DOMAIN Append(accepted, n) :
            Append(accepted, n)[k] \in seen \cup {n}
      BY <1>1, <1>2 DEF BufferInv, SeenIsKept
    <2> QED BY <2>1, <1>1 DEF SeenIsKept
  <1>6. Len(Append(accepted, n)) = Len(accepted) + 1
    BY <1>1, <1>2
  <1>7. /\ queue' \in Seq(Frames) /\ Len(queue') <= MaxSize /\ dropped' \in Nat
        /\ InOrder'
        /\ FramesAreAccountedFor'
        /\ WaitsAtTheEnd'
    <2>1. CASE /\ queue' = Append(queue, n) /\ dropped' = dropped
               /\ Outgoing' = Append(Outgoing, n)
               /\ Len(queue') <= MaxSize
      <3>1. InOrder'
        BY <2>1, <1>1, <1>2, <1>3, <1>4, OrderAppended DEF InOrder
      <3>2. FramesAreAccountedFor'
        <4>1. Len(Append(Outgoing, n)) = Len(Outgoing) + 1
          BY <1>1, <1>2
        <4>2. Len(Outgoing) \in Nat
          BY <1>2
        <4> QED BY <2>1, <1>1, <1>2, <1>4, <1>6, <4>1, <4>2 DEF FramesAreAccountedFor
      <3>3. strategy # "DROP_NEWEST" => Ends(queue', accepted')
        BY <2>1, <1>1, <1>2, <1>4, EndsKept
      <3>4. WaitsAtTheEnd'
        BY <3>3, <1>1 DEF WaitsAtTheEnd, Ends
      <3> QED BY <2>1, <1>1, <1>2, <3>1, <3>2, <3>4
    <2>2. CASE /\ strategy = "DROP_NEWEST"
               /\ queue' = queue /\ dropped' = dropped + 1
               /\ Outgoing' = Outgoing
      <3>1. InOrder'
        BY <2>2, <1>1, <1>2, <1>3, <1>4, OrderAppended DEF InOrder
      <3>2. FramesAreAccountedFor'
        <4>2. Len(Outgoing) \in Nat
          BY <1>2
        <4> QED BY <2>2, <1>1, <1>2, <1>4, <1>6, <4>2 DEF FramesAreAccountedFor
      <3> QED BY <2>2, <1>1, <1>2, <3>1, <3>2 DEF WaitsAtTheEnd
    <2>3. CASE /\ queue # <<>>
               /\ queue' = Append(Tail(queue), n) /\ dropped' = dropped + 1
               /\ Outgoing' = Append(delivered \o Tail(queue), n)
               /\ Len(queue') = Len(queue)
      <3> DEFINE t == delivered \o Tail(queue)
      <3>1. /\ Tail(queue) \in Seq(Frames) /\ t \in Seq(Frames)
            /\ Len(t) + 1 = Len(Outgoing) /\ Len(t) \in Nat
        BY <2>3, <1>2 DEF Outgoing
      <3>2. Placed(t, accepted) /\ Follows(t, accepted)
        BY <2>3, <1>2, <1>4, OrderThinned DEF Outgoing
      <3> HIDE DEF t
      <3>3. Outgoing' = Append(t, n)
        BY <2>3 DEF t
      <3>4. InOrder'
        BY <3>1, <3>2, <3>3, <1>1, <1>2, <1>3, <1>4, OrderAppended DEF InOrder
      <3>5. FramesAreAccountedFor'
        <4>1. Len(Append(t, n)) = Len(t) + 1
          BY <1>1, <3>1
        <4>2. Len(accepted) = (Len(t) + 1) + dropped
          BY <3>1, <1>4
        <4>3. Len(accepted') = Len(Append(t, n)) + (dropped + 1)
          BY <4>1, <4>2, <1>1, <1>2, <1>6, <3>1
        <4> QED BY <2>3, <3>3, <4>3 DEF FramesAreAccountedFor
      <3>6. strategy # "DROP_NEWEST" => Ends(queue', accepted')
        BY <2>3, <1>1, <1>2, <1>4, EndsKept
      <3>7. WaitsAtTheEnd'
        BY <3>6, <1>1 DEF WaitsAtTheEnd, Ends
      <3> QED BY <2>3, <1>1, <1>2, <3>1, <3>4, <3>5, <3>7
    <2> QED BY <1>1, <1>2, <2>1, <2>2, <2>3, IngestOutgoing
  <1>8. TypeOK'
    BY <1>1, <1>2, <1>7, BufferAssumption DEF TypeOK, Ingest, Frames
  <1> QED BY <1>5, <1>7, <1>8, <1>1 DEF BufferInv, ClosedIsEmpty

\* Pop and Drain: what is outgoing stays, and the queue keeps an end of accepted.
LEMMA HandingOverKeeps ==
  ASSUME BufferInv, Pop \/ Drain
  PROVE  BufferInv'
  <1>1. /\ accepted \in Seq(Frames) /\ queue \in Seq(Frames) /\ delivered \in Seq(Frames)
        /\ Len(queue) <= MaxSize /\ queue # <<>>
        /\ UNCHANGED <<strategy, last, seen, dropped, closed, accepted>>
    BY DEF BufferInv, TypeOK, Pop, Drain
  <1>2. /\ queue' \in Seq(Frames) /\ delivered' \in Seq(Frames)
        /\ Len(queue') <= MaxSize
        /\ Outgoing' = Outgoing
    <2>1. CASE Pop
      <3>1. /\ queue' = Tail(queue) /\ delivered' = Append(delivered, Head(queue))
        BY <2>1 DEF Pop
      <3>2. Tail(queue) \in Seq(Frames) /\ Len(Tail(queue)) = Len(queue) - 1
            /\ Head(queue) \in Frames
        BY <1>1
      <3>3. Len(Tail(queue)) <= MaxSize
        BY <1>1, <3>2, BufferAssumption
      <3>4. Append(delivered, Head(queue)) \in Seq(Frames)
        BY <1>1, <3>2
      <3>5. Outgoing' = Outgoing
        BY <3>1, <1>1, HandedOver DEF Outgoing
      <3> QED BY <3>1, <3>2, <3>3, <3>4, <3>5
    <2>2. CASE Drain
      BY <2>2, <1>1, HandedOver, BufferAssumption DEF Drain, Outgoing
    <2> QED BY <2>1, <2>2
  <1>3. ~closed
    BY <1>1 DEF BufferInv, ClosedIsEmpty
  <1>4. (strategy # "DROP_NEWEST") => Ends(queue', accepted)
    <2>1. (strategy # "DROP_NEWEST") => Ends(queue, accepted)
      BY <1>3, WaitsIsEnds DEF BufferInv
    <2>2. CASE Pop
      <3> PICK n \in Frames : TRUE
        BY <1>1
      <3> QED BY <2>1, <2>2, <1>1, EndsKept DEF Pop
    <2>3. CASE Drain
      BY <2>3, <1>1 DEF Drain, Ends
    <2> QED BY <2>2, <2>3
  <1>5. WaitsAtTheEnd'
    BY <1>1, <1>4 DEF WaitsAtTheEnd, Ends
  <1> QED BY <1>1, <1>2, <1>3, <1>5 DEF BufferInv, TypeOK, SeenIsKept, ClosedIsEmpty,
                                  InOrder, FramesAreAccountedFor

LEMMA ClearKeeps ==
  ASSUME BufferInv, Clear
  PROVE  BufferInv'
  <1>1. /\ accepted \in Seq(Frames) /\ queue \in Seq(Frames) /\ delivered \in Seq(Frames)
        /\ queue' = <<>> /\ closed' /\ UNCHANGED <<accepted, delivered>>
    BY DEF BufferInv, TypeOK, Clear
  <1>2. Outgoing' = delivered
    BY <1>1, HandedOver DEF Outgoing
  <1>3. Placed(delivered, accepted) /\ Follows(delivered, accepted)
    BY <1>1, OrderThinned DEF BufferInv, InOrder, Outgoing
  <1>4. InOrder'
    BY <1>1, <1>2, <1>3 DEF BufferInv, InOrder
  <1>5. TypeOK'
    BY BufferAssumption DEF BufferInv, TypeOK, Clear
  <1> QED BY <1>1, <1>4, <1>5 DEF BufferInv, SeenIsKept, ClosedIsEmpty, WaitsAtTheEnd,
                                  FramesAreAccountedFor

LEMMA BufferInductive == Spec => []BufferInv
  <1>1. BufferInv /\ [Next]_vars => BufferInv'
    <2> SUFFICES ASSUME BufferInv, [Next]_vars PROVE BufferInv'
      OBVIOUS
    <2>1. CASE \E n \in 0 .. MaxSequence : Ingest(n)
      BY <2>1, IngestKeeps
    <2>2. CASE Pop \/ Drain
      BY <2>2, HandingOverKeeps
    <2>3. CASE Clear
      BY <2>3, ClearKeeps
    <2>4. CASE UNCHANGED vars
      BY <2>4 DEF vars, BufferInv, TypeOK, SeenIsKept, ClosedIsEmpty, InOrder,
                  WaitsAtTheEnd, FramesAreAccountedFor, Outgoing
    <2> QED BY <2>1, <2>2, <2>3, <2>4 DEF Next
  <1> QED BY <1>1, BufferInit, PTL DEF Spec

\* For any window and any queue size: whatever the link repeats and reorders, the
\* viewer gets a frame at most once and in the order of arrival (frames.py 58-82,
\* 187-207).
THEOREM FramesInOrder == Spec => []EachOnceInOrder
  <1>1. BufferInv => EachOnceInOrder
    <2> SUFFICES ASSUME BufferInv, NEW i \in DOMAIN Outgoing, NEW j \in DOMAIN Outgoing,
                        i < j
                 PROVE  Arrival(Outgoing[i]) < Arrival(Outgoing[j])
      BY DEF EachOnceInOrder
    <2>1. InOrder
      BY DEF BufferInv
    <2>2. ASSUME NEW m \in DOMAIN Outgoing
          PROVE  /\ Arrival(Outgoing[m]) \in DOMAIN accepted
                 /\ accepted[Arrival(Outgoing[m])] = Outgoing[m]
      <3>1. \E k \in DOMAIN accepted : accepted[k] = Outgoing[m]
        BY <2>1 DEF InOrder, Placed
      <3> QED BY <3>1 DEF Arrival
    <2> QED BY <2>1, <2>2 DEF InOrder, Follows
  <1> QED BY <1>1, BufferInductive, PTL

\* For any queue size and either way to make room: while the session lives, no frame
\* that got past the tracker is lost uncounted (models.py 691-715).
THEOREM FramesCounted == Spec => []FramesAreAccountedFor
  <1>1. BufferInv => FramesAreAccountedFor
    BY DEF BufferInv
  <1> QED BY <1>1, BufferInductive, PTL

\* For any queue size: what waits for a slow viewer is the newest that arrived,
\* except under DROP_NEWEST (models.py 701-715).
THEOREM NewestWait == Spec => []NewestFramesWait
  <1>1. BufferInv => NewestFramesWait
    <2> SUFFICES ASSUME BufferInv, ~closed, strategy # "DROP_NEWEST"
                 PROVE  IsSuffix(queue, accepted)
      BY DEF NewestFramesWait
    <2>1. Ends(queue, accepted) /\ queue \in Seq(Frames) /\ accepted \in Seq(Frames)
      BY WaitsIsEnds DEF BufferInv, TypeOK
    <2> DEFINE s == Reverse(queue)
               t == Reverse(accepted)
    <2>2. /\ s \in Seq(Frames) /\ Len(s) = Len(queue)
          /\ t \in Seq(Frames) /\ Len(t) = Len(accepted)
          /\ Len(queue) <= Len(accepted) /\ Len(queue) \in Nat /\ Len(accepted) \in Nat
      BY <2>1 DEF Reverse, Ends
    <2>3. ASSUME NEW i \in 1 .. Len(queue) PROVE s[i] = t[i]
      <3>1. s[i] = queue[(Len(queue) - i) + 1] /\ t[i] = accepted[(Len(accepted) - i) + 1]
        BY <2>2 DEF Reverse
      <3>2. (Len(queue) - i) + 1 \in DOMAIN queue
        BY <2>1, <2>2
      <3>3. queue[(Len(queue) - i) + 1]
              = accepted[(Len(accepted) - Len(queue)) + ((Len(queue) - i) + 1)]
        BY <2>1, <3>2 DEF Ends
      <3>4. (Len(accepted) - Len(queue)) + ((Len(queue) - i) + 1) = (Len(accepted) - i) + 1
        BY <2>2
      <3> QED BY <3>1, <3>3, <3>4
    <2> HIDE DEF s, t
    <2>4. SubSeq(s, 1, Len(s)) = SubSeq(t, 1, Len(s))
      BY <2>2, <2>3
    <2>5. IsPrefix(s, t)
      BY <2>2, <2>4 DEF IsPrefix
    <2> QED BY <2>5 DEF IsSuffix, s, t
  <1> QED BY <1>1, BufferInductive, PTL
=============================================================================
