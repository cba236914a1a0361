---------------------------- MODULE AegisCapture ----------------------------
(***************************************************************************)
(* Screen capture on the child's device: SystemConsentGate                 *)
(* (guardianmesh/aegis/consent.py), AegisController (aegis/controller.py), *)
(* the foreground-service indicator and the frame pipelines, which share   *)
(* one projection provider.                                                *)
(*                                                                         *)
(* The lock of the controller makes each of its operations one step; the   *)
(* capture thread ticks a pipeline and the transport thread drains it      *)
(* beside them.  A refused trust check leaves no trace, so it is the       *)
(* operation not taken.  Audit records are not part of the state.          *)
(***************************************************************************)
EXTENDS Naturals, Sequences, FiniteSets, FiniteSetsExt

CONSTANTS
  MaxCaptures,    \* bound: Aegis sessions, numbered in the order of creation
  ScreenSessions, \* the screen sessions they capture for
  MaxTokens,      \* bound: consent dialogs
  MaxPipelines,   \* bound: pipeline objects built
  MaxFrames,      \* bound: frames captured, by all pipelines together
  MaxWaiting      \* max_queue_size of a pipeline's buffer (30 in the program)

ASSUME AegisAssumption ==
  /\ {MaxCaptures, MaxTokens, MaxPipelines, MaxFrames} \subseteq Nat
  /\ MaxWaiting \in Nat \ {0}

Captures  == 1 .. MaxCaptures
Tokens    == 1 .. MaxTokens
Pipelines == 1 .. MaxPipelines

SystemConsentState ==
  {"NOT_REQUESTED", "REQUESTED", "GRANTED", "DENIED", "REVOKED", "EXPIRED"}

AegisSessionState ==
  {"INITIALIZED", "SYSTEM_CONSENT_REQUIRED", "SYSTEM_CONSENT_DENIED",
   "SYSTEM_CONSENT_GRANTED", "CAPTURING", "STOPPED", "EXPIRED"}

AegisSessionInfo ==
  [screen : ScreenSessions, state : AegisSessionState]

SystemConsentRecord ==
  [screen : ScreenSessions, askedBy : Captures, state : SystemConsentState]

\* A pipeline: the session it was built for, its flag, the number of its last
\* frame, its buffer, frames_queued of its metrics, the number of frames a drain
\* has taken and not yet subtracted from that, and the last frame drained.
Pipeline ==
  [for : Captures, running : BOOLEAN, last : Nat, buffer : Seq(Nat \ {0}),
   queued : Nat, taken : Nat, sent : Nat]

VARIABLES
  android,      \* the provider's platform supports real capture
  sessions,     \* the controller's _sessions, in the order of creation
  lapsed,       \* how many sessions have passed their expires_at, oldest first
  records,      \* the gate's _records, in the order of creation
  bySession,    \* the gate's _by_session, 0 for none
  pipes,        \* every pipeline object built
  registered,   \* the controller's _pipelines, 0 for none
  projecting,   \* the provider's _started
  indicator,    \* the session the notification shows, 0 for none
  consented     \* history: screens granted since consent was last withdrawn

aegisVars == <<android, sessions, lapsed, records, bySession, pipes,
               registered, projecting, indicator, consented>>

AegisTypeOK ==
  /\ android \in BOOLEAN
  /\ sessions \in Seq(AegisSessionInfo) /\ Len(sessions) <= MaxCaptures
  /\ lapsed \in 0 .. MaxCaptures
  /\ records \in Seq(SystemConsentRecord) /\ Len(records) <= MaxTokens
  /\ bySession \in [ScreenSessions -> 0 .. MaxTokens]
  /\ pipes \in Seq(Pipeline) /\ Len(pipes) <= MaxPipelines
  /\ registered \in [Captures -> 0 .. MaxPipelines]
  /\ projecting \in BOOLEAN
  /\ indicator \in 0 .. MaxCaptures
  /\ consented \subseteq ScreenSessions

AegisInit ==
  /\ android \in BOOLEAN
  /\ sessions = <<>>
  /\ lapsed = 0
  /\ records = <<>>
  /\ bySession = [s \in ScreenSessions |-> 0]
  /\ pipes = <<>>
  /\ registered = [c \in Captures |-> 0]
  /\ projecting = FALSE
  /\ indicator = 0
  /\ consented = {}

Created == DOMAIN sessions

-----------------------------------------------------------------------------
\* The gate's record that decides for a screen session.
Newest(s) == records[bySession[s]]

\* SystemConsentGate.evaluate: the state its decision rests on.
Evaluate(s) ==
  IF ~android \/ bySession[s] = 0 THEN "NOT_REQUESTED" ELSE Newest(s).state

\* SystemConsentGate.assert_capture_allowed returns instead of raising.
CaptureAllowed(s) == Evaluate(s) = "GRANTED"

SetState(c, state) == sessions' = [sessions EXCEPT ![c].state = state]

-----------------------------------------------------------------------------
\* AegisController.create_session.
CreateSession(s) ==
  LET c == Len(sessions) + 1 IN
  /\ c <= MaxCaptures
  /\ sessions' = Append(sessions,
       [screen |-> s, state |-> "INITIALIZED"])
  /\ UNCHANGED <<android, lapsed, records, bySession, pipes, registered,
                 projecting, indicator, consented>>

\* SystemConsentGate.request_consent: the dialog waiting for this screen session,
\* or a new one.
Ask(c) ==
  LET s == sessions[c].screen IN
  IF Evaluate(s) = "REQUESTED" THEN UNCHANGED <<records, bySession>>
  ELSE /\ Len(records) < MaxTokens
       /\ records' = Append(records,
            [screen |-> s, askedBy |-> c, state |-> "REQUESTED"])
       /\ bySession' = [bySession EXCEPT ![s] = Len(records) + 1]

\* AegisController.request_system_consent.
RequestSystemConsent(c) ==
  /\ android
  /\ Ask(c)
  /\ SetState(c, "SYSTEM_CONSENT_REQUIRED")
  /\ UNCHANGED <<android, lapsed, pipes, registered, projecting, indicator, consented>>

\* SystemConsentGate.grant_consent returns instead of raising; an expired record
\* is granted like one that waits.
Grantable(t) == records[t].state \notin {"DENIED", "REVOKED"}

\* AegisController.grant_system_consent: the child tapped Allow.  Nothing ties the
\* token to the session.
GrantSystemConsent(c, t) ==
  /\ android
  /\ Grantable(t)
  /\ records' = [records EXCEPT ![t].state = "GRANTED"]
  /\ SetState(c, "SYSTEM_CONSENT_GRANTED")
  /\ consented' = consented \cup {records[t].screen}
  /\ UNCHANGED <<android, lapsed, bySession, pipes, registered, projecting, indicator>>

\* The screens whose deciding record is one of ts.
DecidedBy(ts) == {s \in ScreenSessions : bySession[s] \in ts}

\* AegisController.deny_system_consent.
DenySystemConsent(c, t) ==
  /\ android
  /\ records' = [records EXCEPT ![t].state = "DENIED"]
  /\ SetState(c, "SYSTEM_CONSENT_DENIED")
  /\ consented' = consented \ DecidedBy({t})
  /\ UNCHANGED <<android, lapsed, bySession, pipes, registered, projecting, indicator>>

\* SystemConsentGate.revoke_consent, called by the companion.
RevokeConsent(t) ==
  /\ android
  /\ records[t].state \notin {"REVOKED", "EXPIRED"}
  /\ records' = [records EXCEPT ![t].state = "REVOKED"]
  /\ consented' = consented \ DecidedBy({t})
  /\ UNCHANGED <<android, sessions, lapsed, bySession, pipes, registered,
                 projecting, indicator>>

\* SystemConsentGate.expire_due.
ExpireConsents ==
  LET due == {t \in DOMAIN records :
                records[t].askedBy <= lapsed /\ records[t].state \in {"GRANTED", "REQUESTED"}}
  IN /\ due # {}
     /\ records' = [t \in DOMAIN records |->
          IF t \in due THEN [records[t] EXCEPT !.state = "EXPIRED"] ELSE records[t]]
     /\ consented' = consented \ DecidedBy(due)
     /\ UNCHANGED <<android, sessions, lapsed, bySession, pipes, registered,
                    projecting, indicator>>

-----------------------------------------------------------------------------
\* ForegroundServiceIndicator.start returns instead of raising.
IndicatorFree(c) == indicator \in {0, c}

NewPipeline(c) ==
  [for |-> c, running |-> TRUE, last |-> 0, buffer |-> <<>>,
   queued |-> 0, taken |-> 0, sent |-> 0]

\* AegisController.start_capture: the row says CAPTURING before the projection
\* starts.  A provider that fails to start leaves a pipeline that never ran; an
\* indicator that shows another session leaves one that runs and is registered
\* nowhere.
StartCapture(c) ==
  /\ CaptureAllowed(sessions[c].screen)
  /\ Len(pipes) < MaxPipelines
  /\ SetState(c, "CAPTURING")
  /\ \/ UNCHANGED <<pipes, registered, projecting, indicator>>
     \/ /\ pipes' = Append(pipes, NewPipeline(c))
        /\ projecting' = TRUE
        /\ IF IndicatorFree(c)
           THEN /\ indicator' = c
                /\ registered' = [registered EXCEPT ![c] = Len(pipes) + 1]
           ELSE UNCHANGED <<indicator, registered>>
  /\ UNCHANGED <<android, lapsed, records, bySession, consented>>

\* Mutant: stop forgets the buffer.
StoppedWithFrames(p) == [pipes[p] EXCEPT !.running = FALSE]

\* AegisFramePipeline.stop.
StoppedPipe(p) == [pipes[p] EXCEPT !.running = FALSE, !.buffer = <<>>]

\* Mutant: a stop keeps the consent for the next time.
KeepTheConsent(cs) ==
  /\ UNCHANGED records
  /\ consented' = consented \ {sessions[c].screen : c \in cs}

\* What stop_capture does to the consent of the sessions cs: the deciding record
\* of each one's screen is revoked if it was granted.
WithdrawConsent(cs) ==
  LET screens == {sessions[c].screen : c \in cs}
      granted == {bySession[s] : s \in {u \in screens : bySession[u] # 0
                                                        /\ Newest(u).state = "GRANTED"}}
  IN /\ records' = [t \in DOMAIN records |->
          IF t \in granted THEN [records[t] EXCEPT !.state = "REVOKED"] ELSE records[t]]
     /\ consented' = consented \ screens

Unregister(cs) == registered' = [c \in Captures |-> IF c \in cs THEN 0 ELSE registered[c]]

\* The body of stop_capture for each session of cs: only the registered pipeline
\* is stopped, and the notification is taken down whatever session it shows.
TearDown(cs) ==
  LET stopped == {registered[c] : c \in cs} \ {0} IN
  /\ pipes' = [p \in DOMAIN pipes |-> IF p \in stopped THEN StoppedPipe(p) ELSE pipes[p]]
  /\ projecting' = (projecting /\ stopped = {})
  /\ Unregister(cs)
  /\ indicator' = 0
  /\ WithdrawConsent(cs)
  /\ UNCHANGED <<android, lapsed, bySession>>

\* AegisController.stop_capture.
StopCapture(c) ==
  /\ TearDown({c})
  /\ SetState(c, "STOPPED")

\* AegisController.expire_due: every due session in the order of creation.  The
\* audit record of one may fail; that one stays STOPPED, the later ones are not
\* reached.
ExpireDue ==
  LET due == {c \in 1 .. lapsed : sessions[c].state \notin {"STOPPED", "EXPIRED"}} IN
  /\ due # {}
  /\ \E failed \in due \cup {0} :
       LET reached == {c \in due : failed = 0 \/ c <= failed}
       IN /\ TearDown(reached)
          /\ sessions' = [c \in Created |->
               IF c \in reached THEN [sessions[c] EXCEPT !.state =
                                       IF c = failed THEN "STOPPED" ELSE "EXPIRED"]
                                ELSE sessions[c]]

\* Time passes the expires_at of the next session; all live equally long.
Lapse ==
  /\ lapsed < Len(sessions)
  /\ lapsed' = lapsed + 1
  /\ UNCHANGED <<android, sessions, records, bySession, pipes, registered,
                 projecting, indicator, consented>>

-----------------------------------------------------------------------------
\* tick: frame.sequence.
NextSequence(p) == pipes[p].last + 1

\* FrameMetrics.record_queue.
Counted(p) == pipes[p].queued + 1

\* capture_frame of the shared provider returns a frame.
ProviderStarted(p) == pipes[p].running /\ projecting

\* AegisFramePipeline.tick: the frame is numbered after the last one and pushed
\* with DROP_OLDEST; a push that drops one returns False, and is counted as a drop and
\* not as queued.  Without a started provider, or after a failure of it or of
\* the encoder, nothing but the failure counters changes.
Tick(p) ==
  LET full == Len(pipes[p].buffer) = MaxWaiting
      kept == IF full THEN Tail(pipes[p].buffer) ELSE pipes[p].buffer
  IN /\ ProviderStarted(p)
     /\ MapThenSumSet(LAMBDA q : pipes[q].last, DOMAIN pipes) < MaxFrames
     /\ pipes' = [pipes EXCEPT ![p].buffer = Append(kept, NextSequence(p)),
                               ![p].last = NextSequence(p),
                               ![p].queued = IF full THEN @ ELSE Counted(p)]
     /\ UNCHANGED <<android, sessions, lapsed, records, bySession, registered,
                    projecting, indicator, consented>>

\* AegisFramePipeline.drain, first half: the buffer is emptied under its own lock.
DrainBuffer(p) ==
  LET b == pipes[p].buffer IN
  /\ b # <<>> /\ pipes[p].taken = 0
  /\ pipes' = [pipes EXCEPT ![p].buffer = <<>>,
                            ![p].taken = Len(b),
                            ![p].sent = b[Len(b)]]
  /\ UNCHANGED <<android, sessions, lapsed, records, bySession, registered,
                 projecting, indicator, consented>>

\* drain, second half: frames_queued, under the pipeline's lock.
DrainCount(p) ==
  /\ pipes[p].taken > 0
  /\ pipes' = [pipes EXCEPT ![p].queued = IF @ > pipes[p].taken THEN @ - pipes[p].taken ELSE 0,
                            ![p].taken = 0]
  /\ UNCHANGED <<android, sessions, lapsed, records, bySession, registered,
                 projecting, indicator, consented>>

ControllerStep ==
  \/ \E s \in ScreenSessions : CreateSession(s)
  \/ \E c \in Created : \/ RequestSystemConsent(c)
                        \/ StartCapture(c)
                        \/ StopCapture(c)
                        \/ \E t \in DOMAIN records : \/ GrantSystemConsent(c, t)
                                                     \/ DenySystemConsent(c, t)
  \/ \E t \in DOMAIN records : RevokeConsent(t)
  \/ ExpireConsents
  \/ ExpireDue
  \/ Lapse

FrameStep == \E p \in DOMAIN pipes : Tick(p) \/ DrainBuffer(p) \/ DrainCount(p)

AegisNext == ControllerStep \/ FrameStep

AegisSpec == AegisInit /\ [][AegisNext]_aegisVars

-----------------------------------------------------------------------------
\* Whenever the gate lets a capture start, the child has tapped Allow for that
\* screen session since the last stop, expiry, denial or revocation, whichever of
\* several Aegis sessions that was for (consent.py 246-332, controller.py 413-480).
ConsentIsFresh == \A s \in ScreenSessions : CaptureAllowed(s) => s \in consented

\* Frames wait only in a pipeline that runs: whatever stopped it threw the rest
\* away, whatever was ticked or drained in between (pipeline.py stop, tick, drain).
NoFramesOutliveTheStop ==
  \A p \in DOMAIN pipes : pipes[p].buffer # <<>> => pipes[p].running
=============================================================================
