----------------------------- MODULE VoiceCalls ------------------------------
(* The voice calls of the web service: web/live/runtime.py and login.py.   *)
(* One call at a time, over one of three paths: the browser's own media    *)
(* with a sideband of the server ("webrtc"), the audio relayed by the      *)
(* server ("relay"), and a call on a ChatGPT login ("login").  The task of  *)
(* the call owns the provider's session; the request that created it, the  *)
(* audio socket, polls, End and the shutdown act on it from outside.       *)
(*                                                                         *)
(* What is said, captions, the bridge to the assistant (VoiceRequests) and *)
(* the diagnostics are left out.  A timeout may come at any moment.        *)
EXTENDS Naturals, FiniteSets

CONSTANTS
    MaxCalls,       \* bound: calls created, one after the other
    MaxFaults       \* bound: failures of the provider and of the network

VoiceCallsAssumption == MaxCalls \in Nat /\ MaxFaults \in Nat

Calls == 1 .. MaxCalls
Paths == {"webrtc", "relay", "login"}

VARIABLES
    lane,           \* the call that is active, or 0
    path, stop, failed,     \* of the active call
    status, ready,          \* of each call
    session,        \* what the provider has of it
    maker,          \* the request that created it
    browser,        \* its audio socket
    pc,             \* where the task of the active call is
    known,          \* the provider's identifier was received
    observer,       \* the task that reads the provider's events
    attached, finalized,    \* what it has read
    lease,          \* whether the browser has polled in time
    service, faults

vars == <<lane, path, status, stop, failed, ready, session, maker, browser, pc,
          known, observer, attached, finalized, lease, service, faults>>
outside == <<maker, browser, service>>
reading == <<observer, attached, finalized>>

Ended == {"closed", "error"}
Steps == {"none", "seed", "begin", "offer", "provision", "answer", "media", "attach", "live",
          "closing", "asked", "hangup", "unconfirmed", "join"}

TypeOK ==
    /\ lane \in Calls \cup {0} /\ path \in Paths \cup {"none"}
    /\ status \in [Calls -> {"none", "connecting", "connected", "closing"} \cup Ended]
    /\ ready \in [Calls -> BOOLEAN]
    /\ session \in [Calls -> {"none", "open", "over"}]
    /\ maker \in [Calls -> {"none", "waiting", "joining", "answered", "refused"}]
    /\ browser \in [Calls -> {"none", "on", "joining", "gone"}]
    /\ pc \in Steps /\ (pc = "none" <=> lane = 0)
    /\ observer \in {"none", "running", "done"} /\ lease \in {"fresh", "late"}
    /\ {stop, failed, known, attached, finalized} \subseteq BOOLEAN
    /\ service \in {"open", "closing", "closed"} /\ faults \in 0 .. MaxFaults

Init ==
    /\ lane = 0 /\ pc = "none" /\ known = FALSE /\ lease = "fresh"
    /\ path = "none" /\ stop = FALSE /\ failed = FALSE
    /\ status = [c \in Calls |-> "none"] /\ ready = [c \in Calls |-> FALSE]
    /\ session = status /\ maker = status /\ browser = status
    /\ observer = "none" /\ attached = FALSE /\ finalized = FALSE
    /\ service = "open" /\ faults = 0

OneFault == faults < MaxFaults /\ faults' = faults + 1

\* request_stop.
Stopped(c) ==
    IF c = 0 \/ lane # c \/ stop THEN UNCHANGED <<stop, status>>
    ELSE stop' = TRUE /\ status' = [status EXCEPT ![c] = "closing"]

Fail == failed' = TRUE
Over(c) == session' = [session EXCEPT ![c] = "over"]

(******************************** admission ********************************)

\* create and create_stream reserve the lane before they wait for anything.
Create(p) ==
    /\ service = "open" /\ lane = 0
    /\ \E c \in Calls :
        /\ status[c] = "none" /\ (\A d \in 1 .. c - 1 : status[d] # "none")
        /\ lane' = c /\ path' = p
        /\ status' = [status EXCEPT ![c] = "connecting"]
        /\ maker' = [maker EXCEPT ![c] = "waiting"]
    /\ pc' = "seed" /\ known' = FALSE /\ lease' = "fresh"
    /\ observer' = "none" /\ attached' = FALSE /\ finalized' = FALSE
    /\ UNCHANGED <<stop, failed, ready, session, browser, service, faults>>

\* It is answered when the call is ready, unless it is over or ending by then.
Answer(c) ==
    /\ maker[c] = "waiting" /\ ready[c]
    /\ maker' = [maker EXCEPT ![c] =
                    IF lane # c \/ stop \/ failed THEN "joining" ELSE "answered"]
    /\ UNCHANGED <<lane, path, status, stop, failed, ready, session, browser, pc, known,
                   reading, lease, service, faults>>

\* The browser gives its request up.
GiveUp(c) ==
    /\ maker[c] = "waiting"
    /\ Stopped(c) /\ maker' = [maker EXCEPT ![c] = "joining"]
    /\ UNCHANGED <<lane, path, failed, ready, session, browser, pc, known, reading, lease,
                   service, faults>>

\* Who has to join the task of the call goes on when it has ended.
Join(c) ==
    /\ lane # c
    /\ \/ maker[c] = "joining" /\ maker' = [maker EXCEPT ![c] = "refused"] /\ UNCHANGED browser
       \/ browser[c] = "joining" /\ browser' = [browser EXCEPT ![c] = "gone"] /\ UNCHANGED maker
    /\ UNCHANGED <<lane, path, status, stop, failed, ready, session, pc, known, reading,
                   lease, service, faults>>

(***************************** the browser *********************************)

\* serve_audio.
ServeAudio ==
    /\ lane # 0 /\ path = "relay" /\ browser[lane] = "none"
    /\ ~stop /\ status[lane] = "connected"
    /\ browser' = [browser EXCEPT ![lane] = "on"]
    /\ UNCHANGED <<lane, path, status, stop, failed, ready, session, maker, pc, known,
                   reading, lease, service, faults>>

\* Its socket is lost, floods or stalls, or the call is stopped.
LeaveAudio(c) ==
    /\ browser[c] = "on"
    /\ Stopped(c) /\ browser' = [browser EXCEPT ![c] = "joining"]
    /\ UNCHANGED <<lane, path, failed, ready, session, maker, pc, known, reading, lease,
                   service, faults>>

LeaseRunsOut ==
    /\ pc = "live" /\ lease = "fresh" /\ lease' = "late"
    /\ UNCHANGED <<lane, path, status, stop, failed, ready, session, outside, pc, known,
                   reading, faults>>

\* snapshot: a poll that comes too late does not renew the lease.
PollLate ==
    /\ lane # 0 /\ status[lane] = "connected" /\ ~stop /\ lease = "late"
    /\ Stopped(lane)
    /\ UNCHANGED <<lane, path, failed, ready, session, outside, pc, known, reading, lease, faults>>

\* close.
End ==
    /\ lane # 0 /\ ~stop /\ Stopped(lane)
    /\ UNCHANGED <<lane, path, failed, ready, session, outside, pc, known, reading, lease, faults>>

Shutdown ==
    /\ service = "open" /\ service' = "closing"
    /\ Stopped(lane)
    /\ UNCHANGED <<lane, path, failed, ready, session, maker, browser, pc, known, reading,
                   lease, faults>>

ShutDown ==
    /\ service = "closing" /\ lane = 0 /\ service' = "closed"
    /\ UNCHANGED <<lane, path, status, stop, failed, ready, session, maker, browser, pc,
                   known, reading, lease, faults>>

(****************************** the provider *******************************)

\* A relayed session starts on its own connection, the others are attached to.
Attach ==
    /\ observer = "running" /\ ~attached
    /\ \/ path = "relay" /\ session[lane] = "none"
          /\ session' = [session EXCEPT ![lane] = "open"]
       \/ path # "relay" /\ session[lane] = "open" /\ UNCHANGED session
    /\ attached' = TRUE
    /\ UNCHANGED <<lane, path, status, stop, failed, ready, outside, pc, known, observer,
                   finalized, lease, faults>>

\* It ends the session on its own account.
Expire(c) ==
    /\ session[c] = "open" /\ OneFault /\ Over(c)
    /\ UNCHANGED <<lane, path, status, stop, failed, ready, outside, pc, known, reading, lease>>

\* session.closed.
ReadClosed ==
    /\ observer = "running" /\ attached /\ session[lane] = "over"
    /\ finalized' = TRUE /\ observer' = "done"
    /\ UNCHANGED <<lane, path, status, stop, failed, ready, session, outside, pc, known,
                   attached, lease, faults>>

\* The connection is lost, or an error is reported on it.  A relayed session
\* ends with its connection.
ReadFails ==
    /\ observer = "running" /\ OneFault
    /\ observer' = "done" /\ Fail
    /\ IF path = "relay" /\ session[lane] = "open" THEN Over(lane) ELSE UNCHANGED session
    /\ UNCHANGED <<lane, path, status, stop, ready, outside, pc, known, attached, finalized, lease>>

(*************************** the task of the call **************************)

Go(next) == pc' = next

\* The end of the task: what it found out is what the record says.
Retire(bad) ==
    /\ status' = [status EXCEPT ![lane] = IF bad THEN "error" ELSE "closed"]
    /\ ready' = [ready EXCEPT ![lane] = TRUE]
    /\ lane' = 0 /\ pc' = "none"
    /\ path' = "none" /\ stop' = FALSE /\ failed' = FALSE /\ known' = FALSE /\ lease' = "fresh"
    /\ observer' = "none" /\ attached' = FALSE /\ finalized' = FALSE
    /\ UNCHANGED outside

\* _seed and the captions, the voice login and the configuration of the agent.
Seed ==
    /\ pc = "seed" /\ Go("begin")
    /\ UNCHANGED <<lane, path, status, stop, failed, ready, session, outside, known, reading, lease, faults>>

SetupFails ==
    /\ \/ pc = "seed"
       \/ pc = "begin" /\ path # "login" /\ ~stop
    /\ OneFault /\ Retire(TRUE) /\ UNCHANGED session

\* A call that was stopped meanwhile asks the provider for nothing.
Begin ==
    /\ pc = "begin"
    /\ IF stop THEN Go("closing") /\ UNCHANGED observer
       ELSE CASE path = "webrtc" -> Go("provision") /\ UNCHANGED observer
              [] path = "login" -> Go("offer") /\ UNCHANGED observer
              [] path = "relay" -> Go("attach") /\ observer' = "running"
    /\ UNCHANGED <<lane, path, status, stop, failed, ready, session, outside, known, attached,
                   finalized, lease, faults>>

\* prepare: the offer of the media; then the stop is looked at once more.
Offer ==
    /\ pc = "offer" /\ Go(IF stop THEN "closing" ELSE "provision")
    /\ UNCHANGED <<lane, path, status, stop, failed, ready, session, outside, known, reading, lease, faults>>

\* The request has reached the provider.
Allocate ==
    /\ pc = "provision" /\ session[lane] = "none"
    /\ session' = [session EXCEPT ![lane] = "open"]
    /\ UNCHANGED <<lane, path, status, stop, failed, ready, outside, pc, known, reading, lease, faults>>

\* Its answer is awaited even when the call is stopped: who does not know the
\* identifier of the session cannot end it.
Provisioned ==
    /\ pc = "provision" /\ session[lane] # "none"
    /\ known' = TRUE
    /\ CASE path = "login" -> Go("answer") /\ UNCHANGED observer
         [] stop -> Go("closing") /\ UNCHANGED observer
         [] OTHER -> Go("attach") /\ observer' = "running"
    /\ UNCHANGED <<lane, path, status, stop, failed, ready, session, outside, attached,
                   finalized, lease, faults>>

\* The body of the answer: the control connection is opened, then the media.
AnswerRead ==
    /\ pc = "answer" /\ ~stop /\ Go("media") /\ observer' = "running"
    /\ UNCHANGED <<lane, path, status, stop, failed, ready, session, outside, known, attached,
                   finalized, lease, faults>>

MediaUp ==
    /\ pc = "media" /\ ~stop /\ Go("attach")
    /\ UNCHANGED <<lane, path, status, stop, failed, ready, session, outside, known, reading, lease, faults>>

\* Mutant: a stop abandons the setup, whether the identifier is known or not.
StoppedAnywhere ==
    /\ pc \in {"provision", "answer", "media"} /\ stop /\ Go("closing")
    /\ UNCHANGED <<lane, path, status, stop, failed, ready, session, outside, known, reading, lease, faults>>

\* With a known identifier a stalled setup may be abandoned.
SetupStopped ==
    /\ pc \in {"answer", "media"} /\ stop /\ Go("closing")
    /\ UNCHANGED <<lane, path, status, stop, failed, ready, session, outside, known, reading, lease, faults>>

\* The provider refuses, answers with nonsense, or is not heard in time.
ProvisionFails ==
    /\ pc \in {"offer", "provision", "answer", "media"}
    /\ Fail /\ Go("closing")
    /\ \/ UNCHANGED known
       \/ pc = "provision" /\ session[lane] # "none" /\ known' = TRUE
    /\ UNCHANGED <<lane, path, status, stop, ready, session, outside, reading, lease, faults>>

\* _connected.
Connect ==
    /\ pc = "attach" /\ ~stop /\ attached /\ observer = "running"
    /\ status' = [status EXCEPT ![lane] = "connected"]
    /\ ready' = [ready EXCEPT ![lane] = TRUE]
    /\ lease' = "fresh" /\ Go("live")
    /\ UNCHANGED <<lane, path, stop, failed, session, outside, known, reading, faults>>

\* A stop comes first; the observer ended, or nothing was heard in time.
NotConnected ==
    /\ pc = "attach" /\ Go("closing")
    /\ IF stop THEN UNCHANGED failed
       ELSE (observer = "done" \/ ~attached) /\ Fail
    /\ UNCHANGED <<lane, path, status, stop, ready, session, outside, known, reading, lease, faults>>

\* Mutant: a call ends with its connection only.
HangsWithObserver ==
    /\ pc = "live" /\ observer = "done" /\ Go("closing")
    /\ UNCHANGED <<lane, path, status, stop, failed, ready, session, outside, known, reading, lease, faults>>

\* The call is stopped, its observer ends, or its browser is silent for too long.
Hangs ==
    /\ pc = "live" /\ (stop \/ observer = "done" \/ lease = "late") /\ Go("closing")
    /\ IF ~stop /\ observer # "done" THEN Stopped(lane) ELSE UNCHANGED <<stop, status>>
    /\ UNCHANGED <<lane, path, failed, ready, session, outside, known, reading, lease, faults>>

\* The bridge is detached and the record says that the call is closing.  The
\* provider is asked over the connection, if there is one.
Closing ==
    /\ pc = "closing"
    /\ status' = [status EXCEPT ![lane] = "closing"]
    /\ Go(IF observer = "running" THEN "asked" ELSE "hangup")
    /\ UNCHANGED <<lane, path, stop, failed, ready, session, outside, known, reading, lease, faults>>

Asked ==
    /\ pc \in {"asked", "unconfirmed"} /\ attached /\ session[lane] = "open" /\ observer = "running"
    /\ Over(lane)
    /\ UNCHANGED <<lane, path, status, stop, failed, ready, outside, pc, known, reading, lease, faults>>

\* The observer ended, or was waited for long enough.  That of a relay is
\* cancelled here, and the connection with it.
Waited ==
    /\ pc = "asked" /\ Go("hangup")
    /\ IF path # "webrtc" THEN observer' = "done" ELSE UNCHANGED observer
    /\ IF path = "relay" /\ session[lane] = "open" THEN Over(lane) ELSE UNCHANGED session
    /\ UNCHANGED <<lane, path, status, stop, failed, ready, outside, known, attached, finalized, lease, faults>>

\* Without a confirmation the call of a sideband is hung up over HTTP, and that
\* of a login is ended over a control connection of its own.
HangUp ==
    /\ pc = "hangup" /\ ~finalized /\ known
    /\ \/ /\ path = "webrtc" /\ Over(lane) /\ Go("join")
          /\ UNCHANGED <<failed, finalized, faults>>
       \/ /\ path = "webrtc" /\ OneFault /\ Go("unconfirmed")
          /\ UNCHANGED <<session, failed, finalized>>
       \/ /\ path = "login" /\ Over(lane) /\ finalized' = TRUE /\ Go("join")
          /\ UNCHANGED <<failed, faults>>
       \/ /\ path = "login" /\ Fail /\ Go("join")
          /\ IF session[lane] = "over" THEN UNCHANGED faults ELSE OneFault
          /\ UNCHANGED <<session, finalized>>
    /\ UNCHANGED <<lane, path, status, stop, ready, outside, known, observer, attached, lease>>

NoHangUp ==
    /\ pc = "hangup" /\ (finalized \/ ~known) /\ Go("join")
    /\ IF path = "relay" /\ attached /\ ~finalized THEN Fail ELSE UNCHANGED failed
    /\ UNCHANGED <<lane, path, status, stop, ready, session, outside, known, reading, lease, faults>>

\* The observer and the agent are closed.  A confirmation that arrives meanwhile
\* excuses a hangup that failed.
Finish ==
    /\ pc \in {"join", "unconfirmed"} /\ UNCHANGED session
    /\ \/ Retire(failed \/ (pc = "unconfirmed" /\ ~finalized)) /\ UNCHANGED faults
       \/ OneFault /\ Retire(TRUE)

TaskStep ==
    \/ Seed \/ SetupFails \/ Begin \/ Offer \/ Provisioned \/ AnswerRead \/ MediaUp \/ SetupStopped
    \/ ProvisionFails \/ Connect \/ NotConnected \/ Hangs \/ Closing \/ Waited \/ HangUp \/ NoHangUp \/ Finish

Next ==
    \/ \E p \in Paths : Create(p)
    \/ \E c \in Calls : Answer(c) \/ GiveUp(c) \/ Join(c) \/ LeaveAudio(c) \/ Expire(c)
    \/ ServeAudio \/ LeaseRunsOut \/ PollLate \/ End \/ Shutdown \/ ShutDown
    \/ Attach \/ ReadClosed \/ ReadFails \/ Allocate \/ Asked
    \/ TaskStep

\* Every wait of the task has a timeout; a request that waits for the task, the
\* audio socket of a call that was stopped and the shutdown go on in the end.
Progress ==
    \/ TaskStep \/ ShutDown
    \/ \E c \in Calls : Answer(c) \/ Join(c) \/ ((lane # c \/ stop) /\ LeaveAudio(c))

Fairness == WF_vars(Progress)

Spec == Init /\ [][Next]_vars
FairSpec == Spec /\ Fairness

(******************************** properties *******************************)

\* "Losing its response could orphan an allocated call": a call whose record says
\* closed has left no session at the provider, and two are open only after one
\* whose record says that its end is unconfirmed.
NothingOrphaned ==
    /\ \A c \in Calls : status[c] = "closed" => session[c] # "open"
    /\ \A c, d \in Calls : c < d /\ session[c] = "open" /\ session[d] # "none" => status[c] = "error"

\* A call that is closing never comes back, however late its connection was made,
\* and what its record says at the end is final.
NoRevival ==
    \A c \in Calls :
        /\ status[c] = "closing" => status'[c] \in {"closing"} \cup Ended
        /\ status[c] \in Ended => status'[c] = status[c]

CallsEndHonestly == [][NothingOrphaned' /\ NoRevival]_vars

\* A call that is stopped or whose browser is silent frees the lane; who waits for
\* a call is answered, and the shutdown ends.
CallsAreFreed ==
    /\ \A c \in Calls :
        /\ lane = c /\ (stop \/ lease = "late") ~> lane # c
        /\ maker[c] \in {"waiting", "joining"} ~> maker[c] \in {"answered", "refused"}
        /\ browser[c] = "joining" ~> browser[c] = "gone"
    /\ service = "closing" ~> service = "closed"
=============================================================================
