--------------------------- MODULE VoiceRequests ----------------------------
(* The requests of a voice call to the assistant: web/live/bridge.py and   *)
(* web/live/updates.py, between the lanes of web/live/handoff.py that hand *)
(* them over and the inbox and runs of the web host that execute them.     *)
(* The call may end, be cancelled or lose its transport at any time, while *)
(* what it asked for stays in the inbox and is executed.                   *)
(*                                                                         *)
(* One chat.  The inbox rows and runs are the host's (WebHost models how   *)
(* rows are claimed); here they only take rows, end, and tell observers.   *)
EXTENDS Naturals, FiniteSets

CONSTANTS
    Requests,   \* what the provider may ask in one call
    Room,       \* updates that may wait for the voice transport
    MaxFaults   \* bound: refused submissions, timeouts, lost transports,
                \* requeued claims, runs for other work

VoiceAssumption ==
    /\ IsFiniteSet(Requests)
    /\ Room \in Nat \ {0} /\ MaxFaults \in Nat

\* Each run takes a row for good, or counts as a fault.
MaxRuns == Cardinality(Requests) + MaxFaults

VARIABLES
    lane,       \* per request: where its handler is
    stop,       \* requests whose handler is being cancelled
    open,       \* the lanes accept notices
    observed, submitted, pending, terminal,     \* sets of the bridge
    owner,      \* _request_runs: per request the run that admitted it, or 0
    status,     \* the record of the call: what the caller is shown
    attached,   \* the bridge is not closed
    closed,     \* updates: no more is sent
    failed,     \* updates: the transport or its buffer failed
    detached,   \* updates: no more is asked
    heard,      \* updates.observe is among the run observers
    queue,      \* updates that wait
    row,        \* per request: its inbox row
    claim,      \* per request: the run that claimed its row, or 0
    run,        \* the active run, or 0
    outcome,    \* how it ended, or "none" while it works
    runs, faults,
    chat        \* the chat exists

vars == <<lane, stop, open, observed, submitted, pending, terminal, owner, status,
          attached, closed, failed, detached, heard, queue, row, claim, run, outcome,
          runs, faults, chat>>
bridge == <<observed, submitted, terminal, owner, status>>
updates == <<closed, failed, detached, heard, queue>>
host == <<row, claim, run, outcome, runs, chat>>

Outcomes == {"completed", "failed", "cancelled"}
Refusals == {"refused", "unentered", "deleted"}     \* three ways to end without a run
Final == Outcomes \cup Refusals

TypeOK ==
    /\ lane \in [Requests -> {"none", "queued", "lock", "submit", "accepted", "refused", "done"}]
    /\ {stop, observed, submitted, pending, terminal} \subseteq SUBSET Requests
    /\ owner \in [Requests -> 0 .. MaxRuns] /\ claim \in [Requests -> 0 .. MaxRuns]
    /\ status \in [Requests -> {"none", "queued", "working"} \cup Final]
    /\ {open, attached, closed, failed, detached, heard, chat} \subseteq BOOLEAN
    /\ queue \in 0 .. Room
    /\ row \in [Requests -> {"none", "queued", "claimed", "bound", "gone"} \cup Outcomes]
    /\ run \in 0 .. MaxRuns /\ outcome \in {"none"} \cup Outcomes
    /\ runs \in 0 .. MaxRuns /\ faults \in 0 .. MaxFaults

Init ==
    /\ lane = [q \in Requests |-> "none"] /\ stop = {} /\ open = TRUE
    /\ observed = {} /\ submitted = {} /\ pending = {} /\ terminal = {}
    /\ owner = [q \in Requests |-> 0] /\ status = [q \in Requests |-> "none"]
    /\ attached = TRUE /\ closed = FALSE /\ failed = FALSE /\ detached = FALSE
    /\ heard = TRUE /\ queue = 0
    /\ row = [q \in Requests |-> "none"] /\ claim = [q \in Requests |-> 0]
    /\ run = 0 /\ outcome = "none" /\ runs = 0 /\ faults = 0 /\ chat = TRUE

OneFault == faults < MaxFaults /\ faults' = faults + 1

(************************** reports and updates ****************************)

\* _report: the record keeps the first final status of a request, and forgets
\* nothing that is not final; one run owns a request (_Record.delegation).
Shown(q, s) ==
    IF status[q] = "none" THEN IF s = "queued" THEN s ELSE "none"
    ELSE IF status[q] \in Final THEN status[q]
    ELSE s

Report(qs, s) ==
    /\ status' = [q \in Requests |-> IF q \in qs THEN Shown(q, s) ELSE status[q]]
    /\ terminal' = IF s \in Final THEN terminal \cup qs ELSE terminal

\* append: n updates enter the buffer; when it is full the transport is given
\* up, and the chat is observed on only while something is pending.
Overflows(n) == ~closed /\ queue + n > Room

Buffer(n) ==
    /\ closed' = (closed \/ Overflows(n)) /\ failed' = (failed \/ Overflows(n))
    /\ queue' = IF closed THEN queue ELSE IF Overflows(n) THEN Room ELSE queue + n

Append(n) ==
    /\ Buffer(n)
    /\ heard' = (heard /\ (Overflows(n) => pending' # {}))
    /\ UNCHANGED detached

\* _send: the transport takes an update, or fails.
Send ==
    /\ ~closed /\ queue > 0 /\ queue' = queue - 1
    /\ UNCHANGED <<lane, stop, open, pending, bridge, attached, closed, failed, detached, heard, host, faults>>

SendFails ==
    /\ ~closed /\ queue > 0 /\ OneFault
    /\ closed' = TRUE /\ failed' = TRUE
    /\ heard' = (heard /\ pending # {})
    /\ UNCHANGED <<lane, stop, open, pending, bridge, attached, detached, queue, host>>

(***************************** the call's lanes ****************************)

\* The provider's notice is observed before a lane takes it up; one without a
\* request fails at once (observe_native).
Notice(q) ==
    /\ open /\ lane[q] = "none"
    /\ IF detached
       THEN lane' = [lane EXCEPT ![q] = "queued"] /\ UNCHANGED <<observed, status, terminal>>
       ELSE /\ observed' = observed \cup {q}
            /\ \/ lane' = [lane EXCEPT ![q] = "queued"] /\ Report({q}, "queued")
               \/ /\ lane' = [lane EXCEPT ![q] = "done"]
                  /\ status' = [status EXCEPT ![q] = "refused"] /\ terminal' = terminal \cup {q}
    /\ UNCHANGED <<stop, open, submitted, pending, owner, attached, updates, host, faults>>

\* A lane calls handle_request, which waits for the admission lock.
Take(q) ==
    /\ open /\ lane[q] = "queued" /\ lane' = [lane EXCEPT ![q] = "lock"]
    /\ UNCHANGED <<stop, open, pending, bridge, attached, updates, host, faults>>

Locked == \E q \in Requests : lane[q] \in {"submit", "accepted", "refused"}

MayAdmit(q) == lane[q] = "lock" /\ q \notin stop /\ ~Locked

\* With the lock: a request is pending before its submission begins.
Admit(q) ==
    /\ MayAdmit(q) /\ ~detached /\ q \notin submitted \cup terminal /\ ~failed
    /\ lane' = [lane EXCEPT ![q] = "submit"]
    /\ pending' = pending \cup {q}
    /\ UNCHANGED <<stop, open, bridge, attached, updates, host, faults>>

\* With the lock: too late, for a transport that failed, or without anything new.
TurnAway(q) ==
    /\ MayAdmit(q)
    /\ lane' = [lane EXCEPT ![q] = "done"]
    /\ IF detached \/ q \in submitted \cup terminal
       THEN UNCHANGED <<status, terminal, updates, pending>>
       ELSE Report({q}, "refused") /\ UNCHANGED pending /\ Append(1)
    /\ UNCHANGED <<stop, open, observed, submitted, owner, attached, host, faults>>

\* QueuedInputs.submit is joined also by a handler that is cancelled.
Commit(q) ==
    /\ lane[q] = "submit" /\ chat
    /\ lane' = [lane EXCEPT ![q] = "accepted"]
    /\ row' = [row EXCEPT ![q] = "queued"]
    /\ UNCHANGED <<stop, open, pending, bridge, attached, updates, claim, run, outcome, runs, chat, faults>>

Refused(q) ==
    /\ lane[q] = "submit"
    /\ IF chat THEN OneFault ELSE UNCHANGED faults
    /\ lane' = [lane EXCEPT ![q] = "refused"]
    /\ UNCHANGED <<stop, open, pending, bridge, attached, updates, host>>

\* handle_request goes on after the submission: a cancellation comes first, an
\* error before the cancellation.
Accept(q) ==
    /\ lane[q] = "accepted"
    /\ lane' = [lane EXCEPT ![q] = "done"] /\ stop' = stop \ {q}
    /\ IF q \in stop
       THEN UNCHANGED <<submitted, updates, pending>>
       ELSE submitted' = submitted \cup {q} /\ UNCHANGED pending /\ Append(1)
    /\ UNCHANGED <<open, observed, terminal, owner, status, attached, host, faults>>

Refuse(q) ==
    /\ lane[q] = "refused"
    /\ lane' = [lane EXCEPT ![q] = "done"] /\ stop' = stop \ {q}
    /\ pending' = pending \ {q}
    /\ Report({q}, "refused")
    /\ Append(1)
    /\ UNCHANGED <<open, observed, submitted, owner, attached, host, faults>>

\* A handler that waits for the lock ends when it is cancelled.
Dropped(q) ==
    /\ lane[q] = "lock" /\ q \in stop
    /\ lane' = [lane EXCEPT ![q] = "done"] /\ stop' = stop \ {q}
    /\ UNCHANGED <<open, pending, bridge, attached, updates, host, faults>>

\* The lane's time limit.
Timeout(q) ==
    /\ lane[q] \in {"lock", "submit", "accepted", "refused"} /\ q \notin stop /\ OneFault
    /\ stop' = stop \cup {q}
    /\ UNCHANGED <<lane, open, pending, bridge, attached, updates, host>>

\* The transport ends: no lane takes another notice, and all are cancelled.
StopLanes ==
    /\ open /\ open' = FALSE
    /\ stop' = {q \in Requests : lane[q] \in {"lock", "submit", "accepted", "refused"}}
    /\ lane' = [q \in Requests |-> IF lane[q] = "queued" THEN "done" ELSE lane[q]]
    /\ UNCHANGED <<pending, bridge, attached, updates, host, faults>>

(***************************** end of the call *****************************)

\* updates.close keeps the observer while something is pending (retain).
Detach ==
    closed' = TRUE /\ detached' = TRUE /\ heard' = (heard /\ pending # {}) /\ queue' = 0

\* Mutant: a request under submission is reported as never entered.
CloseAll ==
    /\ attached /\ attached' = FALSE
    /\ Report(observed \ (submitted \cup terminal), "unentered")
    /\ Detach
    /\ UNCHANGED <<lane, stop, open, observed, submitted, pending, owner, failed, host, faults>>

\* Mutant: the observer is withdrawn although requests are pending.
CloseForgets ==
    /\ attached /\ attached' = FALSE
    /\ Report(observed \ (submitted \cup pending \cup terminal), "unentered")
    /\ closed' = TRUE /\ detached' = TRUE /\ heard' = FALSE /\ queue' = 0
    /\ UNCHANGED <<lane, stop, open, observed, submitted, pending, owner, failed, host, faults>>

\* bridge.close, which comes before or after the lanes are stopped.
Close ==
    /\ attached /\ attached' = FALSE
    /\ Report(observed \ (submitted \cup pending \cup terminal), "unentered")
    /\ Detach
    /\ UNCHANGED <<lane, stop, open, observed, submitted, pending, owner, failed, host, faults>>

\* _invalidate: whatever is pending ends with its chat.
Invalidate ==
    /\ Report(pending, "deleted") /\ pending' = {}
    /\ owner' = [q \in Requests |-> IF q \in pending THEN 0 ELSE owner[q]]

\* The chat is deleted while nothing runs in it, and its observers are told.
Delete ==
    /\ chat /\ run = 0
    /\ chat' = FALSE
    /\ row' = [q \in Requests |-> IF row[q] = "queued" THEN "gone" ELSE row[q]]
    /\ IF heard
       THEN closed' = TRUE /\ detached' = TRUE /\ heard' = FALSE /\ Invalidate
       ELSE UNCHANGED <<closed, detached, heard, status, terminal, pending, owner>>
    /\ UNCHANGED <<lane, stop, open, observed, submitted, attached, failed, queue, claim, run, outcome, runs, faults>>

(***************************** the chat's runs *****************************)

\* A run begins, with a row or with other work of the chat.
Begin ==
    /\ chat /\ run = 0
    /\ run' = runs + 1 /\ runs' = runs + 1 /\ outcome' = "none"
    /\ UNCHANGED <<lane, stop, open, pending, bridge, attached, updates, chat>>

BeginWith(q) ==
    /\ Begin /\ UNCHANGED faults
    /\ row[q] = "queued" /\ row' = [row EXCEPT ![q] = "claimed"]
    /\ claim' = [claim EXCEPT ![q] = run']

BeginOther == Begin /\ OneFault /\ UNCHANGED <<row, claim>>

\* pull: a run takes a row at a boundary of its responses.
Pull(q) ==
    /\ run # 0 /\ outcome = "none" /\ row[q] = "queued"
    /\ \A p \in Requests : row[p] # "claimed"
    /\ row' = [row EXCEPT ![q] = "claimed"] /\ claim' = [claim EXCEPT ![q] = run]
    /\ UNCHANGED <<lane, stop, open, pending, bridge, attached, updates, run, outcome, runs, chat, faults>>

\* The row goes back when the pull was cancelled or its run is over.
Requeue(q) ==
    /\ row[q] = "claimed" /\ outcome \in Outcomes
    /\ row' = [row EXCEPT ![q] = "queued"] /\ claim' = [claim EXCEPT ![q] = 0]
    /\ UNCHANGED <<lane, stop, open, pending, bridge, attached, updates, run, outcome, runs, chat, faults>>

\* input_admitted, which every bridge of the chat observes.
Hears == heard /\ ~(closed /\ pending = {})

Bind(q) ==
    /\ row[q] = "claimed" /\ outcome = "none" /\ row' = [row EXCEPT ![q] = "bound"]
    /\ heard' = Hears
    /\ IF Hears /\ q \in observed
       THEN owner' = [owner EXCEPT ![q] = run] /\ Report({q}, "working")
       ELSE UNCHANGED <<owner, status, terminal>>
    /\ UNCHANGED <<lane, stop, open, observed, submitted, pending, attached, closed, failed,
                   detached, queue, claim, run, outcome, runs, chat, faults>>

\* A run answers a request: an update for the caller.
Answer ==
    /\ run # 0 /\ outcome = "none" /\ Hears
    /\ UNCHANGED <<lane, stop, open, pending, bridge, attached, host, faults>>
    /\ Append(1)

\* The run is over, or stopped; its rows are settled with it.
End(o) ==
    /\ run # 0 /\ outcome = "none" /\ outcome' = o
    /\ IF \E q \in Requests : row[q] = "claimed" THEN OneFault ELSE UNCHANGED faults
    /\ row' = [q \in Requests |-> IF row[q] = "bound" /\ claim[q] = run THEN o ELSE row[q]]
    /\ UNCHANGED <<lane, stop, open, pending, bridge, attached, updates, claim, run, runs, chat>>

\* _finish_run: the requests that the run admitted end with it.
Mine == {q \in Requests : owner[q] = run}

FinishRun ==
    /\ pending' = pending \ Mine
    /\ owner' = [q \in Requests |-> IF q \in Mine THEN 0 ELSE owner[q]]
    /\ Report(Mine, outcome)

\* run_finished, which the caller is told of when the run did not complete.
Finish ==
    /\ run # 0 /\ outcome \in Outcomes /\ \A q \in Requests : row[q] # "claimed"
    /\ run' = 0
    /\ IF Hears
       THEN /\ Buffer(IF outcome = "completed" THEN 0 ELSE Cardinality(Mine) + 1)
            /\ FinishRun
            /\ heard' = ~(closed' /\ pending' = {}) /\ UNCHANGED detached
       ELSE /\ heard' = FALSE
            /\ UNCHANGED <<closed, failed, detached, queue, pending, owner, status, terminal>>
    /\ UNCHANGED <<lane, stop, open, observed, submitted, attached, row, claim, outcome, runs, chat, faults>>

LaneStep(q) == Admit(q) \/ TurnAway(q) \/ Commit(q) \/ Refused(q) \/ Accept(q) \/ Refuse(q) \/ Dropped(q)

RunStep ==
    \/ \E q \in Requests : Requeue(q) \/ Bind(q)
    \/ \E o \in Outcomes : End(o)
    \/ Finish

Next ==
    \/ \E q \in Requests : Notice(q) \/ Take(q) \/ LaneStep(q) \/ Timeout(q) \/ Pull(q)
    \/ Send \/ SendFails \/ StopLanes \/ Close \/ Delete
    \/ (\E q \in Requests : BeginWith(q)) \/ BeginOther \/ Answer \/ RunStep

\* The event loop runs the handlers, the database answers, every run ends, and
\* the host claims what is queued for an idle chat (WebHost shows that it does).
\* None of them is repeated for ever, so that one condition serves them all.
Progress ==
    \/ \E q \in Requests : LaneStep(q) \/ BeginWith(q)
    \/ RunStep

Fairness == WF_vars(Progress)

Spec == Init /\ [][Next]_vars
FairSpec == Spec /\ Fairness

(******************************** properties *******************************)

\* What the caller is told of a request is true, in every order of its handler,
\* the end of the call and the runs: an outcome is that of the run which took
\* it; one that was refused or never entered is not in the inbox and is never
\* executed; one of a deleted chat did not run.
VerdictsAreTrue ==
    \A q \in Requests :
        /\ status[q] \in Outcomes => row[q] = status[q]
        /\ status[q] \in {"refused", "unentered"} => row[q] = "none"
        /\ status[q] = "deleted" => row[q] \in {"none", "gone"}

\* Whatever still has to settle has an observer, also after the end of the call.
NoneIsForgotten ==
    /\ pending # {} => heard
    /\ ~attached => observed \ terminal \subseteq pending

RequestsAreHonest == VerdictsAreTrue /\ NoneIsForgotten

\* After a call every request it made is settled: by its run, by the deletion of
\* the chat, or because it never entered the inbox.
RequestsSettle ==
    \A q \in Requests : q \in observed /\ ~attached ~> q \in terminal
=============================================================================
