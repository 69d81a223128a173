------------------------------ MODULE WebHost -------------------------------
(***************************************************************************)
(* The web host's inbox worker, the runs it owns and their follow-ups.     *)
(*                                                                         *)
(* Accepted messages are rows of one SQLite table.  A single worker claims *)
(* the first eligible row of a root nobody occupies, reserves a run for    *)
(* the root and hands the row to a task of its own (execute_claim), which  *)
(* validates it and joins a producer, the task that drives the model.  The *)
(* producer pulls later rows of its root as follow-ups of the same run.    *)
(* Wakeups and task starts reserve runs beside the worker.  Stop, a        *)
(* submission in interrupt mode, shutdown and a crash may come between any *)
(* two awaits.                                                             *)
(*                                                                         *)
(* One action is what runs between two awaits; a SQLite transaction is one *)
(* atomic step.  A row is a value of Rows: its text is not modelled.       *)
(***************************************************************************)
EXTENDS Naturals, Sequences, FiniteSets, SequencesExt

CONSTANTS
    Rows,           \* messages that may be admitted, one inbox row each
    Roots,          \* root sessions
    Chats,          \* external conversations
    NoRow, NoChat,
    RootOf,         \* the root a row is routed to
    ChatOf,         \* the conversation it came from, NoChat for the browser
    KindOf,         \* "input", "skill", "compact" or "ack" (a cached reply)
    SubmitModes,    \* the values config.submit_mode takes
    MaxRuns,        \* MAX_PARALLEL_RUNS
    MaxEvents       \* bound: stops, closes, failures, crashes, wakeups, task
                    \* starts and settings writes in a behaviour

ASSUME NoRowAssumption == NoRow \notin Rows /\ NoChat \notin Chats
ASSUME RoutingAssumption ==
    /\ RootOf \in [Rows -> Roots]
    /\ ChatOf \in [Rows -> Chats \cup {NoChat}]
    /\ KindOf \in [Rows -> {"input", "skill", "compact", "ack"}]
ASSUME SubmitModesAssumption == SubmitModes \subseteq {"steer", "interrupt"}
ASSUME BoundsAssumption ==
    MaxRuns \in Nat \ {0} /\ MaxEvents \in Nat

VARIABLES
    inbox,      \* ngn_web_inbox: the admitted rows in the order of their ids
    status,     \* the status column, "absent" before admission
    notify,     \* submissions committed, whose sender has not resumed yet
    worker,     \* the inbox worker: its await, its row, the roots it excludes
    mutating,   \* who holds the mutation guard
    closing,    \* how far ChannelHost.close got
    task,       \* work_tasks and work_cleanup: the task that owns a root's row
    run,        \* executions.runs
    pull,       \* the follow-up pull of a root's producer
    claimed,    \* QueuedInputs.claimed of the root's run
    pending,    \* the follow-up queue of the harness, at most one pulled row
    changed,    \* RunInputs._changed
    read,       \* ghost: how often a model was given the row
    events      \* what MaxEvents bounds

host == <<worker, mutating, closing>>
lane == <<task, run>>
followups == <<pull, claimed, pending, changed>>
vars == <<inbox, status, notify, host, lane, followups, read, events>>

NoRun == [kind |-> "none", row |-> NoRow, stage |-> "none", outcome |-> "completed", cancel |-> FALSE]
NoTask == [stage |-> "none", row |-> NoRow, status |-> "failed"]
NoPull == [at |-> "off", row |-> NoRow]
Resting == [at |-> "idle", row |-> NoRow, excluded |-> {}]

Running(r) == run[r].kind # "none"
Runs == {r \in Roots : Running(r)}
Tasked == {r \in Roots : task[r].stage # "none"}
Occupied == Runs \cup Tasked
Closed == closing # "open"
\* Executions.closed is set one step after ChannelHost.closed.
ExecutionsClosed == closing \notin {"open", "closing"}

TypeOK ==
    /\ inbox \in Seq(Rows)
    /\ status \in [Rows -> {"absent", "queued", "running", "completed", "failed", "interrupted"}]
    /\ notify \subseteq Rows
    /\ worker \in [at : {"idle", "claiming", "holding", "stopped"},
                   row : Rows \cup {NoRow}, excluded : SUBSET Roots]
    /\ mutating \in {"free", "worker", "settings"}
    /\ closing \in {"open", "closing", "stopping", "joining", "closed"}
    /\ task \in [Roots -> [stage : {"none", "created", "validating", "joining", "finishing"},
                           row : Rows \cup {NoRow},
                           status : {"queued", "completed", "failed", "interrupted"}]]
    /\ run \in [Roots -> [kind : {"none", "inbox", "wake", "task"}, row : Rows \cup {NoRow},
                          stage : {"none", "reserved", "launched", "producing", "draining"},
                          outcome : {"completed", "failed", "cancelled"}, cancel : BOOLEAN]]
    /\ pull \in [Roots -> [at : {"off", "claiming", "holding", "empty"}, row : Rows \cup {NoRow}]]
    /\ claimed \in [Roots -> SUBSET Rows]
    /\ pending \in [Roots -> Rows \cup {NoRow}]
    /\ changed \in [Roots -> BOOLEAN]
    /\ read \in [Rows -> Nat]
    /\ events \in Nat

Init ==
    /\ inbox = <<>>
    /\ status = [m \in Rows |-> "absent"]
    /\ notify = {}
    /\ worker = Resting /\ mutating = "free" /\ closing = "open"
    /\ task = [r \in Roots |-> NoTask]
    /\ run = [r \in Roots |-> NoRun]
    /\ pull = [r \in Roots |-> NoPull]
    /\ claimed = [r \in Roots |-> {}]
    /\ pending = [r \in Roots |-> NoRow]
    /\ changed = [r \in Roots |-> FALSE]
    /\ read = [m \in Rows |-> 0]
    /\ events = 0

\* What the environment does, a bounded number of times.
Event == events < MaxEvents /\ events' = events + 1

-----------------------------------------------------------------------------
(* The store: RoutingStore. *)

\* finish_work changes a row only while it is running.
FinishWork(m, st) == status' = [status EXCEPT ![m] = IF @ = "running" THEN st ELSE @]
ReleaseWork(m) == FinishWork(m, "queued")
ClaimWork(m) == status' = [status EXCEPT ![m] = "running"]
InterruptAll == [m \in Rows |-> IF status[m] = "running" THEN "interrupted" ELSE status[m]]

\* m is before n in the order of ids.
Before(m, n) == \E i, j \in DOMAIN inbox : i < j /\ inbox[i] = m /\ inbox[j] = n

\* Mutant: a message waits for the earlier ones to have completed.
AfterCompleted(m) ==
    /\ status[m] = "queued"
    /\ \/ ChatOf[m] = NoChat
       \/ \A e \in Rows : Before(e, m) /\ ChatOf[e] = ChatOf[m] => status[e] = "completed"

\* A message of a conversation waits for every earlier one of it.
Eligible(m) ==
    /\ status[m] = "queued"
    /\ \/ ChatOf[m] = NoChat
       \/ \A e \in Rows : Before(e, m) /\ ChatOf[e] = ChatOf[m] => status[e] \notin {"queued", "running"}

First(candidates) == {m \in candidates : \A n \in candidates \ {m} : Before(m, n)}

\* The row claim_work returns to the worker, as a set of at most one.
WorkerRow == First({m \in Rows : Eligible(m) /\ RootOf[m] \notin worker.excluded})

\* The row it returns to a pull: a command is a barrier to the rows behind it.
PullRow(r) == {m \in First({n \in Rows : Eligible(n) /\ RootOf[n] = r /\ ChatOf[n] = NoChat}) :
                  KindOf[m] \in {"input", "skill"}}

-----------------------------------------------------------------------------
(* Stopping a run cancels whatever task is the run's at that moment; the   *)
(* run's own steps then see the cancellation.                              *)

Cancelled(u) == IF u.kind = "none" THEN u ELSE [u EXCEPT !.outcome = "cancelled", !.cancel = TRUE]
RequestStop(r) == run' = [run EXCEPT ![r] = Cancelled(@)]

Stop(r) ==
    /\ Event
    /\ Running(r)
    /\ RequestStop(r)
    /\ UNCHANGED <<inbox, status, notify, host, task, followups, read>>

-----------------------------------------------------------------------------
(* Admission.  The sender's transaction commits first; it looks at the     *)
(* root's run when it resumes.                                             *)

Submit(m) ==
    /\ status[m] = "absent"
    /\ closing # "closed"
    /\ status' = [status EXCEPT ![m] = "queued"]
    /\ inbox' = Append(inbox, m)
    /\ notify' = IF ChatOf[m] = NoChat THEN notify \cup {m} ELSE notify
    /\ UNCHANGED <<host, lane, followups, read, events>>

Notify(m) ==
    /\ m \in notify
    /\ notify' = notify \ {m}
    /\ LET r == RootOf[m]
           other == Running(r) /\ run[r].row # m
       IN  \/ /\ other /\ "interrupt" \in SubmitModes
              /\ RequestStop(r) /\ Event
              /\ UNCHANGED changed
           \/ /\ ~other \/ "steer" \in SubmitModes
              /\ changed' = [changed EXCEPT ![r] = @ \/ (other /\ run[r].stage = "producing")]
              /\ UNCHANGED <<run, events>>
    /\ UNCHANGED <<inbox, status, host, task, pull, claimed, pending, read>>

-----------------------------------------------------------------------------
(* The worker.  It holds the mutation guard from the claim until the row   *)
(* is handed over, released or acknowledged.                               *)

WorkerPoll ==
    /\ worker.at = "idle" /\ ~Closed
    /\ \E m \in Rows : Eligible(m)
    /\ Cardinality(Occupied) < MaxRuns
    /\ mutating = "free"
    /\ mutating' = "worker"
    /\ worker' = [at |-> "claiming", row |-> NoRow, excluded |-> Occupied]
    /\ UNCHANGED <<inbox, status, notify, closing, lane, followups, read, events>>

WorkerRests == worker' = Resting /\ mutating' = "free"

Over == [Resting EXCEPT !.at = "stopped"]

\* An exception leaves worker(): the guard is released on its way, the task is
\* over, and _background_done logs it.  Nothing starts another before a restart.
WorkerEnds == worker' = Over /\ mutating' = IF worker.at = "idle" THEN mutating ELSE "free"

WorkerClaim ==
    /\ worker.at = "claiming"
    /\ \/ \E m \in WorkerRow :
             /\ ClaimWork(m)
             /\ worker' = [worker EXCEPT !.at = "holding", !.row = m]
             /\ UNCHANGED mutating
       \/ WorkerRow = {} /\ WorkerRests /\ UNCHANGED status
    /\ UNCHANGED <<inbox, notify, closing, lane, followups, read, events>>

\* executions.reserve refuses an occupied root and a full house.
CanReserve(r) == ~ExecutionsClosed /\ ~Running(r) /\ Cardinality(Runs) < MaxRuns

WorkerAdmit ==
    LET m == worker.row
        r == RootOf[m]
    IN  /\ worker.at = "holding" /\ ~Closed
        /\ KindOf[m] # "ack" /\ CanReserve(r)
        /\ run' = [run EXCEPT ![r] = [NoRun EXCEPT !.kind = "inbox", !.row = m, !.stage = "reserved"]]
        /\ task' = [task EXCEPT ![r] = [NoTask EXCEPT !.stage = "created", !.row = m]]
        /\ WorkerRests
        /\ UNCHANGED <<inbox, status, notify, closing, followups, read, events>>

WorkerRelease ==
    /\ worker.at = "holding"
    /\ Closed \/ (KindOf[worker.row] # "ack" /\ ~CanReserve(RootOf[worker.row]))
    /\ ReleaseWork(worker.row)
    /\ WorkerRests
    /\ UNCHANGED <<inbox, notify, closing, lane, followups, read, events>>

\* A cached reply is sent by the worker itself; no model reads it.  When its
\* connector fails, the row is settled and the exception goes on.
WorkerAcknowledge ==
    /\ worker.at = "holding" /\ ~Closed /\ KindOf[worker.row] = "ack"
    /\ \/ FinishWork(worker.row, "completed") /\ WorkerRests /\ UNCHANGED events
       \/ FinishWork(worker.row, "failed") /\ WorkerEnds /\ Event
    /\ UNCHANGED <<inbox, notify, closing, lane, followups, read>>

\* The query or the claim fails otherwise than by SQLITE_BUSY, which is retried.
WorkerFails ==
    /\ worker.at \in {"idle", "claiming"} /\ WorkerEnds /\ Event
    /\ UNCHANGED <<inbox, status, notify, closing, lane, followups, read>>

WorkerLeaves ==
    /\ worker.at = "idle" /\ Closed
    /\ worker' = Over
    /\ UNCHANGED <<inbox, status, notify, mutating, closing, lane, followups, read, events>>

-----------------------------------------------------------------------------
(* The task of a claimed row: execute_claim, and claim_done when the task  *)
(* was cancelled before its first step.                                    *)

\* A run still reserved for this very row ends with it.
EndTask(r, st) ==
    /\ FinishWork(task[r].row, st)
    /\ run' = [run EXCEPT ![r] = IF @.row = task[r].row THEN NoRun ELSE @]
    /\ task' = [task EXCEPT ![r] = NoTask]
    /\ UNCHANGED <<inbox, notify, host, followups, read, events>>

StartClaim(r) ==
    /\ task[r].stage = "created" /\ ~run[r].cancel
    /\ task' = [task EXCEPT ![r].stage = "validating"]
    /\ UNCHANGED <<inbox, status, notify, host, run, followups, read, events>>

\* Mutant: a claim that never started is not cleaned up during a close.
CleanOpenClaim(r) ==
    /\ task[r].stage = "created" /\ run[r].cancel /\ ~Closed
    /\ EndTask(r, "interrupted")

CleanClaim(r) ==
    /\ task[r].stage = "created" /\ run[r].cancel
    /\ EndTask(r, IF Closed THEN "queued" ELSE "interrupted")

StageTo(r, stage) == run' = [run EXCEPT ![r].stage = stage]
Finishing(r, st) == task' = [task EXCEPT ![r] = [@ EXCEPT !.stage = "finishing", !.status = st]]

\* validate_work, then the recheck of closed with no await before the producer.
Validate(r) ==
    /\ task[r].stage = "validating"
    /\ \/ run[r].cancel /\ Finishing(r, IF Closed THEN "queued" ELSE "interrupted") /\ UNCHANGED <<run, events>>
       \/ ~run[r].cancel /\ Finishing(r, "failed") /\ UNCHANGED run /\ Event
       \/ ~run[r].cancel /\ Closed /\ Finishing(r, "queued") /\ UNCHANGED <<run, events>>
       \/ /\ ~run[r].cancel /\ ~Closed
          /\ task' = [task EXCEPT ![r].stage = "joining"]
          /\ StageTo(r, "launched")
          /\ UNCHANGED events
    /\ UNCHANGED <<inbox, status, notify, host, followups, read>>

FinishTask(r) == task[r].stage = "finishing" /\ EndTask(r, task[r].status)

-----------------------------------------------------------------------------
(* Runs of wakeups and of task starts: no inbox row.                       *)

ReserveWakeup(r) ==
    /\ Event
    /\ mutating = "free" /\ ~ExecutionsClosed
    /\ r \notin Occupied /\ Cardinality(Occupied) < MaxRuns
    /\ run' = [run EXCEPT ![r] = [NoRun EXCEPT !.kind = "wake", !.stage = "reserved"]]
    /\ UNCHANGED <<inbox, status, notify, host, task, followups, read>>

\* wake() starts its producer in its first step; a task stopped before that
\* step never runs, and stop() itself finishes the run.
StartWake(r) ==
    /\ run[r].kind = "wake" /\ run[r].stage = "reserved"
    /\ run' = [run EXCEPT ![r] = IF @.cancel THEN NoRun ELSE [@ EXCEPT !.stage = "launched"]]
    /\ UNCHANGED <<inbox, status, notify, host, task, followups, read, events>>

\* Tasks.launch looks at the mutation guard before its journal write only.
LaunchTask(r) ==
    /\ Event
    /\ r \notin Tasked /\ CanReserve(r)
    /\ run' = [run EXCEPT ![r] = [NoRun EXCEPT !.kind = "task", !.stage = "launched"]]
    /\ UNCHANGED <<inbox, status, notify, host, task, followups, read>>

-----------------------------------------------------------------------------
(* The producer.                                                           *)

\* Mutant: what was stopped is tried again.
RetryStopped(outcome) == IF outcome = "cancelled" THEN "queued" ELSE outcome

Result(outcome) == IF outcome = "cancelled" THEN "interrupted" ELSE outcome

\* The producer ended: the run is released before its row is settled.
EndRun(r, outcome) ==
    /\ run' = [run EXCEPT ![r] = NoRun]
    /\ IF run[r].kind = "inbox" THEN Finishing(r, Result(outcome)) ELSE UNCHANGED task

Compacts(r) == run[r].kind = "inbox" /\ KindOf[run[r].row] = "compact"
ReadRow(m) == read' = [read EXCEPT ![m] = @ + 1]

\* The model is given the row; /compact gives it none.
Begin(r) ==
    /\ run[r].stage = "launched" /\ ~run[r].cancel
    /\ StageTo(r, "producing")
    /\ IF run[r].kind = "inbox" /\ ~Compacts(r) THEN ReadRow(run[r].row) ELSE UNCHANGED read
    /\ UNCHANGED <<inbox, status, notify, host, task, followups, events>>

\* Cancelled before its first step, or the harness or the prompt fails.
BeginFails(r) ==
    /\ run[r].stage = "launched"
    /\ \/ run[r].cancel /\ EndRun(r, "cancelled") /\ UNCHANGED events
       \/ ~run[r].cancel /\ EndRun(r, "failed") /\ Event
    /\ UNCHANGED <<inbox, status, notify, host, followups, read>>

Compact(r) ==
    /\ run[r].stage = "producing" /\ Compacts(r)
    /\ \/ EndRun(r, run[r].outcome) /\ UNCHANGED events
       \/ ~run[r].cancel /\ EndRun(r, "failed") /\ Event
    /\ UNCHANGED <<inbox, status, notify, host, followups, read>>

Turning(r) == run[r].stage = "producing" /\ ~Compacts(r)

\* A run for an external conversation pulls no browser input.
MayPull(r) == ~Closed /\ (run[r].row = NoRow \/ ChatOf[run[r].row] = NoChat)

PullBegin(r) ==
    /\ Turning(r) /\ ~run[r].cancel
    /\ pull[r].at = "off" /\ pending[r] = NoRow
    /\ changed' = [changed EXCEPT ![r] = FALSE]
    /\ pull' = [pull EXCEPT ![r].at = IF MayPull(r) THEN "claiming" ELSE "empty"]
    /\ UNCHANGED <<inbox, status, notify, host, lane, claimed, pending, read, events>>

\* The claim is shielded: it runs to its end even when the pull is cancelled.
PullClaim(r) ==
    /\ pull[r].at = "claiming"
    /\ \/ \E m \in PullRow(r) : ClaimWork(m) /\ pull' = [pull EXCEPT ![r] = [at |-> "holding", row |-> m]]
       \/ PullRow(r) = {} /\ pull' = [pull EXCEPT ![r].at = "empty"] /\ UNCHANGED status
    /\ UNCHANGED <<inbox, notify, host, lane, claimed, pending, changed, read, events>>

PullTake(r) ==
    /\ pull[r].at = "holding" /\ ~run[r].cancel /\ ~Closed
    /\ claimed' = [claimed EXCEPT ![r] = @ \cup {pull[r].row}]
    /\ pending' = [pending EXCEPT ![r] = pull[r].row]
    /\ pull' = [pull EXCEPT ![r] = NoPull]
    /\ UNCHANGED <<inbox, status, notify, host, lane, changed, read, events>>

\* Mutant: the cancelled pull discards the work it had claimed.
PullForget(r) ==
    /\ pull[r].at = "holding" /\ (run[r].cancel \/ Closed)
    /\ pull' = [pull EXCEPT ![r] = [NoPull EXCEPT !.at = "empty"]]
    /\ UNCHANGED <<inbox, status, notify, host, lane, claimed, pending, changed, read, events>>

\* The pull was cancelled, or the host closed, since the claim.
PullRelease(r) ==
    /\ pull[r].at = "holding" /\ (run[r].cancel \/ Closed)
    /\ ReleaseWork(pull[r].row)
    /\ pull' = [pull EXCEPT ![r] = [NoPull EXCEPT !.at = "empty"]]
    /\ UNCHANGED <<inbox, notify, host, lane, claimed, pending, changed, read, events>>

\* A skill that is no longer available fails its own row only, and the pull
\* goes on to the next one.
SkillGone(r) ==
    /\ Event
    /\ pending[r] # NoRow /\ KindOf[pending[r]] = "skill" /\ ~run[r].cancel
    /\ FinishWork(pending[r], "failed")
    /\ claimed' = [claimed EXCEPT ![r] = @ \ {pending[r]}]
    /\ pending' = [pending EXCEPT ![r] = NoRow]
    /\ pull' = [pull EXCEPT ![r].at = "claiming"]
    /\ UNCHANGED <<inbox, notify, host, lane, changed, read>>

\* The next turn of the run is given the pulled row.
Followup(r) ==
    /\ pending[r] # NoRow /\ ~run[r].cancel
    /\ ReadRow(pending[r])
    /\ pending' = [pending EXCEPT ![r] = NoRow]
    /\ UNCHANGED <<inbox, status, notify, host, lane, pull, claimed, changed, events>>

\* RunInputs.next after an empty pull: a change since the pull began is looked
\* at again, else nothing more is admitted to this run.
Decide(r) ==
    /\ pull[r].at = "empty" /\ ~run[r].cancel
    /\ pull' = [pull EXCEPT ![r] = NoPull]
    /\ IF changed[r] /\ MayPull(r) THEN UNCHANGED run ELSE StageTo(r, "draining")
    /\ UNCHANGED <<inbox, status, notify, host, task, claimed, pending, changed, read, events>>

\* The cancellation arrives, or the provider or the journal fails: what was
\* pulled and not read is left to the settlement of the run.
Abort(r) ==
    /\ Turning(r) /\ pull[r].at \in {"off", "empty"}
    /\ \/ run[r].cancel /\ StageTo(r, "draining") /\ UNCHANGED events
       \/ ~run[r].cancel /\ run' = [run EXCEPT ![r] = [@ EXCEPT !.stage = "draining", !.outcome = "failed"]] /\ Event
    /\ pull' = [pull EXCEPT ![r] = NoPull]
    /\ pending' = [pending EXCEPT ![r] = NoRow]
    /\ UNCHANGED <<inbox, status, notify, host, task, claimed, changed, read>>

\* QueuedInputs.finish: one transaction a row.
Settle(r) ==
    /\ run[r].stage = "draining"
    /\ \E m \in claimed[r] : FinishWork(m, Result(run[r].outcome)) /\ claimed' = [claimed EXCEPT ![r] = @ \ {m}]
    /\ UNCHANGED <<inbox, notify, host, lane, pull, pending, changed, read, events>>

Drained(r) ==
    /\ run[r].stage = "draining" /\ claimed[r] = {}
    /\ EndRun(r, run[r].outcome)
    /\ changed' = [changed EXCEPT ![r] = FALSE]
    /\ UNCHANGED <<inbox, status, notify, host, pull, claimed, pending, read, events>>

-----------------------------------------------------------------------------
(* Settings writes, shutdown and restart.                                  *)

BeginMutation ==
    /\ Event
    /\ mutating = "free" /\ ~ExecutionsClosed
    /\ mutating' = "settings"
    /\ UNCHANGED <<inbox, status, notify, worker, closing, lane, followups, read>>

EndMutation ==
    /\ mutating = "settings" /\ mutating' = "free"
    /\ UNCHANGED <<inbox, status, notify, worker, closing, lane, followups, read, events>>

CloseTo(stage) ==
    /\ closing' = stage
    /\ UNCHANGED <<inbox, notify, worker, mutating, task, followups, read>>

Close == ~Closed /\ CloseTo("closing") /\ Event /\ UNCHANGED <<status, run>>

\* Executions.close stops every run there is; no run is reserved afterwards.
StopAll ==
    /\ closing = "closing" /\ CloseTo("stopping")
    /\ run' = [r \in Roots |-> Cancelled(run[r])]
    /\ UNCHANGED <<status, events>>

AllStopped == closing = "stopping" /\ Runs = {} /\ CloseTo("joining") /\ UNCHANGED <<status, run, events>>

\* Everything that owned a row has been joined.
InterruptWork ==
    /\ closing = "joining" /\ worker.at = "stopped" /\ Tasked = {}
    /\ CloseTo("closed")
    /\ status' = InterruptAll
    /\ UNCHANGED <<run, events>>

\* A crash at any moment, or a restart after a shutdown: initialize marks what
\* was running, and memory starts empty.
Restart ==
    /\ Event
    /\ status' = InterruptAll
    /\ notify' = {}
    /\ worker' = Resting /\ mutating' = "free" /\ closing' = "open"
    /\ task' = [r \in Roots |-> NoTask]
    /\ run' = [r \in Roots |-> NoRun]
    /\ pull' = [r \in Roots |-> NoPull]
    /\ claimed' = [r \in Roots |-> {}]
    /\ pending' = [r \in Roots |-> NoRow]
    /\ changed' = [r \in Roots |-> FALSE]
    /\ UNCHANGED <<inbox, read>>

-----------------------------------------------------------------------------
WorkerStep ==
    \/ WorkerPoll \/ WorkerClaim \/ WorkerAdmit \/ WorkerRelease
    \/ WorkerAcknowledge \/ WorkerLeaves
TaskStep(r) == StartClaim(r) \/ CleanClaim(r) \/ Validate(r) \/ FinishTask(r)
RunStep(r) ==
    \/ StartWake(r) \/ Begin(r) \/ BeginFails(r) \/ Compact(r)
    \/ PullBegin(r) \/ PullClaim(r) \/ PullTake(r) \/ PullRelease(r) \/ SkillGone(r)
    \/ Followup(r) \/ Decide(r) \/ Abort(r) \/ Settle(r) \/ Drained(r)
CloseStep == StopAll \/ AllStopped \/ InterruptWork

Next ==
    \/ WorkerStep \/ WorkerFails \/ CloseStep \/ BeginMutation \/ EndMutation \/ Close \/ Restart
    \/ \E m \in Rows : Submit(m) \/ Notify(m)
    \/ \E r \in Roots : Stop(r) \/ ReserveWakeup(r) \/ LaunchTask(r) \/ TaskStep(r) \/ RunStep(r)

Spec == Init /\ [][Next]_vars

\* The loop schedules every task that is ready and SQLite answers; a turn of
\* the model ends.  Nobody is obliged to submit, stop, close or restart.
Fairness ==
    /\ WF_vars(WorkerStep) /\ WF_vars(CloseStep \/ EndMutation)
    /\ WF_vars(\E m \in Rows : Notify(m))
    /\ \A r \in Roots : WF_vars(TaskStep(r) \/ RunStep(r))

FairSpec == Spec /\ Fairness
-----------------------------------------------------------------------------
\* The places that may hold a claimed row.
Owners(m) ==
    {<<"worker", r>> : r \in {r \in Roots : worker.row = m /\ RootOf[m] = r}}
        \cup {<<"task", r>> : r \in {r \in Roots : task[r].row = m}}
        \cup {<<"pull", r>> : r \in {r \in Roots : pull[r].row = m}}
        \cup {<<"claimed", r>> : r \in {r \in Roots : m \in claimed[r]}}

(* A row is marked running exactly while one place holds it: whatever is    *)
(* cancelled, released or closed between a claim's commit and the step that *)
(* uses it, no row stays running with nobody left to finish it, and no row  *)
(* has two owners.  This is RoutingStore.claim_work and finish_work with    *)
(* the worker, execute_claim, claim_done and QueuedInputs.pull and finish.  *)
RunningHasOneOwner ==
    \A m \in Rows : Cardinality(Owners(m)) = IF status[m] = "running" THEN 1 ELSE 0

(* A model is given an accepted message at most once, over stops, closes,   *)
(* crashes and restarts: a row goes back to the queue only while unread.    *)
ReadAtMostOnce ==
    \A m \in Rows : read[m] <= 1 /\ (read[m] = 1 => status[m] # "queued")

(* A message is reported completed only if a model was given it: a row      *)
(* pulled as a follow-up and not reached by the run is not completed with   *)
(* it.                                                                      *)
CompletedWasRead ==
    \A m \in Rows : status[m] = "completed" /\ KindOf[m] \in {"input", "skill"} => read[m] = 1

(* What the status column says of a row is what happened to it: unread      *)
(* while queued, read if completed, and never read twice (finish_work,      *)
(* initialize and QueuedInputs.finish).                                     *)
StatusIsHonest == ReadAtMostOnce /\ CompletedWasRead

(* An accepted message is accounted for: its row has one owner while it     *)
(* runs, and its status tells what became of it.                            *)
AcceptedIsAccounted == RunningHasOneOwner /\ StatusIsHonest

(* Every accepted message is claimed while the host stays up and its worker *)
(* lives: also one admitted after a run's last empty pull, behind a         *)
(* command, or behind another message of its conversation.                  *)
QueuedIsTaken ==
    \A m \in Rows : status[m] = "queued" ~> status[m] # "queued" \/ Closed \/ worker = Over

(* What the guide says: the acknowledgement of a connector that is not      *)
(* available does not block accepted model work.  A worker that ended for   *)
(* another reason is set aside.                                             *)
AcknowledgementsDoNotBlock ==
    LET Blamed == \E n \in Rows : KindOf[n] = "ack" /\ status[n] = "failed"
    IN  \A m \in Rows :
            status[m] = "queued" ~> status[m] # "queued" \/ Closed \/ (worker = Over /\ ~Blamed)

(* A close ends, with no row left running, whatever it interrupts.          *)
CloseEnds ==
    Closed ~> \/ closing = "closed" /\ \A m \in Rows : status[m] # "running"
              \/ ~Closed
=============================================================================
