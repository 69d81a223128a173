----------------------------- MODULE A2AServer ------------------------------
(***************************************************************************)
(* The A2A server: its SQLite store of tasks and message reservations, the *)
(* executor that runs an agent for each task, and the authorizations a     *)
(* running agent asks for.                                                 *)
(*                                                                         *)
(* A call is the SDK's handling of one new message: the host reserves it,  *)
(* the SDK invokes TaskExecutor.execute and saves what it enqueues, and a  *)
(* worker of its own (_produce) drives the agent.  The SDK is not part of  *)
(* the repository: it is taken to save the updates of a task in order, to  *)
(* accept no message for a task that ended, and to end the call of a task  *)
(* that was canceled.                                                      *)
(*                                                                         *)
(* A retry of a reserved message only reads.  Versions are abstracted to   *)
(* whether the writer of a call knows the stored one.                      *)
(***************************************************************************)
EXTENDS Naturals, Sequences, FiniteSets

CONSTANTS
    Tasks, Messages, NoTask, NoMessage,
    ContextOf,      \* the context of a task, whose session its runs share
    MaxActive,      \* max_active_tasks
    MaxAsks,        \* bound: inputs and approvals a behaviour asks for
    MaxFaults       \* bound: cancels, failures, expiries and crashes

A2AAssumption ==
    /\ NoTask \notin Tasks /\ NoMessage \notin Messages
    /\ MaxActive \in Nat \ {0} /\ MaxAsks \in Nat /\ MaxFaults \in Nat

VARIABLES
    state,      \* tasks.state
    known,      \* the call's writer of the task knows its stored version
    messages,   \* messages: the task of a reserved message, and started
    claims,     \* input_claims: the reply that is being admitted for a task
    call,       \* on_message_send and execute, for each message
    canceling,  \* tasks whose cancel() is joining the worker
    running,    \* tasks in TaskExecutor._executions
    worker,     \* _produce of a task
    asked,      \* Execution.input: "none", "open", or "set"
    updates,    \* Execution.events, statuses only
    auth,       \* the latest authorization of a task: its row and its future
    deciding,   \* the decision that holds the registry's lock
    given,      \* ghost: how often an agent was given the message
    acted,      \* ghost: operations executed on the latest authorization
    asks, faults

store == <<state, known, messages, claims>>
execution == <<running, worker, asked, updates>>
approvals == <<auth, deciding, acted>>
vars == <<store, call, canceling, execution, approvals, given, asks, faults>>

TERMINAL == {"completed", "failed", "canceled", "rejected"}
NoAuth == [row |-> "none", future |-> "gone", expired |-> FALSE]
NoDecision == [task |-> NoTask, approved |-> FALSE]

TypeOK ==
    /\ state \in [Tasks -> {"absent", "submitted", "working", "input", "auth"} \cup TERMINAL]
    /\ known \in [Tasks -> BOOLEAN]
    /\ messages \in [Messages -> [task : Tasks \cup {NoTask}, started : BOOLEAN]]
    /\ claims \in [Tasks -> Messages \cup {NoMessage}]
    /\ call \in [Messages -> {"idle", "admitted", "started", "reading", "replying", "draining", "stopping", "over"}]
    /\ canceling \subseteq Tasks /\ running \subseteq Tasks
    /\ worker \in [Tasks -> {"none", "created", "locking", "running", "input", "approval", "finishing",
                             "done", "failing", "denied", "aborting", "ended"}]
    /\ asked \in [Tasks -> {"none", "open", "set"}]
    /\ updates \in [Tasks -> Seq({"working", "input", "auth"} \cup TERMINAL)]
    /\ auth \in [Tasks -> [row : {"none", "pending", "approved", "denied", "expired", "canceled", "interrupted"},
                           future : {"open", "approved", "denied", "gone"}, expired : BOOLEAN]]
    /\ deciding \in [task : Tasks \cup {NoTask}, approved : BOOLEAN]
    /\ given \in [Messages -> Nat] /\ acted \in [Tasks -> Nat]
    /\ asks \in 0..MaxAsks /\ faults \in 0..MaxFaults

Init ==
    /\ state = [t \in Tasks |-> "absent"]
    /\ known = [t \in Tasks |-> TRUE]
    /\ messages = [m \in Messages |-> [task |-> NoTask, started |-> FALSE]]
    /\ claims = [t \in Tasks |-> NoMessage]
    /\ call = [m \in Messages |-> "idle"]
    /\ canceling = {} /\ running = {}
    /\ worker = [t \in Tasks |-> "none"]
    /\ asked = [t \in Tasks |-> "none"]
    /\ updates = [t \in Tasks |-> <<>>]
    /\ auth = [t \in Tasks |-> NoAuth]
    /\ deciding = NoDecision
    /\ given = [m \in Messages |-> 0] /\ acted = [t \in Tasks |-> 0]
    /\ asks = 0 /\ faults = 0

Fault == faults < MaxFaults /\ faults' = faults + 1
TaskOf(m) == messages[m].task
Active == {t \in Tasks : state[t] \notin {"absent"} \cup TERMINAL}
Give(m) == given' = [given EXCEPT ![m] = @ + 1]

-----------------------------------------------------------------------------
(* SQLiteTaskStore *)

\* Mutant: a terminal task may be canceled once more.
SaveAnyway(t, new) ==
    /\ state' = [state EXCEPT ![t] = new]
    /\ known' = [known EXCEPT ![t] = @ /\ new # "canceled"]
    /\ claims' = [claims EXCEPT ![t] = IF new = "input" THEN @ ELSE NoMessage]

\* save: a cancel needs no version but a task that has not ended; any other
\* update needs the version its writer read.  A conflict changes nothing.
Save(t, new) ==
    LET accepted == IF new = "canceled" THEN state[t] \notin TERMINAL ELSE known[t]
    IN  /\ state' = [state EXCEPT ![t] = IF accepted THEN new ELSE @]
        /\ known' = [known EXCEPT ![t] = @ /\ ~(accepted /\ new = "canceled")]
        /\ claims' = [claims EXCEPT ![t] = IF accepted /\ new # "input" THEN NoMessage ELSE @]

Unreserved(m) == TaskOf(m) = NoTask

\* reserve, for a message that opens a task.
Reserve(m, t) ==
    /\ Unreserved(m) /\ state[t] = "absent"
    /\ Cardinality(Active) < MaxActive
    /\ messages' = [messages EXCEPT ![m] = [task |-> t, started |-> FALSE]]
    /\ state' = [state EXCEPT ![t] = "submitted"]
    /\ call' = [call EXCEPT ![m] = "admitted"]
    /\ UNCHANGED <<known, claims, canceling, execution, approvals, given, asks, faults>>

\* reserve, for the reply to a question: one reply at a time.
Reply(m, t) ==
    /\ Unreserved(m) /\ state[t] = "input" /\ claims[t] = NoMessage
    /\ messages' = [messages EXCEPT ![m] = [task |-> t, started |-> FALSE]]
    /\ claims' = [claims EXCEPT ![t] = m]
    /\ call' = [call EXCEPT ![m] = "admitted"]
    /\ UNCHANGED <<state, known, canceling, execution, approvals, given, asks, faults>>

\* The SDK refuses or loses the request before it invokes the executor;
\* abandon_unstarted undoes the reservation but keeps the message's id.
Abandon(m) ==
    LET t == TaskOf(m)
    IN  /\ call[m] = "admitted" /\ Fault
        /\ state' = [state EXCEPT ![t] = IF @ = "submitted" THEN "failed" ELSE @]
        /\ known' = [known EXCEPT ![t] = @ /\ state[t] # "submitted"]
        /\ claims' = [claims EXCEPT ![t] = IF @ = m THEN NoMessage ELSE @]
        /\ call' = [call EXCEPT ![m] = "over"]
        /\ UNCHANGED <<messages, canceling, execution, approvals, given, asks>>

-----------------------------------------------------------------------------
(* TaskExecutor.execute *)

\* The SDK dispatches no message to a task that ended.
Dispatch(m) ==
    /\ call[m] = "admitted" /\ state[TaskOf(m)] \notin TERMINAL
    /\ messages' = [messages EXCEPT ![m].started = TRUE]
    /\ call' = [call EXCEPT ![m] = "started"]
    /\ UNCHANGED <<state, known, claims, canceling, execution, approvals, given, asks, faults>>

\* The task ended while its reply was on the way.
Refused(m) ==
    /\ call[m] = "admitted" /\ state[TaskOf(m)] \in TERMINAL
    /\ claims' = [claims EXCEPT ![TaskOf(m)] = IF @ = m THEN NoMessage ELSE @]
    /\ call' = [call EXCEPT ![m] = "over"]
    /\ UNCHANGED <<state, known, messages, canceling, execution, approvals, given, asks, faults>>

Idle == {"none", "ended"}

\* The first snapshot: of a resumed task, that it is working again.  Whether the
\* call starts an execution or replies to one is settled before it is enqueued.
First(m) ==
    LET t == TaskOf(m)
    IN  /\ call[m] = "started"
        /\ \/ t \notin running /\ UNCHANGED store /\ call' = [call EXCEPT ![m] = "reading"]
           \/ /\ t \in running /\ asked[t] = "open"
              /\ Save(t, "working") /\ UNCHANGED messages
              /\ call' = [call EXCEPT ![m] = "replying"]
           \/ /\ t \in running /\ asked[t] # "open"
              /\ UNCHANGED store /\ call' = [call EXCEPT ![m] = "over"]
        /\ UNCHANGED <<canceling, execution, approvals, given, asks, faults>>

\* The worker of an execution that a cancel popped may still be stopping: the
\* new one would only wait for its context's lock, and is started after it.
Launch(m) ==
    LET t == TaskOf(m)
    IN  /\ call[m] = "reading" /\ worker[t] \in Idle
        /\ running' = running \cup {t}
        /\ worker' = [worker EXCEPT ![t] = "created"]
        /\ updates' = [updates EXCEPT ![t] = <<>>]
        /\ call' = [call EXCEPT ![m] = "draining"]
        /\ UNCHANGED <<store, canceling, asked, approvals, given, asks, faults>>

\* A cancel that popped the execution meanwhile has closed its question.
Resume(m) ==
    LET t == TaskOf(m)
    IN  /\ call[m] = "replying"
        /\ IF asked[t] = "open"
           THEN /\ asked' = [asked EXCEPT ![t] = "set"]
                /\ updates' = [updates EXCEPT ![t] = Append(@, "working")]
                /\ Give(m)
                /\ call' = [call EXCEPT ![m] = "draining"]
           ELSE UNCHANGED <<asked, updates, given>> /\ call' = [call EXCEPT ![m] = "over"]
        /\ UNCHANGED <<store, canceling, running, worker, approvals, asks, faults>>

\* The loop over Execution.events: a pause leaves the worker to a later call.
Drain(m) ==
    LET t == TaskOf(m)
        new == Head(updates[t])
    IN  /\ call[m] = "draining" /\ updates[t] # <<>>
        /\ updates' = [updates EXCEPT ![t] = Tail(@)]
        /\ Save(t, new)
        /\ call' = [call EXCEPT ![m] = IF ~known[t] \/ new \in TERMINAL THEN "stopping"
                                       ELSE IF new = "input" THEN "over" ELSE @]
        /\ UNCHANGED <<messages, canceling, running, worker, asked, approvals, given, asks, faults>>

\* The SDK ends the call of a canceled task.
Release(m) ==
    /\ call[m] = "draining" /\ state[TaskOf(m)] = "canceled"
    /\ call' = [call EXCEPT ![m] = "stopping"]
    /\ UNCHANGED <<store, canceling, execution, approvals, given, asks, faults>>

\* _stop pops the execution and cancels its worker, then joins it.
StopWorker(t) ==
    /\ running' = running \ {t}
    /\ worker' = [worker EXCEPT ![t] =
          CASE t \notin running \/ @ \in Idle -> @
            [] t \in running /\ @ \in {"created", "locking"} -> "ended"
            [] OTHER -> "aborting"]
    /\ asked' = [asked EXCEPT ![t] = IF t \in running THEN "none" ELSE @]

\* The worker that was canceled is joined; a reply may have started another one.
Stopped(t) == worker[t] # "aborting" /\ deciding = NoDecision

Finish(m) ==
    LET t == TaskOf(m)
    IN  /\ call[m] = "stopping"
        /\ \/ t \in running /\ StopWorker(t) /\ UNCHANGED call
           \/ t \notin running /\ Stopped(t) /\ call' = [call EXCEPT ![m] = "over"] /\ UNCHANGED <<running, worker, asked>>
        /\ UNCHANGED <<store, canceling, updates, approvals, given, asks, faults>>

Cancel(t) ==
    /\ Fault
    /\ t \in Active /\ t \notin canceling
    /\ canceling' = canceling \cup {t}
    /\ StopWorker(t)
    /\ UNCHANGED <<store, call, updates, approvals, given, asks>>

Canceled(t) ==
    /\ t \in canceling /\ Stopped(t)
    /\ canceling' = canceling \ {t}
    /\ Save(t, "canceled")
    /\ UNCHANGED <<messages, call, execution, approvals, given, asks, faults>>

-----------------------------------------------------------------------------
(* TaskExecutor._produce *)

Say(t, update) == updates' = [updates EXCEPT ![t] = Append(@, update)]
WorkerTo(t, from, to) == worker[t] = from /\ worker' = [worker EXCEPT ![t] = to]

Begin(t) ==
    /\ WorkerTo(t, "created", "locking") /\ Say(t, "working")
    /\ UNCHANGED <<store, call, canceling, running, asked, approvals, given, asks, faults>>

\* Who holds the lock of the context: a canceled worker, until its runtime closed.
Holding == {"running", "input", "approval", "finishing", "done", "failing", "denied", "aborting"}

\* Mutant: the lock is not waited for.
Unlocked(t) == TRUE

LockFree(t) == \A u \in Tasks \ {t} : ContextOf[u] = ContextOf[t] => worker[u] \notin Holding

\* The first message of the task is given to the agent.
Acquire(t) ==
    /\ WorkerTo(t, "locking", "running") /\ LockFree(t)
    /\ \E m \in Messages : TaskOf(m) = t /\ call[m] = "draining" /\ Give(m)
    /\ UNCHANGED <<store, call, canceling, running, asked, updates, approvals, asks, faults>>

Ask == asks < MaxAsks /\ asks' = asks + 1

RequestInput(t) ==
    /\ Ask
    /\ WorkerTo(t, "running", "input") /\ Say(t, "input")
    /\ asked' = [asked EXCEPT ![t] = "open"]
    /\ UNCHANGED <<store, call, canceling, running, approvals, given, faults>>

InputArrives(t) ==
    /\ WorkerTo(t, "input", "running") /\ asked[t] = "set"
    /\ asked' = [asked EXCEPT ![t] = "none"]
    /\ UNCHANGED <<store, call, canceling, running, updates, approvals, given, asks, faults>>

\* A run that ends, one that fails.
RunEnds(t) ==
    /\ \/ WorkerTo(t, "running", "done") /\ UNCHANGED faults
       \/ WorkerTo(t, "running", "failing") /\ Fault
    /\ UNCHANGED <<store, call, canceling, running, asked, updates, approvals, given, asks>>

\* The runtime is closed, the lock released, and the outcome reported.
Conclude(t) ==
    /\ \/ WorkerTo(t, "done", "ended") /\ Say(t, "completed")
       \/ WorkerTo(t, "failing", "ended") /\ Say(t, "failed")
       \/ WorkerTo(t, "denied", "ended") /\ Say(t, "rejected")
    /\ UNCHANGED <<store, call, canceling, running, asked, approvals, given, asks, faults>>

-----------------------------------------------------------------------------
(* AuthorizationRegistry: one lock around each operation. *)

Create(t) ==
    /\ Ask
    /\ worker[t] = "running" /\ deciding = NoDecision
    /\ IF state[t] \in TERMINAL
       THEN WorkerTo(t, "running", "failing") /\ UNCHANGED <<auth, acted, updates>>
       ELSE /\ WorkerTo(t, "running", "approval") /\ Say(t, "auth")
            /\ auth' = [auth EXCEPT ![t] = [row |-> "pending", future |-> "open", expired |-> FALSE]]
            /\ acted' = [acted EXCEPT ![t] = 0]
    /\ UNCHANGED <<store, call, canceling, running, asked, deciding, given, faults>>

Expire(t) ==
    /\ Fault
    /\ auth[t].future # "gone" /\ ~auth[t].expired
    /\ auth' = [auth EXCEPT ![t].expired = TRUE]
    /\ UNCHANGED <<store, call, canceling, execution, deciding, acted, given, asks>>

Decide(t) ==
    /\ deciding = NoDecision
    /\ auth[t].future = "open" /\ ~auth[t].expired
    /\ \E v \in BOOLEAN : deciding' = [task |-> t, approved |-> v]
    /\ UNCHANGED <<store, call, canceling, execution, auth, acted, given, asks, faults>>

Verdict == IF deciding.approved THEN "approved" ELSE "denied"

\* The transaction looks again at the task, at the row and at the expiry.
Decidable(t) == state[t] \notin TERMINAL /\ auth[t].row = "pending" /\ ~auth[t].expired

Decided ==
    LET t == deciding.task
    IN  /\ t # NoTask
        /\ deciding' = NoDecision
        /\ auth' = [auth EXCEPT ![t] = IF Decidable(t) THEN [@ EXCEPT !.row = Verdict, !.future = Verdict] ELSE @]
        /\ UNCHANGED <<store, call, canceling, execution, acted, given, asks, faults>>

\* _finish writes a state only while the row is pending.
Settled(t, new) ==
    /\ deciding = NoDecision
    /\ auth' = [auth EXCEPT ![t].row = IF @ = "pending" THEN new ELSE @, ![t].future = "gone"]

\* wait() returns with the decision: the agent goes on with the operation.
Approved(t) ==
    /\ WorkerTo(t, "approval", "running") /\ auth[t].future = "approved"
    /\ Settled(t, "consumed")
    /\ acted' = [acted EXCEPT ![t] = @ + 1]
    /\ Say(t, "working")
    /\ UNCHANGED <<store, call, canceling, running, asked, deciding, given, asks, faults>>

Denied(t) ==
    /\ WorkerTo(t, "approval", "denied") /\ auth[t].future = "denied"
    /\ Settled(t, "consumed")
    /\ UNCHANGED <<store, call, canceling, running, asked, updates, acted, deciding, given, asks, faults>>

\* The timeout of wait() may win against a decision that was just taken.
TimesOut(t) ==
    /\ WorkerTo(t, "approval", "finishing") /\ auth[t].expired
    /\ UNCHANGED <<store, call, canceling, running, asked, updates, approvals, given, asks, faults>>

Expired(t) ==
    /\ WorkerTo(t, "finishing", "failing") /\ Settled(t, "expired")
    /\ UNCHANGED <<store, call, canceling, running, asked, updates, acted, deciding, given, asks, faults>>

\* A canceled worker finishes its authorization and closes its runtime.
Abort(t) ==
    /\ WorkerTo(t, "aborting", "ended") /\ Settled(t, "canceled")
    /\ UNCHANGED <<store, call, canceling, running, asked, updates, acted, deciding, given, asks, faults>>

-----------------------------------------------------------------------------
\* A crash, or a shutdown, and the next start: initialize and
\* reconcile_restart mark what was under way; nothing is replayed.
Restart ==
    /\ Fault
    /\ state' = [t \in Tasks |-> IF t \in Active THEN "failed" ELSE state[t]]
    /\ known' = [t \in Tasks |-> known[t] /\ t \notin Active]
    /\ call' = [m \in Messages |-> IF call[m] = "idle" THEN "idle" ELSE "over"]
    /\ canceling' = {} /\ running' = {}
    /\ worker' = [t \in Tasks |-> IF worker[t] = "none" THEN "none" ELSE "ended"]
    /\ asked' = [t \in Tasks |-> "none"]
    /\ updates' = [t \in Tasks |-> <<>>]
    /\ auth' = [t \in Tasks |->
          [auth[t] EXCEPT !.row = IF @ = "pending" THEN "interrupted" ELSE @, !.future = "gone"]]
    /\ deciding' = NoDecision
    /\ UNCHANGED <<messages, claims, given, acted, asks>>

CallStep(m) ==
    \/ Dispatch(m) \/ Refused(m) \/ First(m) \/ Launch(m) \/ Resume(m) \/ Drain(m) \/ Release(m) \/ Finish(m)
WorkerStep(t) ==
    \/ Begin(t) \/ Acquire(t) \/ InputArrives(t) \/ RunEnds(t) \/ Conclude(t)
    \/ Approved(t) \/ Denied(t) \/ TimesOut(t) \/ Expired(t) \/ Abort(t)

Next ==
    \/ \E m \in Messages : CallStep(m) \/ Abandon(m) \/ \E t \in Tasks : Reserve(m, t) \/ Reply(m, t)
    \/ \E t \in Tasks : WorkerStep(t) \/ RequestInput(t) \/ Create(t) \/ Expire(t) \/ Decide(t)
                          \/ Cancel(t) \/ Canceled(t)
    \/ Decided \/ Restart

Spec == Init /\ [][Next]_vars

-----------------------------------------------------------------------------
\* A message is given to an agent at most once, over retries, replies, cancels
\* and restarts; two tasks of one context are never driven together.
MessagesRunOnce ==
    /\ \A m \in Messages : given[m] <= 1
    /\ \A t, u \in Tasks : t # u /\ ContextOf[t] = ContextOf[u] => ~(worker[t] \in Holding /\ worker[u] \in Holding)

\* An operation is executed once on one approval, and none is left to be
\* approved when the worker that asked is gone.
ApprovalIsSpent ==
    \A t \in Tasks :
        /\ acted[t] <= 1 /\ (acted[t] = 1 => auth[t].row = "approved")
        /\ worker[t] \in Idle => auth[t].future = "gone" /\ auth[t].row # "pending"

(* No message and no approved operation runs twice, and no two workers      *)
(* share a session (reserve: "retained message IDs never execute twice").   *)
NothingRunsTwice == MessagesRunOnce /\ ApprovalIsSpent

(* A task that ended stays as it ended, whoever is late: the executor, a    *)
(* cancel, an abandoned request or the next start; and no approval is       *)
(* recorded for it any more.                                                *)
TerminalIsFinal ==
    \A t \in Tasks : state[t] \in TERMINAL =>
        state'[t] = state[t] /\ (auth'[t].row = "approved" => auth[t].row = "approved")

(* What a client asked for happens once, and what became of it is final.    *)
OnceAndForAll == [][NothingRunsTwice' /\ TerminalIsFinal]_vars
=============================================================================
