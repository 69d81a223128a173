# A TLA+ development of nagents

This directory holds TLA+ models of nagents, an asyncio library and application
for LLM agents: the modules, the TLC configurations that check them on small
instances, and proofs checked by TLAPS. Every definition is translated from the
Python (in one place TypeScript) source under `src/src/nagents/`; paths below are
relative to it. `PROJECT.json` gives the lines each definition stands for, the
runs, a mutant per property, the findings, the hazards and the theorems.

- [The system](#the-system): the components, their state, what is hard
- [The modules](#the-modules): what each models and how it maps to the code
- [Runs](#runs): what each shows, its bounds and its fairness
- [Findings](#findings)
- [Proofs](#proofs): what is proved, along which argument, and what is not
- [What is not modelled](#what-is-not-modelled), [Plan](#plan)

## The system

nagents is a library (`Agent`, providers, tools, a durable session store) and an
application around it (the *harness*, a terminal UI, a web service with a
TypeScript client, channels to chat platforms, A2A and MCP endpoints, batch
jobs, live voice). Nearly all state lives in one SQLite database and in one
event loop per process. So the hard behaviour is of three kinds: interleavings of
coroutines at their `await`s, cancellation anywhere, and a process that dies
between two transactions. True parallelism exists only between SQLite
connections (of threads and of other processes).

| component | state | operations | what is hard | what makes it correct |
|---|---|---|---|---|
| writer admission (`_sqlite.py`, `_async.py`) | a registry of reference-counted gates, one `asyncio.Lock` each | `database_write(s)`, `write_database`, `join_owned` | deletion of a gate against its look-up; cancellation of waiters that were just woken; several databases at once | one writer per path; accepted work keeps its gate; FIFO; nobody waits for ever |
| agent run and history (`agent.py`, `session/manager.py`) | rows of messages, the compaction boundary, the loop's locals | rounds, streaming, tools, retries, repair, compaction | an exception at every `await`; tools with effects; runs left half way | a call starts at most once; results are earned, unknown ones said to be so; a context is always one a provider accepts |
| channel inbox (`channels/store.py`) | rows of an inbox | admit, claim, finish, interrupt | redelivery; restart | at most once, bounded, in order |
| channel listener (`channels/runtime.py`) | sources, callbacks, a worker, a condition | listen, receive, worker, cleanup | cancellation in every transaction; lost wake-ups; backpressure against shutdown | acknowledged means durable; cleanup completes |
| local delivery (`channels/local_delivery.py`, `session/deliveries.py`) | prepared deliveries, the delivery journal | send, commit, recover | COMMIT that raises; cancelled callers; trash and purge | the reported outcome is true |
| subagents (`harness/agents/subagents.py`) | one manager per agent, a shared budget, worker tasks, result queues | to_agent, continue, notification, end | quotas across awaits; shutdown against starts; routing of results in a tree | exact budget; no orphan; nobody waits for nothing |
| web host (`web/channels/host.py`, `web/execution/`) | inbox rows, one worker, one run per root, pulled follow-ups | claim, reserve, validate, produce, pull, settle, stop, close | stop, interrupt and close between any two awaits; the last empty look against a late input | one owner per running row; read at most once; nothing accepted is lost |
| event bus (`web/execution/subscriptions.py`) and the browser | cursor, ring, subscribers with bounded queues; a position and transcripts | publish, subscribe, hydrate, revoke, delete | a late hydration; slow clients; restarts | a client misses nothing without being told |
| wakeups (`web/execution/wakeups.py`) | pending wakeups, activation chains | schedule, cancel, tick | several timers for the rest of a budget; lanes freed late | a chain is bounded, a cancelled one never runs again; what is due is served |
| approvals (`web/execution/approvals.py`) | grants, a policy revision | ask, grant, revoke | a revocation during a look-up in a thread | nothing runs on a permission revoked before its last check |
| web tasks (`web/tasks/`) | receipts of messages to child agents | start, send, bind, read, settle | retried requests; a child that ends or restarts meanwhile | a receipt is true and settles |
| trash and deletion (`web/sessions/`) | roots, deletion generations, a purge cursor | remove, restore, purge, sweep | a purge of a restored generation; a blocked prefix; late messages | purged means gone, restored means intact, nothing runs in what was removed |
| A2A server (`a2a/`) | tasks, message reservations, authorizations | send, execute, ask, approve, cancel | retries, crashes, late answers | a message and an approved operation run once; terminal is final |
| batch (`batch/`) | submitted jobs, monitors | create, poll, process, resume | a crash between results and their mark | nothing is marked unhandled; a restart forgets nothing |
| generations of tools, MCP (`harness/tools/resources.py`, `mcp/`) | generations, counted connections | reload, retire, retry, close | a reload against a call; servers that die | a connection lives exactly as long as someone may call it |
| voice requests (`web/live/bridge.py`, `updates.py`, `handoff.py`) | lanes, sets of request ids, updates | notice, submit, observe, speak | the call ends while what it asked for goes on | the caller is told the truth |
| voice calls (`web/live/runtime.py`, `login.py`) | one call at a time, its provider session | create, attach, poll, end, finalize | creation, audio socket, lease, End and shutdown at once | nothing is left open; an ended call stays ended |

Further parts, not modelled: session forks, empty sessions and groups, settings,
outbound dispatch, the A2A client, live and realtime transports, providers and
wire adapters, harness tools and identity, migrations, user interfaces (see
[below](#what-is-not-modelled)).

How they interact: a *source* of a channel calls the listener's receive callback,
which admits a row; the listener's worker claims it and iterates `Agent.run`;
the run writes the history through the session manager, which writes through
the writer admission; a tool of the run may start subagents, each of which is a
run of its own, ask for an approval, or call a connection of the current
generation of tools; a run that answers through a local channel commits a
delivery. The web service does the same for browser inputs: its host claims rows,
reserves a run for the root, lets the run pull follow-ups and publishes what
happens on its event bus; wakeups, task starts and voice requests take the same
lanes, and the removal of a chat has to stop all of them.

## The modules

    MCSqliteGate -> SqliteGate, with LocalDelivery
       `-------------------------------------- SqliteGate_proofs
    ToolLedger <- AgentRun ------------------- AgentRun_proofs
    SubagentTree ----------------------------- SubagentTree_proofs
    WebHost ---------------------------------- WebHost_proofs
    EventBus ---------------------------. ,--- EventBus_proofs
    ToolApprovals -> ApprovalPromise ---'
    InboxPromise <- ChannelListener -> ChannelInbox
    MCChannelListener -> ChannelListener, with BatchJobs
       `-------------------------------------- ChannelListener_proofs
    MCServices -> ChannelListener, ApprovalPromise, with A2AServer, TaskReceipts,
       |          SessionTrash, Wakeups, ToolApprovals, VoiceRequests,
       |          ToolGenerations, VoiceCalls
       `-------------------------------------- MCServices_proofs
    MCProgress: ChannelListener, TaskReceipts, SessionTrash, Wakeups,
                VoiceRequests, VoiceCalls, under fairness
    MCLiveness: SubagentTree, AgentRun, WebHost, BatchJobs, under fairness

An arrow to the left is a refinement (`INSTANCE ... WITH`, the abstract
specification as a property), one to the right is `EXTENDS`. The other `MC` modules
define the constants and the symmetry of one module's run. MCSqliteGate and the last four compose:
their initial state picks one of several components, which then runs by itself
while the others rest (`which`). They ask one question of each and save what a run
of its own would repeat; the components do not share state in the code either,
apart from the writer gate, which `SqliteGate` models, and the transactions of
other components, which each module models as actions of its environment.

The granularity is the same everywhere: **one action is the code between two
suspension points of a coroutine, or one transaction**. What a coroutine may find
changed after an `await` is then exactly what another action can change.
Cancellation is an action of its own wherever a `CancelledError` can be raised;
`join_owned`/`finish_on_cancel`, which defer a cancellation until owned work
is over, show as a cancellation that is noted and raised later. Definitions marked
*Mutant* are plausible bugs: they are not part of the specifications; each shows
that one property depends on the code it was translated from.

### SqliteGate - `_sqlite.py`, `_async.py`

State: `gates` (the registry), `gate` (each `_Gate` with its users, owner, lock
and waiters), and per task what it has reserved (`frame`), has still to reserve
(`todo`), waits for (`fut`), whether its operation was accepted (`work`) and
whether a cancellation is due (`cancel`). `asyncio.Lock` is modelled with its futures
(external code), because admission is only as fair as the lock is between
waking a waiter and its resumption. Actions: `Call`, `Reserve` (up to the lock's
first suspension), `Resume`, `Start`, `Reenter`, `Cancel`, `Finish`, `Leave`,
`Unwind`. Paths are numbers because `database_writes` sorts them.

### AgentRun, ToolLedger - `agent.py`, `session/manager.py`

`log` is the table of messages, `boundary` the compaction boundary; the context is
what follows it. A *block* is an assistant message with all calls of a response.
Program counter and locals are the run's; a `Crash` keeps `log` and `boundary`
only. `Interrupt` is an exception anywhere (cancellation, a closed iterator, a
plugin that raises), with the write under way committed or not; the cleanup then
repairs. Retries, fail-fast, the round bound and both kinds of compaction are
actions. `todo` is the set of unanswered calls a repair has read; `Repair` writes
the answers "outcome unknown" one by one, in their place. `Copy` rows are those
a compaction wrote: their calls are no longer executable. `ToolLedger` is the
promise about calls: started only while unanswered, answered once, and what was
answered "unknown" is never revised.

Runs and compactions of a session are serialized by the caller, which
`Agent.run`'s docstring (`agent.py:1370`) demands, so there is one
program counter. Snapshot plug-ins are modelled as code that may raise. A
manual `Agent.compact` after a crash can put the boundary behind an open block;
that block is then never answered in the stored history, and the context stays
well-formed: `OnlyTheLastIsOpen` speaks of the active context for this reason, and
`ImplementsLedger` counts a result as an answer only if it directly follows its
block.

### ChannelInbox, ChannelListener, InboxPromise - `channels/store.py`, `channels/runtime.py`

`ChannelInbox` holds the store's transactions as operators on the table;
`ChannelListener` is everything that calls them: the callbacks (`Deliver` ...
`CancelReceive`), the worker (`WorkerEnter` ... `Notify`, with `CancelWorker` for
a cancellation at each of its awaits, and `ClaimFails` for a storage error, which
ends it), `listen` and its cleanup, and `Crash`.
The condition variable is its lock (`lock`) and, for its waiters, their control
states. The lock is held across the transactions of callbacks and of the claim
but not across `finish`, as in the code. `InboxPromise` is what the docstrings of
the store promise; the listener with the table implements it, crashes included.
Left out: parsing of envelopes, tool registration, per-tool notices and typing
indicators.

### LocalDelivery - `channels/local_delivery.py`, `session/deliveries.py`

A delivery goes through initialization, the writer gate, its transaction in a
thread, and the way back. `CommitLost` is a COMMIT that raised: it may have
committed, may have been rolled back, or may still be open when the rollback
fails as well. `written` is a history variable. `Trash`, `Restore`, `Purge` and
`Clear` are the transactions of other connections on the root.

### SubagentTree - `harness/agents/subagents.py` (and parts of `harness/runtime/`)

An agent is the root or a task, each with a manager: `active`, `stopped`,
`changed` (events), `ready` and (at the root) `pending` (results). A task has
a `lineage`, a `status` and a worker (`work`, `cancel`). A call is a `to_agent` or
`continue_task` in progress. Quotas are checked before the first `await` and again
after it (`StillAdmitted`), as in the code. `Pass` is one stretch of the root's
`notification()` between two awaits; `todo` is the snapshot of parents it walks.
A worker waits behind a gate until the start of its task is recorded (`"gated"`);
one that is cancelled there never runs (`Open` leaves it). Whether the run was
started for a task, and then waits for all its tasks before it takes their results
(`wait_for_tasks`), is left open (`Decide` may wait in either case). Left out: human
follow-ups, scheduled wakeups, changed limits, release of a session, artifacts.

### WebHost - `web/channels/host.py`, `web/execution/service.py`, `owners.py`, `queued_inputs.py`, `followups.py`

Rows of the inbox (`inbox`, `status`), the single worker (`worker`), the claim's task
of each root (`task`: `execute_claim` and what it validates), the run and its producer
(`run`), the pull of the next follow-up (`pull`) and the rows a run has claimed
(`claimed`). Cancellation is kept where it is noted: `Stop`, a submission in interrupt
mode (`Notify`) and a close mark a run, and the producer, its pull and the claim's
finalizer act on it one step at a time. `read` is a history
variable: how often a model was given a row. `KindOf` tells an input from a skill
(which can fail to load), a compaction, and a cached reply. Not modelled: the
capacity of the inbox, the backoff when SQLite is busy, connectors and their
availability, and the harness a run borrows.

The worker is one task that nobody restarts. An exception that leaves its loop ends
it until the process is started again (`WorkerEnds`): an acknowledgement that its
connector fails to send (`WorkerAcknowledge`), or an error of SQLite other than BUSY
in the query or the claim (`WorkerFails`). Liveness of the rows is therefore stated
for a worker that lives, and the former case is a [finding](#findings).

A producer that a close cancels before its first step settles its unread row
`interrupted`, though the comment at `host.py:864` says that pending claims return
to the queue; the model does what the code does.

### EventBus - `web/execution/subscriptions.py`, `web-ui/src/api/subscription.ts`, `features/chat/liveTranscript.ts`

The bus (`log`, of which `ring` can be replayed and `discarded` tells how far it
cannot; `base` is what sessions got in former epochs), one connection (`sub`,
`queue`, `sending`, `hyds`) and the browser (`want`, its position `pos`, and per
session the transcript's position `kept` and the number of events `seen`). A
snapshot is the number of events it reflects, which is all that "nothing missed,
nothing twice" tells apart. A hydration notes the cursor (`BeginRead`), reads
(`Read`) and only then compares and queues (`Hydrate`, `ReadAgain`); everything
may happen in between. Hydrations of an earlier generation stay until their read
ends and count against the limit. The poller of `web/channels/host.py`, which publishes
snapshots of idle histories, is `Publish("snapshot", s)`. The browser opens a new
connection for another session (`Switch`); clients that switch on their
connection, as the tests of the service do, are `Move`. Such a client must not
go back to a session that it left on the same connection: a frame from the
first stay can arrive in the second and be taken for an answer (the browser
cannot get into this). Left out: the limits in bytes and of connections, HTTP
reads of a history (`loadHistory`), credentials beyond "the position is void".

### Wakeups - `web/execution/wakeups.py`, `service.py`

The timers, the chains of runs that follow from one human run, and the task that
claims what is due with its root (`Look`, `Wake`). Runs schedule, end or are
stopped; a human run's lane outlives it (`lanes`); settings writes and removals
take the mutation guard. Two branches of `tick` are not modelled because nothing
reaches them: a due timer of a cancelled chain (cancelling a chain cancels its
timers in the same step) and a reservation that fails right after the root was
found available.

### ToolApprovals, ApprovalPromise - `web/execution/approvals.py`, `service.py`

Per run the call whose approval is asked (`call`), the harness's pending question
(`pending`) and the answers of the operator (`answers`), against the saved `grant`
with its policy revision, which others revoke and replace. The look-up of a grant
runs in a thread, so what it found may be stale when it returns. `ApprovalPromise`
names what a user relies on: `executed` operations each have an answer or a
permission that was current at the last check. A revocation between that check and
the execution itself comes too late (the notice is sent first); the automatic
replies to a chat are left out.

### A2AServer - `a2a/`

The store of tasks and message reservations (`state`, `messages`, `claims`), the
handling of a message (`call`), the executor's worker of each task (`worker`,
`running`), its questions and approvals (`asked`, `auth`, `deciding`). A call notes
whether its task has an execution before its first `await` and acts on that after it
(`reading`, `replying`). A worker that starts while the one of a popped execution is
still stopping could do no more than wait for the lock of its context: it starts when
that one is over (`Launch`). The SDK is external. The state `consumed` of an authorization, which the source mentions, can
never be stored, so the model has none.

### TaskReceipts - `web/tasks/`, `web/execution/service.py`

One chat with one child: the journal row of each message (`row`), the HTTP request
that admits it (`request`), the run that owns the child (`run`), the child and its
worker (`child`, `reading`, `inputs`) and the events the run has still to record
(`events`). Two writes of one row by different coroutines are ordered by the FIFO
writer gate (`Ordered`), on which the receipts rely.

### SessionTrash - `web/sessions/`

Removal to the trash or for good, restoration, purge and the expiry sweep (`op`),
with the generation of a deletion (`deletion`), the sweep's `cursor`, and what may
still reach a chat: rows that are queued or delivered again, runs, timers and child
starts.

### BatchJobs - `batch/manager.py`, `store.py`, `client.py`

Rows (`row`, `saved`), the provider (`remote`, `errors`), the registered monitor of a
job (`entry`) and what each monitor, and `resume_all`, is doing (`work`, `todo`).
`due` is what was unprocessed when `resume_all` was called and whose monitor nobody
stopped since. What the model shows of the code and no document contradicts: a job
whose row was not saved is lost; the `finally` of an old monitor may unregister a
newer one; a job without a registered callback is marked processed; a late
`update_status` may make a processed row active again, so that its callback runs
twice (at least once, not exactly once); the error file of one wire format is read
only when there is no output file; `resume_all` raises at the first failed job.
Calls after `close()` other than those under way, rows stored without requests,
`delete_batch` and the wire formats are left out.

### VoiceRequests, VoiceCalls - `web/live/`

`VoiceRequests` is a request of a call from its notice (`lane`) over its inbox row
(`row`, `claim`, `run`) to what the caller is shown (`status`), with the bridge's sets
(`observed`, `submitted`, `pending`, `terminal`), the update buffer and the end of the
call. A shutdown of the host, which puts a row that no model has read back into the
queue while the record of the call goes with the process, is left out. `VoiceCalls`
is the call: its task (`pc`), the request that created it (`maker`),
the provider's session, the observer of its events, the audio socket (`browser`) and
the lease, over three paths (`Paths`). Timeouts may come at any moment; a relayed
session is assumed to end with its transport.

### ToolGenerations - `harness/tools/resources.py`, `mcp/manager.py`, `mcp/client.py`

The clients that were started (`client`), which generation holds which (`holds`), the
`current` generation and the one the run was shown (`active`), the reload that has the
lock (`task`) and who waits for it (`waiting`). A reload can fail even after its
commit, when the close of the old generation raises (`Retired`). Two things the model shows and no
property is about: a Retry that arrives while the same server is being started by a
reload is lost, since `_mcp_failure` replaces the diagnostic that carries it; and a
response to a request whose future was cancelled but not yet removed makes
`set_result` raise in `_read_responses`, which disconnects the server.

## Runs

A `pass` run finishes without error; a `violation` run shows a [finding](#findings).

| run | instance | shows |
|---|---|---|
| `writers` | 3 tasks, 2 paths, 3 gates; and by themselves 3 deliveries of 2 roots; fair | `OneWriter`, `AcceptedWorkKeepsGate`, `FifoAdmission`, with a cancellation at every suspension; `EveryCallEnds`: sorted reservation has no deadlock, no wake-up is lost; `ReportsAreTrue`, `RootsAreRespected` (only into live roots, nothing after a purge), `SendEnds` |
| `listener` | 2 messages, 2 channels, 2 callbacks, room for 1, 2 listeners; and by itself 1 batch job of 2 requests, 1 restart | `RowsAreAccounted` (run at most once, routable, honest notices, a clean stop leaves nothing running), `AckedIsDurable`; `JobsAreNotLost`: nothing is marked processed unhandled, `resume_all` misses nothing |
| `tree` | 3 tasks, 2 calls, depth 3, 2 slots, 3 executions | `QuotasHold` (exact budget, bounded slots), `RootAgreesWithTree` (nothing runs after the root's end, its wait has somebody who ends it), `SubtreesAreClear` (no agent ends or starts over live work below it) |
| `tree_wakeup`, `tree_loss` | 3 tasks, 1 call, 3 slots / 2 tasks, 2 calls, depth 2; 4 executions | `WaitersAreWoken`, `NothingLeftBehind` are violated |
| `agent_run` | 2 call ids, 2 rounds, 2 runs, 2 faults, 1 compaction, fail-fast | `ContextsStayValid`, `NeverReplayed`, `RunsLeaveNothingPending`, `ImplementsLedger` |
| `events` | 2 sessions, 2 publications, ring and queue of 1, 2 hydrations, 1 fault, fair | `PositionHonest` (nothing missed, nothing twice), `NothingForeign` (nothing of another or a deleted session), `CatchesUp` |
| `web_host` | 4 rows of 2 roots (an input, a skill, a command, a cached reply), 1 run at a time, 2 events | `AcceptedIsAccounted`: a running row has one owner, a row is read at most once, completed means read |
| `web_ack` | 2 rows of 2 roots (an input, a cached reply), 1 event, fair | `AcknowledgementsDoNotBlock` is violated |
| `services` | nine components, one at a time, with at most 1 fault each (1 listener; approvals: 2 changes) | `KeepsPromise` (the listener implements `InboxPromise`, room for 2), `OnceAndForAll` (A2A), `ReceiptIsTrue`, `RemovalIsExact`, `ChainsAreBounded`, `OperationsAreAuthorized`, `RequestsAreHonest`, `ConnectionsAreKept`, `CallsEndHonestly` |
| `progress` | six components, one at a time, fair | `ListenerServes` (queued work is taken, a stop ends), `ReceiptSettles`, `ExpiredIsPurged`, `DueIsServed` (however stops and settings writes come and go), `RequestsSettle`, `CallsAreFreed` |
| `live` | four components, one at a time, fair | `StopEnds` (tree), `RunsEnd` (agent, 1 run, 1 fault), `WebServes` (accepted messages are claimed while the worker lives, a close ends), `WatchedIsHandled` (batch) |

The invariants that bundle several statements are conjunctions of the named parts
in their modules. An action property that bundles an invariant with what no step
may do is stated as `[][Inv' /\ Step]_vars`, so that its violation is reported under
its own name.

Why the bounds suffice. *Gate*: two tasks are enough for a race on a gate, the
third is the waiter that must not be overtaken or forgotten; two paths make the
opposite orders of a deadlock; more gates than paths let an old gate live while
a new one is made. *Listener*: two callbacks and two channels compete; the second
listener meets the rows of the first, with fewer or other channels; room for
one makes the inbox full with a single message, room for two puts rows in line.
*Tree*: a chain of three has an inner task with both a parent and a child that are
not the root; two slots for three tasks, and three executions for three tasks and
their continuations, exhaust the quotas. *Delivery*: two sends of one root compete,
the third is of another. *Agent*: two ids give blocks of one and two calls and
ids that repeat in a later block; two faults interrupt a run and then the
repair of what it left. *Events*: a ring and a queue of one overflow with the
second publication, which may come before a subscription, during a hydration,
behind a blocked send or while the browser is away; two hydrations are the limit
of the code. *Web host*: two rows of one root make a follow-up, two of one
conversation an order, and a second root competes for the one slot; of two events
the second hits what cleans up after the first. *Services*: two of each thing that
can compete (timers of one chain, messages to one child, chats, servers, requests,
calls) and one fault that hits any step; five generations of tools, so that a reload
at a boundary of the run closes one between the run's and the current. *Progress*: of
the wakeups, a second timer, a stop or settings write, and a shutdown each come in
behaviours of their own (`OneAtATime`), which keeps the graph small enough for
liveness. Larger instances were checked once by
hand: batch with two monitors of a job and one fault (8.3M states), voice requests
with two faults (178k) and their liveness with two requests (51k), calls with two
faults (261k) and the liveness of two calls (158k).

The bounds that cut behaviour are named constants (`MaxListens`, `MaxRuns` of the
agent and the receipts, `MaxFaults`, `MaxEvents`, `MaxChanges`, `MaxCompactions`,
`MaxCursor`, `MaxAsks`, `MaxTime`, `MaxRequests`, `MaxWakes`, `MaxEdits`,
`MaxGenerations`, `MaxClients`, `MaxCalls`, `MaxTasks`, `MaxRestarts`, `MaxActivations`
of the receipts); `InboxLimit`, `MaxDepth`, `MaxSlots`, `MaxExecutions`,
`MaxToolRounds`, `MaxReplay`, `MaxQueue`, `MaxHydrations`, `MaxRuns` of the host,
`MaxActive`, `Room`, `Batch`, `Retention`, `MaxPending`, `MaxParallel` and
`MaxActivations` of the wakeups are limits of the code itself.
`CHECK_DEADLOCK FALSE` is set where everything may be done: a listener that
used up `MaxListens`, a worker that ended, deliveries that are all sent, runs that are all made, a
browser that is told that its session is gone, an inbox that is settled.

Fairness. Everywhere: the event loop runs what is ready (weak fairness of the
steps of a coroutine) and threads finish; nothing external is assumed to
happen, neither a message, a cancellation nor a fault. *Gate*: accepted
operations end. *Listener*: strong fairness for taking the condition, since
`asyncio.Lock` is FIFO; a connector whose task is cancelled ends once its callbacks
have (it may drain them); `Agent.run` ends, which `RunsEnd` is about. *Tree*:
only the steps of a shutdown are fair; tasks may work for ever.
*Delivery*: SQLite answers a statement with success or an error (the busy
timeout). *Agent*: the stream and the tools end. *Events*: the tasks of a connection and
the handlers of the browser go on; nobody has to publish. *Web host*: the worker,
the close, each claim's task and each run go on, and runs end; nobody has to submit.
*Receipts, trash, wakeups, voice*: the coroutines of the request, the operation, the
run and the call go on, runs and settings writes end, time passes (`BecomesDue`, the clock); what is
released or answered by a person is not assumed. *Batch*: monitors, `resume_all` and
`create_batch` go on; the provider need not end a job; calls that fail are bounded.

## Findings

**An agent can wait for ever for a descendant** (`tree_wakeup`, code bug). The
root's `notification()` restarts an idle parent through `continue_task`. When the
budget refuses (`harness/agents/subagents.py:1062`), the refusal is raised before
the `try` whose `finally` calls `_admission_changed`. Only the root goes on; an
ancestor of that parent waiting in its own `notification()` is not woken although
nothing below it runs any more. It waits until the run is cancelled.

**A result can be dropped silently** (`tree_loss`, divergence from
`docs/guide/ngn-web.md:1210`). `notification()` walks a snapshot of the waiting
parents and awaits while it walks. A result that arrives during the last of those
awaits, for an idle parent, is in no snapshot; with nothing running and nothing
ready the loop returns, the run ends and `end()` clears `_pending`: the parent is
neither restarted nor is a failure reported.

**A connector that fails to send an acknowledgement stops the web host's inbox**
(`web_ack`, code bug). The worker sends the cached reply of a routing command itself
(`web/channels/host.py:701`). If the connector raises or the send times out, the row
is settled as failed, the exception ends the only inbox worker, which
`_background_done` merely logs, and what is accepted from then on stays queued until
the process is restarted. `docs/guide/ngn-web.md:630` says that "unavailable connector
acknowledgements remain queued without blocking accepted model work"; that is so for a
connector which is not open, whose rows are not claimed. (`execute_claim`, which has
a branch for acknowledgements too, settles such an error and goes on.)

## Proofs

Checked by tlapm, for every value of the constants under the named assumptions of
each module, which TLC evaluates too. A theorem about a property of the runs has
the property's definition as its conclusion.

| module | theorem | says |
|---|---|---|
| `SqliteGate_proofs` | `TypeCorrect`, `WritersExclude`, `RegistryIsExact`, `AdmissionIsFifo`, `AcceptedWorkFinishesInside`; `SendsTypeCorrect`, `SendsAreHonest`, `RootsAreLive` over the instance `D` of `LocalDelivery`; `GatesHoldAmongBoth`, `SendsAreHonestAmongBoth` of the composition the run explores | type, `OneWriter`, `RegistryExact`, `FifoAdmission`, `AcceptedWorkKeepsGate`; type, `ReportsAreTrue`, `RootsAreRespected` |
| `ChannelListener_proofs` | `TypeCorrect`, `Accounted`, `Durable`, `ImplementsPromise`; `JobsTyped`, `JobsAreKept` over the instance `B` of `BatchJobs`, and `AccountedAmongBoth`, `JobsAreKeptAmongBoth` of the composition the run explores | type, `RowsAreAccounted`, `AckedIsDurable`, `KeepsPromise` (the refinement of `InboxPromise`); type, `JobsAreNotLost` |
| `AgentRun_proofs` | `TypeCorrect`, `ToolsStartOnce`, `StartsAreOnRecord`, `ContextsAreValid`, `NothingIsLeftPending`, `LedgerRefined` | type, `NeverReplayed`, `StartsAreDurable`, `ContextsStayValid`, `RunsLeaveNothingPending`, `ImplementsLedger` (the refinement of `ToolLedger`) |
| `SubagentTree_proofs` | `TypeCorrect`, `QuotasAreKept`, `RootAndTreeAgree`, `SubtreesEndInOrder` | type, `QuotasHold`, `RootAgreesWithTree`, `SubtreesAreClear` |
| `WebHost_proofs` | `TypeCorrect`, `MessagesAccounted`, `LanesAgree` | type, `AcceptedIsAccounted`, and that tasks, lanes and runs agree on the root they occupy |
| `EventBus_proofs` | `BrowsersAreNotMisled`, `ConnectionsArePrivate`; `Authorized` over the instance `P` of `ToolApprovals` | `PositionHonest`, `NothingForeign`; `OperationsAreAuthorized` |
| `MCServices_proofs` | `ChainsKeepTheirBudget`, `ReceiptsAreTrue`, `RequestsStayHonest`, `RemovalsAreExact`, `TasksRunOnceAndForAll`, `ConnectionsStayKept`, `VoiceCallsEndHonestly`, and each `AmongServices` | `ChainsAreBounded`, `ReceiptIsTrue`, `RequestsAreHonest`, `RemovalIsExact`, `OnceAndForAll`, `ConnectionsAreKept`, `CallsEndHonestly`, of the service alone and of the composition the run explores |

*SqliteGate.* Mutual exclusion is not inductive: it needs that a task inside a
path's gate is the owner of the registered gate, hence that a gate with users is
registered and that `users` counts its frames; a waiter's future, a lock and its
owners have to agree. The invariant says, per gate, who refers to it and in
which role. The counting facts (one user more, one less) are lemmas on
cardinalities. That admission is first come, first served is a property of steps
which follows from the same invariant: a waiter who was woken is the head of its
queue (`ResumeInOrder`), and who gets the lock at once finds nobody but cancelled
waiters in the queue (`ReserveInOrder`).

*ChannelListener.* What the actions do to the table is abstracted first
(`RowsStep`: a row is added once, or one row moves on along its life), which the
refinement and durability follow from. The invariant adds that messages have one
row each, where a callback's and the worker's row is (`Callbacks`, `OneRunning`),
and what was told and run of it (`Told`, `RunOnce`, `Settled`, `Routed`).

*LocalDelivery* (in `SqliteGate_proofs`, over `D`). The invariant ties the program counter of a delivery to what may
be true of its rows, gate and outcome: a transaction is open only while its
delivery holds the lock, a receipt appears after the commit only, and `failed`
before it only.

*AgentRun.* `NeverReplayed` needs to know where the run is: starts of the current
block are exactly the calls before `pos`, and the block at `at` did not exist
before (`FreshOK`, `TurnOK`); a block's row never changes and calls in it are
distinct. Valid contexts need the shape of the active history: every block but
the last is answered in place (`Shape`, `InPlace`), every result has its block
(`AllOwned`), and what a repair still has to write is exactly what the last block
misses (`Missing`, `PendingIsMissing`). Compaction keeps rows that the code
validates; that what it lets through is complete is a lemma (`KeptRows`). The
refinement of `ToolLedger` goes action by action: each adds at most a block, a
start or an answer to the ledger.

*SubagentTree.* `QuotasHold` is inductive with the types and what a call's
registers say of its task (`Quotas`). `SubtreesAreClear` needs the family of a task
(lineages are chains of live parents, `Family`), that what is below an agent is
clear whenever its worker is over (`Clear`), and that who waits for a child lists
it (`Awaited`). That the root agrees with its tree needs that the root's manager is
active exactly while its run is (`RootRun`) and that whoever is cancelled has
somebody to join it (`Cancellers`).

*WebHost.* A running row may be held by the worker, a claim's task, a pull or a run
(`Worker`, `Task`, `Pull`, `RunHas`); the invariant says that these are disjoint
(`Lane`, `Pulls`, `Host`), that they cover the running rows (`Accounted`), and how
often a row was read in each of them (`Read`, `TaskRead`, `RunRead`). Steps that
move no row, or one row, are dealt with by frame lemmas (`QuietFrame`,
`RowFrame`).

*ToolApprovals* (in `EventBus_proofs`, over the instance `P`). An answer counts for
the question it was given to (`QuestionIsOwn`, `AnswersAreSent`), and a permission
found by a look-up whose policy revision is still current was not revoked since
(`LookupIsFresh`).

*EventBus.* The position is honest because the frames under way tell everything that
comes after it. The invariant reads what is to arrive in order: what is being sent,
then the queue (`Sent`, `Ahead`, `Flight`). Each frame says what was published
(`Honest`), and before a frame that is counted nothing the browser has to know is
missing: each event of its session is up to its position, or in a frame before
(`Complete`, `NoGap`). That a replay leaves no gap rests on the ring forgetting its
oldest frames first (`RingInv`), and that a snapshot leaves none on the cursor not
having moved while it was read (`Fresh`). What the server takes for the browser's
position may come from an earlier connection or from a session that was left: it is
no more than the browser has (`Following`). A snapshot that places the browser
anew, after a restart, is not older than its transcript (`Recent`, `Shown`). That
nothing foreign arrives needs that only the current subscription is eligible, reads
and has frames (`Subscription`).

*BatchJobs* (in `ChannelListener_proofs`, over `B`). That no job is lost depends on
where each actor is in its processing of it: the invariant says what an actor has
recorded and handed over at each of its places (`HandedOut`), that a job whose row was
not saved yet concerns nobody (`Births`), and that the registry of monitors and the
monitors agree (`Places`). No status on its way to a row is newer than the provider's,
and a finished job that is left to nobody is not reopened by an answer that comes late
(`Seen`, `Late`): else it would be in neither of the two queries of `resume_all`. For
each job that was due when `resume_all` began, the invariant says how far that has got
(`DueOf`, `Dues`): a job that is neither processed nor watched has yet to be listed by
the second query, is in the list, or is the one in hand. Hence nothing is left over
when `resume_all` returns, which only `ResumeReturns` does (`ReturnIsIt`). Most
actions touch the rows not at all or one of them, which the frame lemmas deal with
(`MoveFrame`, `EndFrame`, `StillCore`, `StopFrame`, `StartFrame`).

*Wakeups* (in `MCServices_proofs`, over the instance `W`). The budget of a chain is
the number of its claimed timers, which needs that timers and runs belong to a
chain of their chat (`TimersAreOwned`, `RunsAreOwned`); most steps start nothing
(`Quiet`), and the three that do (`Schedule`, `HumanStarts`, a claim) each take a
free place.

*TaskReceipts* (over `R`). The binding of a row never changes once it is set
(`SafeRow`), and a child that is about to write reads with exactly the activation and
the run that its row was bound to (`ChildHasRow`); all steps but the binding and the
reading leave every row safe (`Unwritten`).

*VoiceRequests* (over `V`). What may be true of a row follows from where the handler
of its request is (`LaneOf`), what is pending from the row and the verdict
(`LedgerOf`), and the run that the bridge takes for a request's own has its row
(`AdmittedOf`). That whoever waits has an observer rests on `Observers`: one is given
up only for a transport that failed or a call that ended, with nothing pending, and
then nothing is admitted any more.

*SessionTrash* (over `S`). A removal excludes starts with the lock of task inputs from
its check to its write, and its chat has no run that still goes on, and no timer, once
the processes are released (`StoppedFirst`). A run has its row and no other
(`RunsHaveRows`), so that rows can be settled without a run noticing. That a message
is claimed once needs where a claimed row may be forgotten: with its chat, or with a
note that the message was deleted (`ClaimedOnce`).

*A2AServer* (over `A`). One call of a task is under way at a time, and if the task waits
for a reply it is that reply, which holds the claim (`CallsInOrder`); hence a call that
may still save knows the version of its task exactly if the task has not ended, and
the message that a worker finds under its lock was given to nobody. An authorization's
row is pending while its future is open, and whoever must take the future away is
still there (`ApprovalInOrder`).

*ToolGenerations* (over `H`). A client's count is the number of generations that hold it,
and it lives exactly while that is positive or a reload is starting it (`Counted`;
letting go of one or of two generations keeps it so, `LetGoKeeps`). What a reload has in hand
follows from its stage (`StageInv`); a generation that holds anything is the current one,
the run's, or one of the reload's (`PlaceInv`); and a run reloads at its boundaries only,
where it waits at most once (`RunInv`). The counting facts are lemmas on cardinalities.

*VoiceCalls* (over `K`). Calls come one after the other: those before the active one have
ended, those after it have not begun (`CallsInLine`), so two sessions are open only after
a call that did not end as `closed`. A call says that it is closing from the moment it is
stopped or its task hangs up, and such a task does not connect any more (`ClosesOnce`). A
session that was allocated is known by its identifier, attached to, or lost with a failure
that the record will show (`NothingOpen`).

Every invariant and action property of the passing runs is a theorem, and so are
both refinements. Only model-checked: liveness (under fairness, like ENABLED, out of
reach of the prover), and the three divergences above, which are counterexamples.
What a recursive definition computes for every input would need an induction over
data; the modules with theorems have none: where the code walks a history, they say
what the walk returns with quantifiers.

## What is not modelled

Formatting, parsing and wire protocols (providers, adapters, envelopes, UI), as
they keep no state that outlives a call. The components listed as `not_modelled` in
`PROJECT.json` with the reason for each. asyncio, SQLite, connectors, providers, the
A2A SDK and tools are external: each is modelled by what the code relies on. What
each module leaves out of its component is said in its section and in the
component's note.

## Plan

Models of session forks under concurrent writers, of the settings revision, and of
human follow-ups of subagents, each with its invariant proved like those above.
