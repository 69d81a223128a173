----------------------------- MODULE TaskReceipts ---------------------------
(***************************************************************************)
(* The receipts of messages a browser sends to the child agents of a chat: *)
(* a journal row per message, the run that owns the child, the child that  *)
(* reads it, and the HTTP request that admits it.                          *)
(*                                                                         *)
(* One chat with one child.  A message of Starts asks for the child to be  *)
(* started; any other one continues it.  What the chat's own agent does    *)
(* with the child (start it, continue it) needs no receipt.  A failed      *)
(* child counts as a completed one: both can be continued.                 *)
(***************************************************************************)
EXTENDS Naturals, Sequences

CONSTANTS
    Messages, NoMessage,
    Starts,             \* the messages that start the child
    MaxRuns,            \* bound: runs of the chat
    MaxActivations,     \* bound: activations of the child
    MaxFaults           \* bound: failures, stops, settings writes, retries and crashes

ReceiptsAssumption ==
    /\ NoMessage \notin Messages /\ Starts \subseteq Messages
    /\ MaxRuns \in Nat \ {0} /\ MaxActivations \in Nat \ {0} /\ MaxFaults \in Nat

VARIABLES
    row,        \* ngn_web_agent_inputs
    request,    \* send or start of a message: where it is
    journaled,  \* its local flag: this request inserted the row
    target,     \* what it will bind the row to
    admission,  \* Tasks.admission, by the request that holds it
    created,    \* Tasks.created: requests whose Event is registered, not set
    run,        \* the run of the chat
    task,       \* Run.task_message_id
    child,      \* TaskInfo and the worker of the child
    reading,    \* the message the worker reads
    inputs,     \* SubagentManager._inputs of the child
    events,     \* task events the core emitted and produce has not recorded
    reads,      \* ghost: who read the message
    faults

requests == <<request, journaled, target, admission, created>>
children == <<child, reading, inputs>>
vars == <<row, requests, run, task, children, events, reads, faults>>

NoOne == [activation |-> 0, run |-> 0]
Entry == [kind : {"started", "completed"}, activation : 1..MaxActivations]

\* activation and owner are 0 in a row that is not bound.
TypeOK ==
    /\ row \in [Messages -> [status : {"absent", "queued", "picked_up", "error"},
                             activation : 0..MaxActivations, owner : 0..MaxRuns]]
    /\ request \in [Messages -> {"idle", "entering", "inserted", "binding", "verifying", "draining",
                                 "starting", "ready", "failing", "over"}]
    /\ journaled \in [Messages -> BOOLEAN]
    /\ target \in [Messages -> [activation : 0..MaxActivations, run : 0..MaxRuns]]
    /\ admission \in Messages \cup {NoMessage} /\ created \subseteq Messages
    /\ run \in [id : 0..MaxRuns, stage : {"none", "starting", "active", "ending", "over", "closing", "draining", "finishing"},
                cancelled : BOOLEAN]
    /\ task \in Messages \cup {NoMessage}
    /\ child \in [status : {"absent", "running", "completed", "cancelled"}, activation : 0..MaxActivations,
                  work : {"idle", "context", "writing", "turn", "stopping"}]
    /\ reading \in Messages \cup {NoMessage} /\ inputs \in Seq(Messages) /\ events \in Seq(Entry)
    /\ reads \in [Messages -> Seq([activation : 1..MaxActivations, run : 1..MaxRuns])]
    /\ faults \in 0..MaxFaults

\* A chat whose child ended in an earlier run, or that has none yet.
Init ==
    /\ row = [m \in Messages |-> [status |-> "absent", activation |-> 0, owner |-> 0]]
    /\ request = [m \in Messages |-> "idle"]
    /\ journaled = [m \in Messages |-> FALSE]
    /\ target = [m \in Messages |-> NoOne]
    /\ admission = NoMessage /\ created = {}
    /\ run = [id |-> 0, stage |-> "none", cancelled |-> FALSE] /\ task = NoMessage
    /\ child \in {[status |-> "absent", activation |-> 0, work |-> "idle"],
                  [status |-> "completed", activation |-> 1, work |-> "idle"]}
    /\ reading = NoMessage /\ inputs = <<>> /\ events = <<>>
    /\ reads = [m \in Messages |-> <<>>]
    /\ faults = 0

Fault == faults < MaxFaults /\ faults' = faults + 1
NoFault == UNCHANGED faults
Here == run.stage # "none"
\* tasks._active of the chat.
Active == run.stage = "active"
\* The writer gate admits transactions in order: a row is bound before
\* anything that is submitted after its message was accepted.
Ordered == \A m \in Messages : request[m] # "binding"
RequestTo(m, from, to) == request[m] = from /\ request' = [request EXCEPT ![m] = to]

-----------------------------------------------------------------------------
(* TaskStore *)

\* Mutant: a row that was already settled is settled again.
FailAnyway(rows, m) == [rows EXCEPT ![m].status = "error"]

Failed(rows, m) == [rows EXCEPT ![m].status = IF @ = "queued" THEN "error" ELSE @]

Bindable(m, activation, owner) ==
    row[m].activation \in {0, activation} /\ row[m].owner \in {0, owner}

Bound(m, activation, owner) ==
    [row EXCEPT ![m].activation = activation, ![m].owner = owner]

-----------------------------------------------------------------------------
(* The child's worker *)

Activate(m) ==
    /\ child.activation < MaxActivations
    /\ child' = [status |-> "running", activation |-> child.activation + 1,
                 work |-> IF m = NoMessage THEN "turn" ELSE "context"]
    /\ reading' = m /\ inputs' = <<>>

WorkTo(from, to) == child.work = from /\ child' = [child EXCEPT !.work = to]

\* input_context: the row is bound before the turn; a conflict fails the child.
ChildBinds ==
    LET fits == Bindable(reading, child.activation, run.id)
    IN  /\ WorkTo("context", IF fits THEN "writing" ELSE "stopping")
        /\ row' = IF fits THEN Bound(reading, child.activation, run.id) ELSE row
        /\ created' = created \ {reading}
        /\ UNCHANGED <<request, journaled, target, admission, run, task, reading, inputs, events, reads, faults>>

Readable(m) == row[m].status = "queued"

\* TaskHistory.add_message: the message and its row in one transaction.
ChildReads ==
    /\ WorkTo("writing", IF Readable(reading) THEN "turn" ELSE "stopping")
    /\ row' = [row EXCEPT ![reading].status = IF Readable(reading) THEN "picked_up" ELSE @]
    /\ reads' = [reads EXCEPT ![reading] =
          IF Readable(reading) THEN Append(@, [activation |-> child.activation, run |-> run.id]) ELSE @]
    /\ UNCHANGED <<requests, run, task, reading, inputs, events, faults>>

\* The end of a turn: the next input, or the final decision that there is none.
ChildTurns ==
    /\ IF inputs = <<>>
       THEN WorkTo("turn", "stopping") /\ reading' = NoMessage /\ UNCHANGED inputs
       ELSE WorkTo("turn", "context") /\ reading' = Head(inputs) /\ inputs' = Tail(inputs)
    /\ UNCHANGED <<row, requests, run, task, events, reads, faults>>

ChildFails ==
    /\ Fault
    /\ child.work \in {"context", "writing", "turn"} /\ WorkTo(child.work, "stopping")
    /\ UNCHANGED <<row, requests, run, task, reading, inputs, events, reads>>

\* The worker is over; its completion is published while the group is active.
ChildEnds ==
    /\ child.work = "stopping"
    /\ child' = [child EXCEPT !.status = IF Active THEN "completed" ELSE "cancelled", !.work = "idle"]
    /\ reading' = NoMessage /\ inputs' = <<>>
    /\ events' = IF Active THEN Append(events, [kind |-> "completed", activation |-> child.activation]) ELSE events
    /\ UNCHANGED <<row, requests, run, task, reads, faults>>

-----------------------------------------------------------------------------
(* The run of the chat: launch, Harness._run, WebState.produce *)

NewRun(m) ==
    /\ ~Here /\ run.id < MaxRuns
    /\ run' = [id |-> run.id + 1, stage |-> "starting", cancelled |-> FALSE]
    /\ task' = m

\* Somebody starts an ordinary run.
RunArrives ==
    /\ NewRun(NoMessage)
    /\ UNCHANGED <<row, requests, children, events, reads, faults>>

StageTo(from, to) == run.stage = from /\ run' = [run EXCEPT !.stage = to]

\* tasks.begin, then the child the run was launched for, up to the bound.
RunBegins ==
    /\ ~run.cancelled
    /\ \/ /\ task = NoMessage /\ StageTo("starting", "active")
          /\ UNCHANGED <<children, events>>
       \/ /\ task # NoMessage /\ child.activation < MaxActivations /\ StageTo("starting", "active")
          /\ Activate(task)
          /\ events' = Append(events, [kind |-> "started", activation |-> child.activation + 1])
       \/ /\ task # NoMessage /\ child.activation = MaxActivations /\ StageTo("starting", "ending")
          /\ UNCHANGED <<children, events>>
    /\ UNCHANGED <<row, requests, task, reads, faults>>

\* The chat's agent starts or continues the child itself.
RunDelegates ==
    /\ Active /\ child.status \in {"absent", "completed"} /\ Activate(NoMessage)
    /\ events' = Append(events, [kind |-> "started", activation |-> child.activation + 1])
    /\ UNCHANGED <<row, requests, run, task, reads, faults>>

CancelChild == child' = IF child.work = "idle" THEN child ELSE [child EXCEPT !.work = "stopping"]

\* The loop ends when no child works; tasks.end.
RunEnds ==
    /\ child.work = "idle" /\ StageTo("active", "ending")
    /\ UNCHANGED <<row, requests, task, children, events, reads, faults>>

\* A failure of its start or of a turn; tasks.end cancels the child.
RunFails ==
    /\ Fault
    /\ run.stage \in {"starting", "active"} /\ StageTo(run.stage, "ending")
    /\ CancelChild
    /\ UNCHANGED <<row, requests, task, reading, inputs, events, reads>>

\* Stop cancels the core's worker and the consumer of its events.
RunStopped ==
    /\ Fault
    /\ Here /\ ~run.cancelled
    /\ run' = [run EXCEPT !.cancelled = TRUE, !.stage = IF @ \in {"starting", "active"} THEN "ending" ELSE @]
    /\ CancelChild
    /\ UNCHANGED <<row, requests, task, reading, inputs, events, reads>>

RunOver ==
    /\ child.work = "idle" /\ StageTo("ending", "over")
    /\ UNCHANGED <<row, requests, task, children, events, reads, faults>>

\* Tasks.record, in the order of the events, while the run is consumed.
Record ==
    LET event == Head(events)
        first == event.kind = "started" /\ task \in created
    IN  /\ run.stage \in {"active", "ending", "over"} /\ ~run.cancelled /\ events # <<>> /\ Ordered
        /\ events' = Tail(events)
        /\ row' = IF first
                  THEN IF Bindable(task, child.activation, run.id) THEN Bound(task, child.activation, run.id) ELSE row
                  ELSE IF event.kind = "completed" /\ event.activation = child.activation
                  THEN [m \in Messages |->
                          IF row[m].activation = event.activation THEN Failed(row, m)[m] ELSE row[m]]
                  ELSE row
        /\ created' = IF first THEN created \ {task} ELSE created
        /\ UNCHANGED <<request, journaled, target, admission, run, task, children, reads, faults>>

\* The source is closed: _worker is forgotten, then draining is set.
RunCloses ==
    /\ \/ (run.cancelled \/ events = <<>>) /\ StageTo("over", "closing") /\ events' = <<>>
       \/ StageTo("closing", "draining") /\ UNCHANGED events
    /\ UNCHANGED <<row, requests, task, children, reads, faults>>

\* Mutant: only the message the run was launched for is looked for.
LaunchedOnly(m) == m = task

Unread(m) == row[m].owner = run.id \/ m = task

\* Tasks.finish; then the finally of launch, and the run is released.
RunSettles ==
    /\ StageTo("draining", "finishing") /\ Ordered
    /\ row' = [m \in Messages |-> IF Unread(m) THEN Failed(row, m)[m] ELSE row[m]]
    /\ UNCHANGED <<requests, task, children, events, reads, faults>>

RunFinishes ==
    /\ run.stage = "finishing"
    /\ run' = [run EXCEPT !.stage = "none", !.cancelled = FALSE] /\ task' = NoMessage
    /\ row' = IF task = NoMessage THEN row ELSE Failed(row, task)
    /\ created' = created \ {task}
    /\ UNCHANGED <<request, journaled, target, admission, children, events, reads, faults>>

-----------------------------------------------------------------------------
(* Tasks.send and Tasks.start *)

\* A request, or the retry of one that ended.
Arrive(m) ==
    /\ request[m] \in {"idle", "over"} /\ (request[m] = "over" => Fault) /\ (request[m] = "idle" => NoFault)
    /\ request' = [request EXCEPT ![m] = "entering"]
    /\ journaled' = [journaled EXCEPT ![m] = FALSE]
    /\ UNCHANGED <<row, target, admission, created, run, task, children, events, reads>>

Aim(m, activation) == target' = [target EXCEPT ![m] = [activation |-> activation, run |-> run.id]]

Leave(m) == admission' = NoMessage /\ request' = [request EXCEPT ![m] = "over"]
Draining == run.stage \in {"over", "draining", "finishing"}
Refused(m) ==
    \/ child.status = "cancelled" \/ child.status = "absent"
    \/ Here /\ run.cancelled
    \/ run.stage \in {"starting", "ending", "closing"}

\* What a request finds with the lock: its row, a refusal, a run that still
\* drains, or room for its row.
Enter(m) ==
    /\ request[m] = "entering" /\ admission = NoMessage /\ m \notin Starts
    /\ \/ /\ row[m].status # "absent" /\ (journaled[m] => row[m].status # "queued")
          /\ request' = [request EXCEPT ![m] = "over"] /\ UNCHANGED <<row, journaled, admission, target>> /\ NoFault
       \/ /\ row[m].status = "absent" \/ (journaled[m] /\ row[m].status = "queued")
          /\ \/ Refused(m) /\ NoFault
             \/ ~Refused(m) /\ Fault      \* the configuration changes
          /\ request' = [request EXCEPT ![m] = "over"]
          /\ row' = IF journaled[m] THEN Failed(row, m) ELSE row
          /\ UNCHANGED <<journaled, admission, target>>
       \/ /\ row[m].status = "absent" \/ (journaled[m] /\ row[m].status = "queued")
          /\ ~Refused(m) /\ NoFault
          /\ IF Draining
             THEN request' = [request EXCEPT ![m] = "draining"] /\ Aim(m, 0) /\ UNCHANGED <<row, journaled, admission>>
             ELSE /\ row' = [row EXCEPT ![m].status = "queued"]
                  /\ journaled' = [journaled EXCEPT ![m] = TRUE]
                  /\ admission' = m
                  /\ request' = [request EXCEPT ![m] = "inserted"]
                  /\ UNCHANGED target
    /\ UNCHANGED <<created, run, task, children, events, reads>>

\* wait_for_drain ends with the run, with its deadline, or with a stop.
Drained(m) ==
    /\ request[m] = "draining"
    /\ \/ /\ ~Here \/ run.id # target[m].run
          /\ request' = [request EXCEPT ![m] = "entering"] /\ UNCHANGED row
       \/ /\ request' = [request EXCEPT ![m] = "over"]
          /\ row' = IF journaled[m] THEN Failed(row, m) ELSE row
    /\ UNCHANGED <<journaled, target, admission, created, run, task, children, events, reads, faults>>

\* accept, after a second look: a note for a running child, a continuation in
\* the run that is there, or a run of its own.
Accept(m) ==
    /\ request[m] = "inserted" /\ m \notin Starts
    /\ \/ /\ Draining /\ ~run.cancelled
          /\ request' = [request EXCEPT ![m] = "draining"] /\ admission' = NoMessage /\ Aim(m, 0)
          /\ UNCHANGED <<row, run, task, children, events>>
       \/ /\ ~Draining /\ ~run.cancelled /\ child.status = "running" /\ Active /\ child.work # "stopping"
          /\ inputs' = Append(inputs, m) /\ Aim(m, child.activation)
          /\ request' = [request EXCEPT ![m] = "binding"]
          /\ UNCHANGED <<row, admission, run, task, child, reading, events>>
       \/ /\ ~run.cancelled /\ child.status = "completed" /\ Active
          /\ Activate(m) /\ Aim(m, child.activation + 1)
          /\ events' = Append(events, [kind |-> "started", activation |-> child.activation + 1])
          /\ request' = [request EXCEPT ![m] = "binding"]
          /\ UNCHANGED <<row, admission, run, task>>
       \/ /\ ~Here /\ child.status = "completed" /\ NewRun(m) /\ Leave(m)
          /\ UNCHANGED <<row, target, children, events>>
       \/ /\ \/ run.cancelled
             \/ child.status = "running" /\ (child.work = "stopping" \/ run.stage = "ending")
             \/ child.status # "running" /\ run.stage \in {"starting", "ending", "closing"}
             \/ child.status = "cancelled" /\ ~Draining
             \/ child.status = "completed" /\ child.activation = MaxActivations
             \/ ~Here /\ run.id = MaxRuns
          /\ Leave(m) /\ row' = Failed(row, m)
          /\ UNCHANGED <<target, run, task, children, events>>
    /\ UNCHANGED <<journaled, created, reads, faults>>

\* The row is bound; a conflict fails it.
Bind(m) ==
    LET fits == Bindable(m, target[m].activation, target[m].run)
    IN  /\ request[m] = "binding"
        /\ row' = IF fits THEN Bound(m, target[m].activation, target[m].run) ELSE Failed(row, m)
        /\ IF m \in Starts THEN request' = [request EXCEPT ![m] = "ready"] /\ created' = created \ {m} /\ UNCHANGED admission
           ELSE IF fits THEN RequestTo(m, "binding", "verifying") /\ UNCHANGED <<created, admission>>
           ELSE Leave(m) /\ UNCHANGED created
        /\ UNCHANGED <<journaled, target, run, task, children, events, reads, faults>>

Current(m) ==
    Here /\ run.id = target[m].run /\ child.status = "running" /\ child.activation = row[m].activation

\* Did the run end, or the child go on to another activation, meanwhile?
Verify(m) ==
    /\ request[m] = "verifying" /\ Leave(m)
    /\ row' = IF Current(m) THEN row ELSE Failed(row, m)
    /\ UNCHANGED <<journaled, target, created, run, task, children, events, reads, faults>>

\* start: the lock is held until the child is known to have the message.
StartEnter(m) ==
    /\ request[m] = "entering" /\ admission = NoMessage /\ m \in Starts
    /\ IF row[m].status # "absent" \/ child.status # "absent"
       THEN request' = [request EXCEPT ![m] = "over"] /\ UNCHANGED <<row, journaled, admission, created>>
       ELSE /\ row' = [row EXCEPT ![m].status = "queued"]
            /\ journaled' = [journaled EXCEPT ![m] = TRUE]
            /\ admission' = m /\ created' = created \cup {m}
            /\ request' = [request EXCEPT ![m] = "starting"]
    /\ UNCHANGED <<target, run, task, children, events, reads, faults>>

Start(m) ==
    /\ request[m] = "starting"
    /\ \/ /\ Active /\ child.status = "absent"
          /\ Activate(m) /\ Aim(m, child.activation + 1)
          /\ events' = Append(events, [kind |-> "started", activation |-> child.activation + 1])
          /\ request' = [request EXCEPT ![m] = "binding"]
          /\ UNCHANGED <<row, admission, created, run, task>>
       \/ /\ ~Here /\ NewRun(m)
          /\ request' = [request EXCEPT ![m] = "ready"]
          /\ UNCHANGED <<row, target, admission, created, children, events>>
       \/ /\ \/ Here /\ (~Active \/ child.status # "absent")
             \/ ~Here /\ run.id = MaxRuns
          /\ row' = Failed(row, m) /\ Leave(m) /\ created' = created \ {m}
          /\ UNCHANGED <<target, run, task, children, events>>
    /\ UNCHANGED <<journaled, reads, faults>>

\* The event is set, or ten seconds passed: a run that is there settles the row.
Ready(m) ==
    /\ request[m] = "ready" /\ Leave(m)
    /\ created' = created \ {m}
    /\ row' = IF m \in created /\ ~Here THEN Failed(row, m) ELSE row
    /\ UNCHANGED <<journaled, target, run, task, children, events, reads, faults>>

-----------------------------------------------------------------------------
\* A crash and the next start: children are not restored, no message is
\* replayed, and the rows of the earlier epoch are failed by initialize.
Restart ==
    /\ Fault
    /\ row' = [m \in Messages |-> Failed(row, m)[m]]
    /\ request' = [m \in Messages |-> IF request[m] = "idle" THEN "idle" ELSE "over"]
    /\ admission' = NoMessage /\ created' = {}
    /\ run' = [run EXCEPT !.stage = "none", !.cancelled = FALSE] /\ task' = NoMessage
    /\ child' = [status |-> "absent", activation |-> child.activation, work |-> "idle"]
    /\ reading' = NoMessage /\ inputs' = <<>> /\ events' = <<>>
    /\ UNCHANGED <<journaled, target, reads>>

RequestStep(m) ==
    \/ Enter(m) \/ Drained(m) \/ Accept(m) \/ Bind(m) \/ Verify(m) \/ StartEnter(m) \/ Start(m) \/ Ready(m)
ChildStep == ChildBinds \/ ChildReads \/ ChildTurns \/ ChildEnds
RunStep == RunBegins \/ RunEnds \/ RunOver \/ Record \/ RunCloses \/ RunSettles \/ RunFinishes

Next ==
    \/ \E m \in Messages : Arrive(m) \/ RequestStep(m)
    \/ ChildStep \/ ChildFails
    \/ RunStep \/ RunArrives \/ RunFails \/ RunDelegates \/ RunStopped
    \/ Restart

Spec == Init /\ [][Next]_vars

\* The loop schedules what is ready; turns, runs and requests end.
Fairness ==
    /\ \A m \in Messages : WF_vars(RequestStep(m))
    /\ WF_vars(ChildStep) /\ WF_vars(RunStep)

-----------------------------------------------------------------------------
(* A message is read at most once, by the activation and the run its row    *)
(* names, and the row says picked_up exactly when it was read: a browser    *)
(* that is told "error" may send the text again.                            *)
ReceiptIsTrue ==
    \A m \in Messages :
        /\ (row[m].status = "picked_up") = (reads[m] # <<>>)
        /\ reads[m] # <<>> => reads[m] = <<[activation |-> row[m].activation, run |-> row[m].owner]>>

(* No receipt stays queued: it is read, or it ends in an error, whatever    *)
(* happens to the request, the run and the child.                           *)
ReceiptSettles == \A m \in Messages : row[m].status = "queued" ~> row[m].status # "queued"
=============================================================================
