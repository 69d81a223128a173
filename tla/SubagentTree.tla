---------------------------- MODULE SubagentTree ----------------------------
(***************************************************************************)
(* SubagentManager of harness/agents/subagents.py: one tree of child tasks *)
(* under a root run, with its budget, its slots, the admission of new and  *)
(* of continued children, the routing of results and the shutdown of       *)
(* subtrees; and the parts of Harness._run (runtime/core.py) and of        *)
(* RunInputs.next (runtime/followups.py) that drive a manager.             *)
(*                                                                         *)
(* An agent is the root or a task; each has a manager.  A call is one      *)
(* to_agent or continue_task in progress, of a model or of the host.       *)
(* Everything runs on one event loop: an action is the code between two    *)
(* suspension points.                                                      *)
(***************************************************************************)
EXTENDS Naturals, FiniteSets, Sequences

CONSTANTS Root, NoTask,
          Tasks,          \* identities a root lifetime can retain
          Calls,          \* concurrent calls of to_agent and continue_task
          MaxDepth,       \* max_subagent_depth
          MaxSlots,       \* max_concurrent_subagents
          MaxExecutions   \* max_subagent_executions

ASSUME TreeAssumption ==
    /\ Root \notin Tasks /\ NoTask \notin Tasks \cup {Root}
    /\ IsFiniteSet(Tasks) /\ IsFiniteSet(Calls)
    /\ MaxDepth \in Nat /\ MaxSlots \in Nat \ {0} /\ MaxExecutions \in Nat \ {0}

Agents == Tasks \cup {Root}

VARIABLES phase,     \* progress of the root run
          todo,      \* parents that the root's notification() still has to look at
          active,    \* _active of each agent's manager
          stopped,   \* _stopped event of each manager's current generation
          changed,   \* _changed event of each manager
          ready,     \* _ready: children whose results wait for this agent
          pending,   \* _pending of the root: results for inactive parents
          lineage,   \* parent_session_id of each task and of its ancestors, up to the
                     \* root; empty when the task is not registered
          status,    \* TaskInfo.status
          work,      \* state of the worker task
          cancel,    \* the worker was cancelled and has not noticed yet
          joining,   \* workers that an agent's end() cancelled and joins
          used,      \* _used: executions charged to the budget
          started,   \* executions accepted since the last reset, not refunded
          calls      \* calls in progress

rootvars == <<phase, todo>>
inbox == <<changed, ready, pending>>
tasksv == <<lineage, status, work, cancel>>
budget == <<used, started>>
vars == <<rootvars, active, stopped, inbox, tasksv, joining, budget, calls>>

NoCall == [op |-> "none", by |-> Root, task |-> NoTask, pc |-> "none", stops |-> {}]

Init ==
    /\ phase = "idle" /\ todo = {}
    /\ active = [a \in Agents |-> FALSE] /\ stopped = [a \in Agents |-> TRUE]
    /\ changed = [a \in Agents |-> FALSE] /\ ready = [a \in Agents |-> {}]
    /\ pending = [t \in Tasks |-> {}]
    /\ lineage = [t \in Tasks |-> <<>>] /\ status = [t \in Tasks |-> "none"]
    /\ work = [t \in Tasks |-> "none"] /\ cancel = [t \in Tasks |-> FALSE]
    /\ joining = [a \in Agents |-> {}]
    /\ used = 0 /\ started = 0
    /\ calls = [k \in Calls |-> NoCall]

-----------------------------------------------------------------------------
(* The registry and its quotas *)

Registered == {t \in Tasks : lineage[t] # <<>>}
Parent(t) == lineage[t][1]
Ended == {"none", "done", "broken", "killed"}
Live == {t \in Tasks : work[t] \notin Ended}

Lineage(a) == IF a = Root THEN <<>> ELSE lineage[a]
Above(a) == {Lineage(a)[i] : i \in 1..Len(Lineage(a))}

\* _belongs: the tasks below an agent.
Below(a) == {t \in Registered : a \in Above(t)}
Depth(a) == Len(Lineage(a))

Reserving == {k \in Calls : calls[k].op = "start" /\ calls[k].pc = "reserve"}
Activating == {k \in Calls : calls[k].op = "continue"}
Admissions == {k \in Calls : calls[k].op = "start"}
Starting == Cardinality(Reserving \cup Activating)

\* Tasks that occupy a slot.
Occupied == {t \in Registered : status[t] = "running"} \cup Live

\* Mutant: reservations do not count as occupied slots.
SlotAfterAwait(reserved) == Cardinality(Occupied) < MaxSlots

\* Room for one more concurrent task; a caller does not count its reservation.
Slot(reserved) == Starting - reserved + Cardinality(Occupied) < MaxSlots

\* _check_budget for agent a.
MayExecute(a, reserved) ==
    /\ active[a] /\ active[Root]
    /\ used - reserved < MaxExecutions
    /\ Slot(reserved)

\* _running of agent a's manager.
Busy(a) ==
    \/ \E k \in Admissions : calls[k].by = a \/ calls[k].by \in Below(a)
    \/ \E k \in Activating : calls[k].task \in Below(a)
    \/ Live \cap Below(a) # {}

\* _admission_changed: every notification waiter looks again.
AllChanged == [a \in Agents |-> TRUE]

-----------------------------------------------------------------------------
(* to_agent for a new child *)

\* The stop events that bind an admission: the caller's, the root's and those
\* of the ancestors that run.
StopsOf(a) == {a, Root} \cup {t \in Above(a) \cap Tasks : status[t] = "running"}

Revoked(k) == \E a \in calls[k].stops : stopped[a]

\* Quotas are checked and reserved before the first await.
Start(k, a) ==
    /\ calls[k] = NoCall
    /\ MayExecute(a, 0) /\ Depth(a) < MaxDepth
    /\ Cardinality(Registered) + Cardinality(Reserving) < Cardinality(Tasks)
    /\ ~ \E s \in StopsOf(a) : stopped[s]
    /\ calls' = [calls EXCEPT ![k] = [op |-> "start", by |-> a, task |-> NoTask,
                                      pc |-> "reserve", stops |-> StopsOf(a)]]
    /\ changed' = AllChanged
    /\ used' = used + 1
    /\ UNCHANGED <<rootvars, active, stopped, ready, pending, tasksv, joining, started>>

\* Mutant: after the storage await only the quotas are checked again.
QuotasOnly(k) == used - 1 < MaxExecutions /\ Slot(1)

\* The checks of a start, repeated after the storage await.
StillAdmitted(k) == MayExecute(calls[k].by, 1) /\ ~Revoked(k)

\* The identity is stored, the checks still pass: the child is registered and
\* its worker is created, behind the gate admission.ready.
Register(k) ==
    /\ calls[k].pc = "reserve" /\ StillAdmitted(k)
    /\ \E t \in Tasks \ Registered :
        /\ calls' = [calls EXCEPT ![k].pc = "emit", ![k].task = t]
        /\ lineage' = [lineage EXCEPT ![t] = <<calls[k].by>> \o Lineage(calls[k].by)]
        /\ status' = [status EXCEPT ![t] = "running"]
        /\ work' = [work EXCEPT ![t] = "gated"]
    /\ UNCHANGED <<rootvars, active, stopped, inbox, cancel, joining, budget>>

\* Storage fails, a check fails, or the caller is cancelled.
RegisterFails(k) ==
    /\ calls[k].pc = "reserve"
    /\ calls' = [calls EXCEPT ![k] = NoCall]
    /\ used' = used - 1
    /\ changed' = AllChanged
    /\ UNCHANGED <<rootvars, active, stopped, ready, pending, tasksv, joining, started>>

\* TaskStarted was emitted: the gate opens, for a worker that was cancelled behind
\* it too late, and the call returns.
Open(k) ==
    /\ calls[k].pc = "emit" /\ ~Revoked(k) /\ active[calls[k].by] /\ active[Root]
    /\ work' = [work EXCEPT ![calls[k].task] = IF @ = "gated" THEN "new" ELSE @]
    /\ started' = started + 1
    /\ calls' = [calls EXCEPT ![k] = NoCall]
    /\ changed' = AllChanged
    /\ UNCHANGED <<rootvars, active, stopped, ready, pending, lineage, status, cancel, joining, used>>

\* The start is revoked, fails or is cancelled: its worker is cancelled and joined.
OpenFails(k) ==
    /\ calls[k].pc = "emit"
    /\ calls' = [calls EXCEPT ![k].pc = "unstart"]
    /\ status' = [status EXCEPT ![calls[k].task] = "cancelled"]
    /\ cancel' = [cancel EXCEPT ![calls[k].task] = calls[k].task \in Live]
    /\ UNCHANGED <<rootvars, active, stopped, inbox, lineage, work, joining, budget>>

\* The worker has ended: what the start was charged is refunded.
Refund(k) ==
    /\ calls[k].pc = "unstart" /\ calls[k].task \notin Live
    /\ calls' = [calls EXCEPT ![k] = NoCall]
    /\ used' = used - 1
    /\ changed' = AllChanged
    /\ UNCHANGED <<rootvars, active, stopped, ready, pending, tasksv, joining, started>>

-----------------------------------------------------------------------------
(* continue_task for a retained child *)

\* Mutant: the subtree of the task may be busy.
ContinuableOverSubtree(t) ==
    /\ t \in Registered /\ t \notin Live /\ status[t] \in {"completed", "failed"}
    /\ work[t] = "done" /\ Depth(t) <= MaxDepth

\* What _accept_continuation demands of the task and of its ancestors.
Continuable(t) ==
    /\ t \in Registered /\ t \notin Live /\ status[t] \in {"completed", "failed"}
    /\ work[t] = "done" /\ ~Busy(t) /\ Depth(t) <= MaxDepth
    /\ \A s \in Above(t) \cap Tasks :
        /\ status[s] # "cancelled" /\ work[s] \notin {"killed", "broken"}
        /\ (status[s] = "running" \/ s \in Live) => active[s]

\* Checked and reserved before the first await; for is "host" (also for a model's
\* tool call) or "root", when the root's notification() reactivates a parent.
Reserve(k, a, t, for) ==
    /\ calls[k] = NoCall
    /\ a = Root \/ t \in Below(a)
    /\ \A j \in Activating : calls[j].task # t
    /\ MayExecute(a, 0) /\ Continuable(t)
    /\ calls' = [calls EXCEPT ![k] = [op |-> "continue", by |-> a, task |-> t,
                                      pc |-> for, stops |-> {}]]
    /\ used' = used + 1

Continue(k, a, t) ==
    /\ Reserve(k, a, t, "host")
    /\ UNCHANGED <<rootvars, active, stopped, inbox, tasksv, joining, started>>

\* Without another parent to look at, the root's notification() goes on to its
\* decision at once: it takes its results, or waits for the accepted task.
AcceptedForRoot(k) == calls[k].pc = "root" /\ todo = {}

Activated(k) ==
    /\ status' = [status EXCEPT ![calls[k].task] = "running"]
    /\ work' = [work EXCEPT ![calls[k].task] = "new"]
    /\ started' = started + 1
    /\ calls' = [calls EXCEPT ![k] = NoCall]
    /\ IF AcceptedForRoot(k)
       THEN /\ phase' = IF ready[Root] # {} THEN "model" ELSE "wait"
            /\ ready' = [ready EXCEPT ![Root] = {}]
            /\ changed' = [AllChanged EXCEPT ![Root] = ready[Root] # {}]
       ELSE /\ phase' = IF calls[k].pc = "root" THEN "scan" ELSE phase
            /\ changed' = AllChanged
            /\ UNCHANGED ready
    /\ UNCHANGED <<todo, active, stopped, pending, lineage, cancel, joining, used>>

\* The conversation exists, the checks still pass: the next activation starts.
Accept(k) ==
    /\ calls[k].op = "continue"
    /\ MayExecute(calls[k].by, 1) /\ Continuable(calls[k].task)
    /\ Activated(k)

\* Deleted conversation, failed check, storage error or cancellation.
Reject(k) ==
    /\ calls[k].op = "continue"
    /\ calls' = [calls EXCEPT ![k] = NoCall]
    /\ used' = used - 1
    /\ changed' = AllChanged
    /\ phase' = IF calls[k].pc = "root" THEN "scan" ELSE phase
    /\ UNCHANGED <<todo, active, stopped, ready, pending, tasksv, joining, started>>

-----------------------------------------------------------------------------
(* Shutdown of a subtree, and the routing of a result *)

\* end(): the agent's own stop event, and those of the admissions below it.
StoppedBy(a) ==
    [x \in Agents |-> stopped[x] \/ x = a
        \/ \E k \in Admissions : calls[k].by = x /\ (a = Root \/ x \in Below(a))]

\* end() up to its first await.
EndGroup(a) ==
    /\ active' = [active EXCEPT ![a] = FALSE]
    /\ stopped' = StoppedBy(a)

\* Mutant: a worker whose start is being announced is left to its starter.
CancelBegun(a) ==
    /\ joining' = [joining EXCEPT ![a] = Live \cap Below(a)]
    /\ cancel' = [t \in Tasks |-> cancel[t] \/ (t \in Live \cap Below(a) /\ work[t] # "gated")]

\* stop(): cancel the workers below and start to join them.
CancelBelow(a) ==
    /\ joining' = [joining EXCEPT ![a] = Live \cap Below(a)]
    /\ cancel' = [t \in Tasks |-> cancel[t] \/ t \in Live \cap Below(a)]

Joined(a) == joining[a] \cap Live = {}

\* The end of stop(): what never ran to its end is cancelled.
CancelledBelow(a) ==
    [t \in Tasks |-> IF t \in Below(a) /\ status[t] = "running" THEN "cancelled" ELSE status[t]]

Gone(p) == status[p] = "cancelled" \/ work[p] \in {"killed", "stopping", "ending"}

\* _publish: to the immediate parent only, when it runs; kept for the root's
\* notification() when it is idle; withheld with a warning when it is gone.
Publish(t) ==
    LET p == Parent(t) IN
    IF ~active[Root] THEN UNCHANGED inbox
    ELSE IF p = Root THEN
        /\ ready' = [ready EXCEPT ![Root] = @ \cup {t}]
        /\ changed' = [changed EXCEPT ![Root] = TRUE]
        /\ UNCHANGED pending
    ELSE IF Gone(p) THEN
        /\ changed' = [changed EXCEPT ![Root] = TRUE]
        /\ UNCHANGED <<ready, pending>>
    ELSE IF active[p] THEN
        /\ ready' = [ready EXCEPT ![p] = @ \cup {t}]
        /\ changed' = [changed EXCEPT ![Root] = TRUE, ![p] = TRUE]
        /\ UNCHANGED pending
    ELSE
        /\ pending' = [pending EXCEPT ![p] = @ \cup {t}]
        /\ changed' = [changed EXCEPT ![Root] = TRUE]
        /\ UNCHANGED ready

-----------------------------------------------------------------------------
(* A child's worker: _run_child around the child's own Harness._run *)

RunChild(t) ==
    /\ work[t] = "new" /\ ~cancel[t]
    /\ work' = [work EXCEPT ![t] = "setup"]
    /\ UNCHANGED <<rootvars, active, stopped, inbox, lineage, status, cancel, joining, budget, calls>>

\* The child cannot be created or initialized: it can never continue.
CreateFails(t) ==
    /\ work[t] = "setup" /\ ~cancel[t]
    /\ work' = [work EXCEPT ![t] = "broken"]
    /\ status' = [status EXCEPT ![t] = "failed"]
    /\ Publish(t)
    /\ UNCHANGED <<rootvars, active, stopped, lineage, cancel, joining, budget, calls>>

\* begin() of the child's manager, in its producer.
BeginGroup(t) ==
    /\ work[t] = "setup" /\ ~cancel[t] /\ active[Root] /\ ~Busy(t)
    /\ work' = [work EXCEPT ![t] = "model"]
    /\ active' = [active EXCEPT ![t] = TRUE]
    /\ stopped' = [stopped EXCEPT ![t] = FALSE]
    /\ ready' = [ready EXCEPT ![t] = {}]
    /\ changed' = [changed EXCEPT ![t] = FALSE, ![Root] = TRUE]
    /\ UNCHANGED <<rootvars, pending, lineage, status, cancel, joining, budget, calls>>

\* The model's run ends; results of children become the next prompt, and with
\* none the child waits as long as something runs below it.
NextInput(t) ==
    /\ work[t] = "model" /\ ~cancel[t]
    /\ \/ /\ ready[t] # {}
          /\ ready' = [ready EXCEPT ![t] = {}]
          /\ UNCHANGED <<work, active, stopped, changed>>
       \/ /\ ready[t] = {} /\ Busy(t)
          /\ work' = [work EXCEPT ![t] = "wait"]
          /\ changed' = [changed EXCEPT ![t] = FALSE]
          /\ UNCHANGED <<active, stopped, ready>>
       \/ /\ ready[t] = {} /\ ~Busy(t)
          /\ work' = [work EXCEPT ![t] = "stopping"]
          /\ EndGroup(t)
          /\ UNCHANGED <<changed, ready>>
    /\ UNCHANGED <<rootvars, pending, lineage, status, cancel, joining, budget, calls>>

\* The wait in notification() ends; the loop looks again.
Wake(t) ==
    /\ work[t] = "wait" /\ changed[t] /\ ~cancel[t]
    /\ work' = [work EXCEPT ![t] = "model"]
    /\ UNCHANGED <<rootvars, active, stopped, inbox, lineage, status, cancel, joining, budget, calls>>

\* The child's run fails, or its begin() is refused.
RunFails(t) ==
    /\ work[t] \in {"setup", "model"} /\ ~cancel[t]
    /\ work' = [work EXCEPT ![t] = "stopping"]
    /\ EndGroup(t)
    /\ UNCHANGED <<rootvars, inbox, lineage, status, cancel, joining, budget, calls>>

\* A worker that has not begun dies without a word; another one shuts down.
Cancelled(t) ==
    /\ cancel[t] /\ work[t] \in {"gated", "new", "setup", "model", "wait"}
    /\ cancel' = [cancel EXCEPT ![t] = FALSE]
    /\ IF work[t] \in {"gated", "new"}
       THEN work' = [work EXCEPT ![t] = "killed"] /\ UNCHANGED <<status, active, stopped>>
       ELSE /\ work' = [work EXCEPT ![t] = "stopping"]
            /\ status' = [status EXCEPT ![t] = "cancelled"]
            /\ EndGroup(t)
    /\ UNCHANGED <<rootvars, inbox, lineage, joining, budget, calls>>

StopWorkers(t) ==
    /\ work[t] = "stopping"
    /\ work' = [work EXCEPT ![t] = "ending"]
    /\ CancelBelow(t)
    /\ UNCHANGED <<rootvars, active, stopped, inbox, lineage, status, budget, calls>>

\* Everything below has ended: the final status, its publication, and the end.
Finish(t) ==
    /\ work[t] = "ending" /\ Joined(t)
    /\ IF status[t] = "cancelled" \/ cancel[t]
       THEN /\ work' = [work EXCEPT ![t] = "killed"]
            /\ status' = [CancelledBelow(t) EXCEPT ![t] = "cancelled"]
       ELSE /\ work' = [work EXCEPT ![t] = "done"]
            /\ \E s \in {"completed", "failed"} : status' = [CancelledBelow(t) EXCEPT ![t] = s]
    /\ cancel' = [cancel EXCEPT ![t] = FALSE]
    /\ joining' = [joining EXCEPT ![t] = {}]
    /\ Publish(t)
    /\ UNCHANGED <<rootvars, active, stopped, lineage, budget, calls>>

-----------------------------------------------------------------------------
(* The root run *)

\* begin(): only the run of a new human prompt resets the budget.
Begin(reset) ==
    /\ phase = "idle" /\ Admissions = {} /\ Activating = {} /\ Live = {}
    /\ phase' = "model" /\ todo' = {}
    /\ active' = [active EXCEPT ![Root] = TRUE]
    /\ stopped' = [stopped EXCEPT ![Root] = FALSE]
    /\ ready' = [ready EXCEPT ![Root] = {}]
    /\ pending' = [t \in Tasks |-> {}]
    /\ changed' = [changed EXCEPT ![Root] = FALSE]
    /\ IF reset THEN used' = 0 /\ started' = 0 ELSE UNCHANGED budget
    /\ UNCHANGED <<tasksv, joining, calls>>

WaitingParents == {p \in Tasks : pending[p] # {}}

Idle(p) == ~active[p] /\ p \notin Live /\ ~Busy(p)

\* Results for the active parents among Q are moved to their own inboxes.
Forwarded(Q) == [p \in Tasks |-> IF p \in Q /\ active[p] THEN {} ELSE pending[p]]
Delivered(Q) == [a \in Agents |-> IF a \in Q /\ active[a] THEN ready[a] \cup pending[a] ELSE ready[a]]
Notified(Q) == [a \in Agents |-> changed[a] \/ (a \in Q /\ active[a])]

\* An idle parent is reactivated with its results; a refusal is reported as an
\* error event, which the loop waits to emit.
Reactivate(p, Q) ==
    /\ Idle(p)
    /\ pending' = [Forwarded(Q) EXCEPT ![p] = {}]
    /\ ready' = Delivered(Q) /\ changed' = Notified(Q)
    /\ \/ phase' = "activate" /\ \E k \in Calls : Reserve(k, Root, p, "root")
       \/ /\ ~(MayExecute(Root, 0) /\ Continuable(p)
              /\ \A k \in Activating : calls[k].task # p)
          /\ phase' = "scan"
          /\ UNCHANGED <<calls, used>>
    /\ UNCHANGED <<active, stopped>>

\* No parent is left to look at: take the results, wait, or return.
\* Whether the run was started for a task, and then waits for all of them before
\* its first results (wait_for_tasks), is left open: it may wait with some at hand.
Decide(Q) ==
    /\ pending' = Forwarded(Q)
    /\ \/ /\ ready[Root] # {}
          /\ phase' = "model"
          /\ ready' = [Delivered(Q) EXCEPT ![Root] = {}] /\ changed' = Notified(Q)
          /\ UNCHANGED <<active, stopped>>
       \/ /\ Busy(Root)
          /\ phase' = "wait"
          /\ ready' = Delivered(Q) /\ changed' = [Notified(Q) EXCEPT ![Root] = FALSE]
          /\ UNCHANGED <<active, stopped>>
       \/ /\ ready[Root] = {} /\ ~Busy(Root)
          /\ phase' = "stopping"
          /\ ready' = Delivered(Q) /\ changed' = Notified(Q)
          /\ EndGroup(Root)
    /\ UNCHANGED <<calls, used>>

\* The root's notification(), from a look at the parents in P to the next await:
\* running parents get their results, busy ones are left for later.
Pass(P) ==
    /\ \E Q \in SUBSET P :
        /\ \A p \in Q : ~Idle(p)
        /\ \/ \E p \in P \ Q : Reactivate(p, Q) /\ todo' = P \ (Q \cup {p})
           \/ Q = P /\ Decide(Q) /\ todo' = {}
    /\ UNCHANGED <<tasksv, joining, started>>

\* The model's run ends, or the wait does, and notification() starts over.
Notification ==
    /\ phase = "model" \/ (phase = "wait" /\ changed[Root])
    /\ Pass(WaitingParents)

\* It goes on after an await.
NotificationGoesOn == phase = "scan" /\ Pass(todo)

\* The run fails, is cancelled, or its consumer leaves.
StopRoot ==
    /\ phase \in {"model", "scan", "wait"}
    /\ phase' = "stopping" /\ todo' = {}
    /\ EndGroup(Root)
    /\ UNCHANGED <<inbox, tasksv, joining, budget, calls>>

StopRootWorkers ==
    /\ phase = "stopping"
    /\ phase' = "ending"
    /\ CancelBelow(Root)
    /\ UNCHANGED <<todo, active, stopped, inbox, lineage, status, work, budget, calls>>

\* The run is over: undelivered results are discarded.
EndRoot ==
    /\ phase = "ending" /\ Joined(Root)
    /\ phase' = "idle"
    /\ status' = CancelledBelow(Root)
    /\ joining' = [joining EXCEPT ![Root] = {}]
    /\ ready' = [ready EXCEPT ![Root] = {}]
    /\ pending' = [t \in Tasks |-> {}]
    /\ changed' = [changed EXCEPT ![Root] = TRUE]
    /\ UNCHANGED <<todo, active, stopped, lineage, work, cancel, budget, calls>>

-----------------------------------------------------------------------------

Next ==
    \/ \E k \in Calls :
        \/ \E a \in Agents : Start(k, a) \/ (\E t \in Tasks : Continue(k, a, t))
        \/ Register(k) \/ RegisterFails(k) \/ Open(k) \/ OpenFails(k) \/ Refund(k)
        \/ Accept(k) \/ Reject(k)
    \/ \E t \in Tasks :
        \/ RunChild(t) \/ CreateFails(t) \/ BeginGroup(t) \/ NextInput(t) \/ Wake(t)
        \/ RunFails(t) \/ Cancelled(t) \/ StopWorkers(t) \/ Finish(t)
    \/ (\E reset \in BOOLEAN : Begin(reset))
    \/ Notification \/ NotificationGoesOn \/ StopRoot \/ StopRootWorkers \/ EndRoot

Spec == Init /\ [][Next]_vars

\* A cancelled task is run to notice it, and a shutdown runs to its end: their steps
\* wait for nothing but the workers they join.
Fairness ==
    /\ WF_vars(StopRootWorkers) /\ WF_vars(EndRoot)
    /\ \A t \in Tasks : WF_vars(Cancelled(t)) /\ WF_vars(StopWorkers(t)) /\ WF_vars(Finish(t))

FairSpec == Spec /\ Fairness

-----------------------------------------------------------------------------
(* Properties *)

\* Every variable has its type.
TypeOK ==
    /\ phase \in {"idle", "model", "scan", "activate", "wait", "stopping", "ending"}
    /\ todo \subseteq Tasks
    /\ active \in [Agents -> BOOLEAN] /\ stopped \in [Agents -> BOOLEAN]
    /\ changed \in [Agents -> BOOLEAN] /\ ready \in [Agents -> SUBSET Tasks]
    /\ pending \in [Tasks -> SUBSET Tasks]
    /\ lineage \in [Tasks -> Seq(Agents)]
    /\ status \in [Tasks -> {"none", "running", "completed", "failed", "cancelled"}]
    /\ work \in [Tasks -> Ended \cup {"gated", "new", "setup", "model", "wait", "stopping",
                                     "ending"}]
    /\ cancel \in [Tasks -> BOOLEAN] /\ joining \in [Agents -> SUBSET Tasks]
    /\ used \in Nat /\ started \in Nat
    /\ calls \in [Calls -> [op : {"none", "start", "continue"}, by : Agents,
                            task : Tasks \cup {NoTask},
                            pc : {"none", "reserve", "emit", "unstart", "host", "root"},
                            stops : SUBSET Agents]]

\* The budget counts exactly the executions accepted since the last reset and
\* the reservations under way: no refund is lost, doubled, or lands after a reset.
BudgetExact ==
    /\ used = started + Cardinality({k \in Calls : calls[k] # NoCall})
    /\ used <= MaxExecutions

\* Metadata I/O never oversubscribes the slots (the comment in to_agent).
SlotsBounded == Starting + Cardinality(Occupied) <= MaxSlots

\* Calls that compete across their storage awaits share no slot and no unit of
\* the budget (to_agent, continue_task, _check_budget).
QuotasHold == BudgetExact /\ SlotsBounded

\* A run that ended leaves nothing running and nothing that claims to run.
NoOrphans ==
    phase = "idle" => Live = {} /\ \A t \in Tasks : status[t] # "running"

\* The same for a subtree: below an agent that was cancelled nothing runs.
CancelledSubtree ==
    \A t \in Tasks : work[t] = "killed" => Live \cap Below(t) = {}

\* No activation starts over a live subtree, whose results its new manager
\* would not know and whose begin() would refuse the run.
NoStartOverLiveSubtree ==
    \A t \in Tasks : work[t] \in {"new", "setup"} => Live \cap Below(t) = {}

\* No agent ends or starts over live work of its subtree.
SubtreesAreClear == CancelledSubtree /\ NoStartOverLiveSubtree

\* The root's wait always has somebody who will end it.
RootIsWoken == (phase = "wait" /\ ~changed[Root]) => Busy(Root)

\* The root's run and its tree agree: nothing runs after its end, and it waits
\* only while somebody runs who will wake it.
RootAgreesWithTree == NoOrphans /\ RootIsWoken

\* A run that returns by itself leaves no result behind whose parent is idle: the
\* parent is reactivated, or its refusal is reported ("Cancellation discards
\* undelivered notifications", the docstring of _run; returning does not).
NothingLeftBehind ==
    (phase = "scan" /\ todo = {} /\ ready[Root] = {} /\ ~Busy(Root)) => WaitingParents = {}

\* A root run that is stopped is over at last, however deep its tree and whatever
\* starts were under way (end() cancels and awaits the entire subtree).
StopEnds == phase = "stopping" ~> phase = "idle"

\* An agent that waits for delegated work, and is not being stopped itself, is
\* woken when that work is over ("Rejection must wake them too", the comment of
\* _admission_changed).
WaitersAreWoken ==
    \A t \in Tasks :
        (work[t] = "wait" /\ ~changed[t] /\ ~cancel[t] /\ \A a \in Above(t) : active[a]) =>
        Busy(t) \/ \E p \in Below(t) : pending[p] # {}
=============================================================================
