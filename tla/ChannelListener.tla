-------------------------- MODULE ChannelListener ---------------------------
(***************************************************************************)
(* ChannelRuntime of channels/runtime.py: one listener per database and    *)
(* session, its sources (one connector task per routed channel), their     *)
(* receive callbacks, and the worker that hands inbox rows to the agent.   *)
(*                                                                         *)
(* The condition's lock is held across the store transactions of receivers *)
(* and of the worker's claim, but not across the worker's finish.  Each    *)
(* action is a stretch between two suspension points, or one commit.       *)
(* A crash may come at any time; the rows survive it.                      *)
(***************************************************************************)
EXTENDS ChannelInbox

CONSTANTS Channels,    \* channels of the installation
          ChannelOf,   \* Messages -> Channels: where a key arrives
          Receivers,   \* receive callbacks that connectors run concurrently
          NoMessage,   \* an idle callback has no message
          Free,        \* nobody holds the condition's lock
          Worker,      \* the worker task, as a lock holder
          MaxListens   \* bound on the number of calls of listen()

ASSUME ListenerAssumption ==
    /\ ChannelOf \in [Messages -> Channels]
    /\ Free # Worker /\ Free \notin Receivers /\ Worker \notin Receivers

VARIABLES rows,      \* nagents_channel_inbox
          phase,     \* progress of listen() and of its cleanup
          routes,    \* channels bound by the current listener
          accepting, \* _accepting
          live,      \* sources whose listen has not ended (_sources_remaining)
          lock,      \* holder of the condition's lock
          rpc,       \* control state of each receive callback
          rmsg,      \* the message it delivers
          wpc,       \* control state of the worker
          item,      \* id of the row the worker holds
          target,    \* status its finish writes; not "completed" when it is raising
          wcancel,   \* the worker's CancelledError is still to be raised
          clean,     \* the last listener stopped with its cleanup complete
          listens,   \* calls of listen() so far
          acked,     \* messages whose receive callback returned normally
          notices,   \* terminal notices emitted: <<row id, phase>>
          runs       \* how often each message was handed to Agent.run

lvars == <<phase, routes, accepting, live, clean, listens>>
rvars == <<rpc, rmsg, acked>>
wvars == <<wpc, item, target, wcancel, notices, runs>>
vars == <<rows, lock, lvars, rvars, wvars>>

Init ==
    /\ rows = <<>> /\ lock = Free
    /\ phase = "down" /\ routes = {} /\ accepting = FALSE /\ live = {}
    /\ clean = TRUE /\ listens = 0
    /\ rpc = [r \in Receivers |-> "idle"]
    /\ rmsg = [r \in Receivers |-> NoMessage] /\ acked = {}
    /\ wpc = "off" /\ item = 0 /\ target = "completed"
    /\ wcancel = FALSE /\ notices = {} /\ runs = [m \in Messages |-> 0]

-----------------------------------------------------------------------------
(* Condition variable: who waits is told by the control states. *)

\* notify_all: every waiter competes for the lock again.
NotifiedReceivers == [r \in Receivers |-> IF rpc[r] = "wait" THEN "enter" ELSE rpc[r]]
NotifiedWorker == IF wpc = "wait" THEN "enter" ELSE wpc

\* A callback ends and its locals with it.
Ended(r) == rmsg' = [rmsg EXCEPT ![r] = NoMessage]

-----------------------------------------------------------------------------
(* Receive callbacks *)

\* A connector delivers a message, possibly one it delivered before.
Deliver(r) ==
    /\ rpc[r] = "idle" /\ phase \in {"listening", "stopping", "draining"}
    /\ \E m \in Messages : /\ ChannelOf[m] \in routes
                           /\ rmsg' = [rmsg EXCEPT ![r] = m]
    /\ rpc' = [rpc EXCEPT ![r] = "enter"]
    /\ UNCHANGED <<rows, lock, lvars, acked, wvars>>

\* async with self._condition, then the test of the while loop.
Enter(r) ==
    /\ rpc[r] = "enter" /\ lock = Free
    /\ IF accepting
       THEN lock' = r /\ rpc' = [rpc EXCEPT ![r] = "admit"] /\ UNCHANGED rmsg
       ELSE rpc' = [rpc EXCEPT ![r] = "idle"] /\ Ended(r) /\ UNCHANGED lock   \* ChannelError
    /\ UNCHANGED <<rows, lvars, acked, wvars>>

\* The transaction of store.admit commits; its answer is still to be read.
Admit(r) ==
    /\ rpc[r] = "admit"
    /\ rows' = Admitted(rows, rmsg[r])
    /\ rpc' = [rpc EXCEPT ![r] = IF Admission(rows, rmsg[r]) = "full" THEN "full" ELSE "in"]
    /\ UNCHANGED <<lock, lvars, rmsg, acked, wvars>>

\* Mutant: a message that does not fit is dropped, its callback returns.
DropWhenFull(r) ==
    /\ rpc[r] = "full"
    /\ rpc' = [rpc EXCEPT ![r] = "in"]
    /\ UNCHANGED <<rows, lock, lvars, rmsg, acked, wvars>>

\* Condition.wait, entered with the lock held; nobody is notified.
AwaitCapacity(r) ==
    /\ rpc[r] = "full"
    /\ lock' = Free
    /\ rpc' = [rpc EXCEPT ![r] = "wait"]
    /\ UNCHANGED <<rows, lvars, rmsg, acked, wvars>>

\* Mutant: nobody is notified of the new row.
ReturnQuietly(r) ==
    /\ rpc[r] = "in"
    /\ lock' = Free
    /\ rpc' = [rpc EXCEPT ![r] = "idle"]
    /\ acked' = acked \cup {rmsg[r]}
    /\ Ended(r)
    /\ UNCHANGED <<rows, lvars, wvars>>

\* Admitted or known: wake the worker and return normally to the connector.
Return(r) ==
    /\ rpc[r] = "in"
    /\ lock' = Free
    /\ rpc' = [NotifiedReceivers EXCEPT ![r] = "idle"]
    /\ wpc' = NotifiedWorker
    /\ acked' = acked \cup {rmsg[r]}
    /\ Ended(r)
    /\ UNCHANGED <<rows, lvars, item, target, wcancel, notices, runs>>

\* The connector cancels the callback.  Inside store.admit the transaction
\* either never started or has committed; the waiters are notified anyway.
CancelReceive(r) ==
    /\ \/ /\ rpc[r] \in {"enter", "wait"}
          /\ rpc' = [rpc EXCEPT ![r] = "idle"]
          /\ UNCHANGED <<lock, wpc>>
       \/ /\ rpc[r] \in {"admit", "full", "in"}
          /\ lock' = Free
          /\ rpc' = [NotifiedReceivers EXCEPT ![r] = "idle"]
          /\ wpc' = NotifiedWorker
    /\ Ended(r)
    /\ UNCHANGED <<rows, lvars, acked, item, target, wcancel, notices, runs>>

\* sqlite3.Error out of store.admit reaches the connector; nobody is notified.
AdmitFails(r) ==
    /\ rpc[r] = "admit"
    /\ lock' = Free
    /\ rpc' = [rpc EXCEPT ![r] = "idle"]
    /\ Ended(r)
    /\ UNCHANGED <<rows, lvars, acked, wvars>>

-----------------------------------------------------------------------------
(* Worker *)

WorkerEnter ==
    /\ wpc = "enter" /\ lock = Free /\ ~wcancel
    /\ lock' = Worker
    /\ wpc' = "claim"
    /\ UNCHANGED <<rows, lvars, rvars, item, target, wcancel, notices, runs>>

\* The transaction of store.claim commits, with or without a row.
Claim ==
    /\ wpc = "claim"
    /\ \/ \E i \in Ids(rows) :
            /\ FirstQueued(rows, i)
            /\ rows' = Claimed(rows, i)
            /\ item' = i
            /\ wpc' = "claimed"
       \/ /\ WithStatus(rows, {"queued"}) = {}
          /\ wpc' = "none"
          /\ UNCHANGED <<rows, item>>
    /\ UNCHANGED <<lock, lvars, rvars, target, wcancel, notices, runs>>

\* sqlite3.Error out of claim: nothing was claimed, and the worker ends.
ClaimFails ==
    /\ wpc = "claim" /\ ~wcancel
    /\ lock' = Free
    /\ wpc' = "died"
    /\ UNCHANGED <<rows, lvars, rvars, item, target, wcancel, notices, runs>>

\* Nothing to claim: return when every source has ended, else wait.
NoWork ==
    /\ wpc = "none" /\ ~wcancel
    /\ lock' = Free
    /\ wpc' = IF live = {} THEN "over" ELSE "wait"
    /\ UNCHANGED <<rows, lvars, rvars, item, target, wcancel, notices, runs>>

\* The row is handed to Agent.run; the condition is released.
BeginRun ==
    /\ wpc = "claimed" /\ ~wcancel
    /\ lock' = Free
    /\ wpc' = "run"
    /\ runs' = [runs EXCEPT ![rows[item].msg] = @ + 1]
    /\ UNCHANGED <<rows, lvars, rvars, item, target, wcancel, notices>>

\* The generator ends, or an ErrorEvent or exception ends it.
EndRun ==
    /\ wpc = "run"
    /\ \E s \in {"completed", "failed"} : target' = s
    /\ wpc' = "finish"
    /\ UNCHANGED <<rows, lock, lvars, rvars, item, wcancel, notices, runs>>

\* The terminal notice: outcome "cancelled" once the run is interrupted.
Outcome == IF target = "interrupted" THEN "cancelled" ELSE target

\* store.finish, for the status that the try, or an except clause, asks for.
Finish ==
    /\ wpc = "finish" /\ ~wcancel
    /\ rows' = Finished(rows, item, target)
    /\ wpc' = "notice"
    /\ UNCHANGED <<lock, lvars, rvars, item, target, wcancel, notices, runs>>

\* Mutant: an error of finish is swallowed.
FinishErrorLost ==
    /\ wpc = "finish" /\ ~wcancel
    /\ wpc' = "notice"
    /\ UNCHANGED <<rows, lock, lvars, rvars, item, target, wcancel, notices, runs>>

\* sqlite3.Error out of finish: "completed" falls into the except clause that
\* writes "failed"; a second error leaves the row running.
FinishFails ==
    /\ wpc = "finish" /\ ~wcancel
    /\ IF target = "completed" THEN target' = "failed" /\ UNCHANGED wpc
                               ELSE wpc' = "notice" /\ UNCHANGED target
    /\ UNCHANGED <<rows, lock, lvars, rvars, item, wcancel, notices, runs>>

\* The CancelledError is raised in the worker.  finish may have committed
\* before (join_owned); the except clause then asks for "interrupted".
CancelWorker ==
    /\ wcancel
    /\ \/ /\ wpc \in {"enter", "wait", "notify"}            \* no row at stake
          /\ wpc' = "died" /\ wcancel' = FALSE
          /\ UNCHANGED <<rows, lock, target>>
       \/ /\ wpc \in {"claim", "none", "claimed"}           \* inside the condition
          /\ wpc' = "died" /\ wcancel' = FALSE
          /\ lock' = Free
          /\ UNCHANGED <<rows, target>>
       \/ /\ wpc = "run" \/ (wpc = "finish" /\ target = "completed")
          /\ rows' \in IF wpc = "finish" THEN {rows, Finished(rows, item, target)} ELSE {rows}
          /\ wpc' = "finish" /\ wcancel' = FALSE
          /\ target' = "interrupted"
          /\ UNCHANGED lock
       \/ /\ wpc = "finish" /\ target = "failed"
          /\ rows' \in {rows, Finished(rows, item, target)}
          /\ wpc' = "notice" /\ wcancel' = FALSE
          /\ UNCHANGED <<lock, target>>
       \/ /\ wpc = "notice"                                  \* raised after the join
          /\ notices' = notices \cup {<<item, Outcome>>}
          /\ wpc' = "notify" /\ wcancel' = FALSE
          /\ target' = "interrupted"
          /\ UNCHANGED <<rows, lock>>
    /\ (wpc # "notice" => UNCHANGED notices)
    /\ UNCHANGED <<lvars, rvars, item, runs>>

\* The terminal notice, and the end of the typing activity, are joined even
\* when the worker is cancelled meanwhile.
Notice ==
    /\ wpc = "notice" /\ ~wcancel
    /\ notices' = notices \cup {<<item, Outcome>>}
    /\ wpc' = "notify"
    /\ UNCHANGED <<rows, lock, lvars, rvars, item, target, wcancel, runs>>

\* Wake receivers that wait for capacity; go on, or raise what the run raised.
Notify ==
    /\ wpc = "notify" /\ lock = Free /\ ~wcancel
    /\ rpc' = NotifiedReceivers
    /\ wpc' = IF target = "completed" THEN "enter" ELSE "died"
    /\ UNCHANGED <<rows, lock, lvars, rmsg, acked, item, target, wcancel, notices, runs>>

-----------------------------------------------------------------------------
(* Listener *)

\* listen(): take the ownership of (database, session) and initialize the
\* store, which interrupts rows that a former process left running.
Listen ==
    /\ phase = "down" /\ listens < MaxListens
    /\ \E C \in SUBSET Channels : C # {} /\ routes' = C
    /\ listens' = listens + 1
    /\ rows' = Interrupted(rows)
    /\ phase' = "starting"
    /\ clean' = TRUE
    /\ wpc' = "off" /\ target' = "completed" /\ wcancel' = FALSE
    /\ rpc' = [r \in Receivers |-> "idle"]    \* late callbacks of the last listener fail
    /\ rmsg' = [r \in Receivers |-> NoMessage]
    /\ UNCHANGED <<lock, accepting, live, acked, item, notices, runs>>

\* Queued work belongs to bound channels: open them, start sources and worker.
Start ==
    /\ phase = "starting"
    /\ \A i \in WithStatus(rows, {"queued"}) : ChannelOf[rows[i].msg] \in routes
    /\ phase' = "listening"
    /\ accepting' = TRUE
    /\ live' = routes
    /\ wpc' = "enter"
    /\ UNCHANGED <<rows, lock, routes, clean, listens, rvars, item, target, wcancel,
                   notices, runs>>

\* Unroutable work, a connector that does not open, or a cancellation.
StartFails ==
    /\ phase = "starting"
    /\ phase' = "stopping"
    /\ UNCHANGED <<rows, lock, routes, accepting, live, clean, listens, rvars, wvars>>

\* A source's listen returns, fails, or obeys its cancellation.
EndSource(c) ==
    /\ c \in live /\ lock = Free
    /\ live' = live \ {c}
    /\ rpc' = NotifiedReceivers
    /\ wpc' = NotifiedWorker
    /\ UNCHANGED <<rows, lock, phase, routes, accepting, clean, listens, rmsg, acked,
                   item, target, wcancel, notices, runs>>

\* No receive callback of the channel is under way.
Drained(c) == \A r \in Receivers : rmsg[r] # NoMessage => ChannelOf[rmsg[r]] # c

\* cleanup(): the listener's task was cancelled, a task of its own failed, or
\* all of them are done.  Admission closes and the tasks are cancelled.
Stop ==
    /\ phase = "listening"
    /\ phase' = "stopping"
    /\ accepting' = FALSE
    /\ wcancel' = (wpc \notin {"over", "died"})
    /\ UNCHANGED <<rows, lock, routes, live, clean, listens, rvars, wpc, item, target,
                   notices, runs>>

\* Mutant: the connector tasks are joined without waking receivers first.
JoinWithoutWake ==
    /\ phase = "stopping" /\ lock = Free
    /\ phase' = "draining"
    /\ UNCHANGED <<rows, lock, routes, accepting, live, clean, listens, rvars, wvars>>

\* cleanup takes the condition and wakes backpressured receivers.
WakeAll ==
    /\ phase = "stopping" /\ lock = Free
    /\ rpc' = NotifiedReceivers
    /\ wpc' = NotifiedWorker
    /\ phase' = "draining"
    /\ UNCHANGED <<rows, lock, routes, accepting, live, clean, listens, rmsg, acked,
                   item, target, wcancel, notices, runs>>

\* gather(*tasks): sources and worker have ended.
Joined == live = {} /\ wpc \in {"off", "over", "died"}

\* interrupt_running; its error is collected and cleanup goes on.
InterruptRunning ==
    /\ phase = "draining" /\ Joined
    /\ \/ rows' = Interrupted(rows) /\ UNCHANGED clean
       \/ rows' = rows /\ clean' = FALSE
    /\ phase' = "closing"
    /\ UNCHANGED <<lock, routes, accepting, live, listens, rvars, wvars>>

\* Connectors are closed and the ownership is released.
Close ==
    /\ phase = "closing"
    /\ phase' = "down" /\ routes' = {}
    /\ UNCHANGED <<rows, lock, accepting, live, clean, listens, rvars, wvars>>

\* The process dies: nothing but the rows survives.
Crash ==
    /\ phase # "down"
    /\ phase' = "down" /\ routes' = {} /\ accepting' = FALSE /\ live' = {} /\ lock' = Free
    /\ clean' = FALSE
    /\ rpc' = [r \in Receivers |-> "idle"] /\ rmsg' = [r \in Receivers |-> NoMessage]
    /\ wpc' = "off" /\ target' = "completed" /\ wcancel' = FALSE
    /\ UNCHANGED <<rows, listens, acked, item, notices, runs>>

-----------------------------------------------------------------------------

Receive(r) == Enter(r) \/ Admit(r) \/ AwaitCapacity(r) \/ Return(r)

Work == WorkerEnter \/ Claim \/ NoWork \/ BeginRun \/ EndRun \/ Finish \/ CancelWorker
        \/ Notice \/ Notify

Cleanup == WakeAll \/ InterruptRunning \/ Close

Next ==
    \/ \E r \in Receivers : Deliver(r) \/ Receive(r) \/ CancelReceive(r) \/ AdmitFails(r)
    \/ Work \/ ClaimFails \/ FinishFails
    \/ Listen \/ Start \/ StartFails \/ (\E c \in Channels : EndSource(c)) \/ Stop
    \/ Cleanup \/ Crash

Spec == Init /\ [][Next]_vars

\* asyncio.Lock is fair, so whoever wants the condition often enough gets it;
\* a connector obeys the cancellation of its task once its callbacks have ended;
\* Agent.run ends.  A listener whose worker died stops by itself (task.result()).
Fairness ==
    /\ \A r \in Receivers : SF_vars(Enter(r)) /\ WF_vars(Admit(r) \/ AwaitCapacity(r) \/ Return(r))
    /\ SF_vars(WorkerEnter) /\ SF_vars(Notify)
    /\ WF_vars(Claim \/ NoWork \/ BeginRun \/ EndRun \/ Finish \/ CancelWorker \/ Notice)
    /\ WF_vars(wpc \in {"died", "over"} /\ Stop)
    /\ SF_vars(WakeAll) /\ WF_vars(InterruptRunning \/ Close)
    /\ \A c \in Channels : SF_vars(phase = "draining" /\ Drained(c) /\ EndSource(c))

FairSpec == Spec /\ Fairness

-----------------------------------------------------------------------------
(* Properties *)

\* Every variable has its type.
TypeOK ==
    /\ rows \in Seq(RowType)
    /\ phase \in {"down", "starting", "listening", "stopping", "draining", "closing"}
    /\ routes \subseteq Channels /\ live \subseteq Channels
    /\ accepting \in BOOLEAN /\ clean \in BOOLEAN /\ wcancel \in BOOLEAN
    /\ listens \in Nat
    /\ lock \in {Free, Worker} \cup Receivers
    /\ rpc \in [Receivers -> {"idle", "enter", "admit", "full", "in", "wait"}]
    /\ rmsg \in [Receivers -> Messages \cup {NoMessage}]
    /\ acked \subseteq Messages
    /\ wpc \in {"off", "enter", "claim", "none", "claimed", "run", "finish", "notice",
                "notify", "wait", "over", "died"}
    /\ item \in Nat
    /\ target \in {"completed", "failed", "interrupted"}
    /\ notices \subseteq Nat \X {"completed", "failed", "cancelled"}
    /\ runs \in [Messages -> Nat]

\* No message is handed to Agent.run twice, whatever is redelivered, cancelled
\* or crashed ("a running row is never replayed automatically").
AtMostOnce == \A m \in Messages : runs[m] <= 1

\* A receive callback that returned normally left its message in the database.
AckedIsDurable == \A m \in acked : Known(rows, m)

\* A listener that stopped with its cleanup complete leaves no row running, so
\* that nothing of the session's inbox looks active afterwards.
CleanStop ==
    (phase = "down" /\ clean) => WithStatus(rows, {"running"}) = {}

\* A connector is told of the end of a row at most once, and "completed" only
\* when the row was finalized as completed (the comment in _worker).
NoticesAreFinal ==
    \A n1, n2 \in notices :
        /\ n1[1] = n2[1] => n1 = n2
        /\ n1[2] = "completed" => rows[n1[1]].status = "completed"

\* The row the worker handles belongs to a channel of this listener, so the
\* lookup in _routes succeeds, also for rows queued by an earlier listener.
Routable ==
    wpc \in {"claimed", "run", "finish", "notice"} => ChannelOf[rows[item].msg] \in routes

\* What the connector, the agent and the next listener see of a row: it is run
\* at most once, by a listener that has its channel, what is told of its end is
\* final, and a clean stop leaves it settled.
RowsAreAccounted == AtMostOnce /\ Routable /\ NoticesAreFinal /\ CleanStop

\* The inbox implements its promise.
Promise ==
    INSTANCE InboxPromise WITH
        accepted <- [i \in Ids(rows) |-> rows[i].msg],
        begun <- Ids(rows) \ WithStatus(rows, {"queued"}),
        ended <- WithStatus(rows, {"completed", "failed", "interrupted"}),
        Limit <- InboxLimit

KeepsPromise == Promise!PSpec

\* A queued row is taken up unless its listener stops first: no wakeup of the
\* worker is lost.
QueuedIsTaken ==
    \A m \in Messages :
        (\E i \in Ids(rows) : rows[i] = [msg |-> m, status |-> "queued"] /\ phase = "listening")
        ~> (phase # "listening" \/ \E i \in Ids(rows) : rows[i].msg = m /\ rows[i].status # "queued")

\* A stopping listener gives up the ownership of its session.
StopEnds == (phase = "stopping") ~> (phase = "down")
=============================================================================
