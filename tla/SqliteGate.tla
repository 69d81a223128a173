----------------------------- MODULE SqliteGate -----------------------------
(***************************************************************************)
(* Cooperative SQLite writer admission: _sqlite.py over _async.py.         *)
(*                                                                         *)
(* Every writer of a database passes a gate: a reference-counted object    *)
(* found through a registry keyed by canonical path, holding an            *)
(* asyncio.Lock.  A task that is cancelled while it waits leaves without   *)
(* having run any SQL; a task cancelled once its operation is accepted     *)
(* keeps the gate until that operation has ended.                          *)
(*                                                                         *)
(* The asyncio.Lock is modelled with its futures, because its fairness     *)
(* depends on what happens between waking a waiter and its resumption.     *)
(* The event loop runs one callback at a time: each action is one          *)
(* uninterrupted stretch between two suspension points.                    *)
(***************************************************************************)
EXTENDS Naturals, FiniteSets, SequencesExt

CONSTANTS Tasks,   \* asyncio tasks that write
          Paths,   \* canonical database paths; sorted() compares them
          Gates,   \* identities of _Gate objects
          NoGate   \* no gate: an absent registry entry

ASSUME GateAssumption ==
    /\ Paths \subseteq Nat
    /\ IsFiniteSet(Tasks)
    /\ NoGate \notin Gates

VARIABLES gates,   \* _gates[loop]: path -> registered gate
          gate,    \* the _Gate objects: users, owners and the asyncio.Lock
          frame,   \* frame[t][p]: the gate task t's database_write(p) holds on to
          todo,    \* database_writes: paths task t has still to reserve
          fut,     \* the future task t awaits in Lock.acquire
          work,    \* the accepted operation of task t
          cancel   \* a CancelledError is due to be raised in task t

vars == <<gates, gate, frame, todo, fut, work, cancel>>

FreshGate == [users |-> 0, owners |-> {}, locked |-> FALSE, waiters |-> <<>>]

Init ==
    /\ gates = [p \in Paths |-> NoGate]
    /\ gate = [g \in Gates |-> FreshGate]
    /\ frame = [t \in Tasks |-> [p \in Paths |-> NoGate]]
    /\ todo = [t \in Tasks |-> {}]
    /\ fut = [t \in Tasks |-> "none"]
    /\ work = [t \in Tasks |-> "none"]
    /\ cancel = [t \in Tasks |-> FALSE]

-----------------------------------------------------------------------------
(* Helpers of the code and of asyncio.Lock *)

\* The path task t is about to reserve, or is waiting for: sorted(unique).
Wanted(t) == Min(todo[t])

Referenced(g) == \E t \in Tasks, p \in Paths : frame[t][p] = g

\* gates.setdefault(key, _Gate()): the registered object, else a new one.
Lookup(p) == IF gates[p] # NoGate THEN {gates[p]}
             ELSE {g \in Gates : ~Referenced(g)}

\* What setdefault leaves in the registry's entry: the object, as it is.
Registered(p, g) == IF gates[p] = NoGate THEN FreshGate ELSE gate[g]

\* Mutant: the fast path forgets the queue.
JumpQueue(l) == ~l.locked

\* Lock.acquire takes the lock at once when nobody else may be due to have it.
Immediate(l) == ~l.locked /\ \A i \in 1..Len(l.waiters) : fut[l.waiters[i]] = "cancelled"

\* One more user counts on the gate; a future joins the queue of its lock.
CountedIn(l) == [l EXCEPT !.users = @ + 1]
QueuedBy(l, t) == [l EXCEPT !.waiters = Append(@, t)]

\* The lock is acquired and its owner noted.
TakenBy(l, t) == [l EXCEPT !.locked = TRUE, !.owners = @ \cup {t}]

\* Lock._wake_up_first: only the head is looked at, and only if it is not done.
WokenBy(ws) == IF ws # <<>> /\ fut[Head(ws)] = "pending" THEN {Head(ws)} ELSE {}

Gone(t, g) == \E p \in Paths : frame[t][p] = g

\* Mutant: the finally block releases a lock it never acquired.
ReleasedByAnyone(t, g) ==
    [users   |-> gate[g].users - 1,
     owners  |-> gate[g].owners \ {t},
     locked  |-> FALSE,
     waiters |-> RemoveFirst(gate[g].waiters, t)]

\* Gate g after task t left it: the lock is released if t had it, t is taken
\* from the waiters if it was one, and users is decremented (the finally block).
LeftBy(t, g) ==
    [users   |-> gate[g].users - 1,
     owners  |-> gate[g].owners \ {t},
     locked  |-> IF t \in gate[g].owners THEN FALSE ELSE gate[g].locked,
     waiters |-> RemoveFirst(gate[g].waiters, t)]

\* Mutant: only a release wakes the next waiter, a cancelled acquire does not.
WokenByRelease(t, g) ==
    IF t \in gate[g].owners THEN WokenBy(LeftBy(t, g).waiters) ELSE {}

\* Leaving a gate wakes its first waiter unless somebody else has the lock.
WokenWhenLeft(t, g) ==
    IF LeftBy(t, g).locked THEN {} ELSE WokenBy(LeftBy(t, g).waiters)

\* Task t is the last user of the gate of path p: the entry is deleted.
Emptied(t, p) == frame[t][p] # NoGate /\ gate[frame[t][p]].users = 1

\* Unwinding the AsyncExitStack: every reserved or awaited gate is left, and
\* the gate without users disappears from the registry.
LeaveAll(t) ==
    LET woken == UNION {WokenWhenLeft(t, g) : g \in {h \in Gates : Gone(t, h)}} IN
    /\ gate' = [g \in Gates |-> IF Gone(t, g) THEN LeftBy(t, g) ELSE gate[g]]
    /\ gates' = [p \in Paths |->
                   IF Emptied(t, p) THEN NoGate ELSE gates[p]]
    /\ frame' = [frame EXCEPT ![t] = [p \in Paths |-> NoGate]]
    /\ todo' = [todo EXCEPT ![t] = {}]
    /\ fut' = [u \in Tasks |-> IF u = t THEN "none"
                               ELSE IF u \in woken THEN "woken" ELSE fut[u]]
    /\ work' = [work EXCEPT ![t] = "none"]
    /\ cancel' = [cancel EXCEPT ![t] = FALSE]

Idle(t) == todo[t] = {} /\ frame[t] = [p \in Paths |-> NoGate]
Admitted(t) == todo[t] = {} /\ ~Idle(t)

-----------------------------------------------------------------------------
(* Actions *)

\* database_writes(paths), or write_database for a single path, is called.
Call(t) ==
    /\ Idle(t)
    /\ \E S \in (SUBSET Paths) \ {{}} : todo' = [todo EXCEPT ![t] = S]
    /\ UNCHANGED <<gates, gate, frame, fut, work, cancel>>

\* database_write up to Lock.acquire's first suspension: find or create the
\* gate, count as a user, then take the free lock or append a future.
Reserve(t) ==
    /\ todo[t] # {} /\ fut[t] = "none"
    /\ LET p == Wanted(t) IN
       \E g \in Lookup(p) :
         LET l == Registered(p, g) IN
         /\ t \notin l.owners
         /\ gates' = [gates EXCEPT ![p] = g]
         /\ frame' = [frame EXCEPT ![t][p] = g]
         /\ IF Immediate(l)
            THEN /\ gate' = [gate EXCEPT ![g] = TakenBy(CountedIn(l), t)]
                 /\ todo' = [todo EXCEPT ![t] = @ \ {p}]
                 /\ UNCHANGED fut
            ELSE /\ gate' = [gate EXCEPT ![g] = QueuedBy(CountedIn(l), t)]
                 /\ fut' = [fut EXCEPT ![t] = "pending"]
                 /\ UNCHANGED todo
    /\ UNCHANGED <<work, cancel>>

\* A woken waiter runs again: it leaves the queue and takes the lock.
Resume(t) ==
    /\ fut[t] = "woken" /\ ~cancel[t]
    /\ LET p == Wanted(t)  g == frame[t][p] IN
       /\ gate' = [gate EXCEPT ![g] =
                     TakenBy([gate[g] EXCEPT !.waiters = RemoveFirst(@, t)], t)]
       /\ todo' = [todo EXCEPT ![t] = @ \ {p}]
    /\ fut' = [fut EXCEPT ![t] = "none"]
    /\ UNCHANGED <<gates, frame, work, cancel>>

\* Task.cancel(): a pending future is cancelled; a task already woken, or one
\* joined to its accepted operation, has the CancelledError delivered later.
Cancel(t) ==
    \/ /\ fut[t] = "pending"
       /\ fut' = [fut EXCEPT ![t] = "cancelled"]
       /\ UNCHANGED <<gates, gate, frame, todo, work, cancel>>
    \/ /\ fut[t] = "woken" \/ work[t] = "running"
       /\ cancel' = [cancel EXCEPT ![t] = TRUE]
       /\ UNCHANGED <<gates, gate, frame, todo, fut, work>>

\* Mutant: the caller awaits its operation without join_owned.
UnwindAnywhere(t) ==
    /\ fut[t] = "cancelled" \/ cancel[t]
    /\ LeaveAll(t)

\* The CancelledError is raised inside Lock.acquire.
Unwind(t) ==
    /\ fut[t] = "cancelled" \/ (fut[t] = "woken" /\ cancel[t])
    /\ LeaveAll(t)

\* finish_on_cancel(owned()): the accepted operation becomes a task of its own.
Start(t) ==
    /\ Admitted(t) /\ work[t] = "none"
    /\ work' = [work EXCEPT ![t] = "running"]
    /\ UNCHANGED <<gates, gate, frame, todo, fut, cancel>>

\* The body asks again for a database it already holds: RuntimeError, raised
\* before the gate counts another user, ends the body.
Reenter(t) ==
    /\ Admitted(t) /\ work[t] = "none"
    /\ \E p \in Paths : gates[p] # NoGate /\ t \in gate[gates[p]].owners
    /\ LeaveAll(t)

\* The operation commits or fails, and closes its connection.
Finish(t) ==
    /\ work[t] = "running"
    /\ work' = [work EXCEPT ![t] = "done"]
    /\ UNCHANGED <<gates, gate, frame, todo, fut, cancel>>

\* join_owned returns, or raises the postponed cancellation: the gates are left.
Leave(t) ==
    /\ work[t] = "done"
    /\ LeaveAll(t)

Next == \E t \in Tasks :
    \/ Call(t) \/ Reserve(t) \/ Resume(t) \/ Cancel(t) \/ Unwind(t)
    \/ Start(t) \/ Reenter(t) \/ Finish(t) \/ Leave(t)

Spec == Init /\ [][Next]_vars

\* The event loop runs every ready callback, and an SQL operation ends (SQLite's
\* busy timeout bounds it).  Nothing obliges anybody to call or to cancel.
\* Of these steps a task has at most one at a time, and nobody else takes it away.
Runs(t) == Reserve(t) \/ Resume(t) \/ Unwind(t) \/ Start(t) \/ Finish(t) \/ Leave(t)

Fairness == \A t \in Tasks : WF_vars(Runs(t))

FairSpec == Spec /\ Fairness

-----------------------------------------------------------------------------
(* Properties *)

GateType == [users : Nat, owners : SUBSET Tasks, locked : BOOLEAN, waiters : Seq(Tasks)]

\* Every variable has its type.
TypeOK ==
    /\ gates \in [Paths -> Gates \cup {NoGate}]
    /\ gate \in [Gates -> GateType]
    /\ frame \in [Tasks -> [Paths -> Gates \cup {NoGate}]]
    /\ todo \in [Tasks -> SUBSET Paths]
    /\ fut \in [Tasks -> {"none", "pending", "woken", "cancelled"}]
    /\ work \in [Tasks -> {"none", "running", "done"}]
    /\ cancel \in [Tasks -> BOOLEAN]

\* Task t is inside database_write(p): its lock is acquired.
Inside(t, p) == frame[t][p] # NoGate /\ p \notin todo[t]

\* "Admit one FIFO writer per loop/path": two tasks are never both inside
\* database_write of one path, whichever gate objects they went through.
OneWriter ==
    \A p \in Paths : \A t, u \in Tasks : Inside(t, p) /\ Inside(u, p) => t = u

\* The registry holds exactly the gates somebody uses, so that an idle process
\* keeps no gate and nobody uses a gate that a newcomer would not find.
RegistryExact ==
    \A p \in Paths :
        /\ \A t \in Tasks : frame[t][p] # NoGate => gates[p] = frame[t][p]
        /\ gates[p] # NoGate =>
             gate[gates[p]].users = Cardinality({t \in Tasks : frame[t][p] # NoGate})
        /\ gates[p] # NoGate => \E t \in Tasks : frame[t][p] # NoGate

\* join_owned: whatever is cancelled, a task never gives up a database between
\* the start of its accepted operation and the end of that operation.
AcceptedWorkKeepsGate ==
    [][\A t \in Tasks : work[t] = "running" => frame'[t] = frame[t] /\ work'[t] # "none"]_vars

\* FIFO: a task that gets the lock of a path leaves behind no waiter that
\* queued before it and is not cancelled.
FifoAdmission ==
    [][\A t \in Tasks, p \in Paths :
         (~Inside(t, p) /\ Inside(t, p)') =>
            LET ws == gate[gates[p]].waiters IN
            gates[p] # NoGate =>
              \A i \in 1..Len(ws) :
                 (ws[i] # t /\ fut[ws[i]] \in {"pending", "woken"} /\ ~cancel[ws[i]]) =>
                    \E j \in 1..Len(ws) : j < i /\ ws[j] = t]_vars

\* Reserving several databases in canonical order cannot deadlock, and a waiter
\* is never forgotten behind cancelled ones: every caller is admitted or leaves.
EveryCallEnds == \A t \in Tasks : (todo[t] # {}) ~> (todo[t] = {})
=============================================================================
