----------------------------- MODULE SessionTrash ---------------------------
(***************************************************************************)
(* Removing the chats of the web service: deletion to the trash or for     *)
(* good, restoration, and the purge of what expired, against what may      *)
(* still run in a chat or reach it: queued messages, redelivered ones,     *)
(* timers and the start of child agents.                                   *)
(*                                                                         *)
(* An operation holds the host's mutation guard from its first to its last *)
(* step, and the lock of task inputs while it removes; the inbox's claim   *)
(* and a timer's reservation need the guard too, but take no step of an    *)
(* operation in between (WebHost models them step by step).  Titles,       *)
(* selection, group membership and uploads are left out.                   *)
(***************************************************************************)
EXTENDS Naturals, FiniteSets

CONSTANTS
    Roots,              \* in the order of their ids; the first is 1
    Messages, NoMessage,
    Channeled,          \* the messages of the channel conversation; others are the browser's
    Batch,              \* PURGE_BATCH
    Retention,          \* RETENTION_DAYS, in ticks of the clock
    MaxTime, MaxRequests, MaxWakes, MaxFaults       \* bounds

TrashAssumption ==
    /\ Roots \subseteq Nat \ {0} /\ 1 \in Roots /\ IsFiniteSet(Roots)
    /\ NoMessage \notin Messages /\ Channeled \subseteq Messages
    /\ Batch \in Nat \ {0} /\ Retention \in Nat \ {0}
    /\ {MaxTime, MaxRequests, MaxWakes, MaxFaults} \subseteq Nat

VARIABLES
    member,     \* harness_sessions and ngn_web_session_trash
    content,    \* the roots that have their history
    deletion,   \* the latest deletion_id of a root
    purge_at,
    blocked,    \* roots whose rows _guard_rows finds inconsistent
    binding,    \* the root of the channel conversation, 0 if it has none
    row,        \* ngn_web_inbox
    deleted,    \* ngn_web_deleted_messages
    run,        \* the run of a root, and the message it was claimed for
    timers,     \* roots with a pending wakeup
    op,         \* the operation that holds the mutation guard
    starting,   \* the root of the task start that holds Tasks.admission, or 0
    cursor,     \* SessionTrash._purge_after
    clock,
    claims,     \* ghost: how often a message was claimed
    requests, wakes, faults

rows == <<member, content, deletion, purge_at, binding, row, deleted>>
lanes == <<run, timers, claims, wakes>>
vars == <<rows, blocked, lanes, op, starting, cursor, clock, requests, faults>>

NoOp == [kind |-> "none", stage |-> "none", root |-> 0, deletion |-> 0, batch |-> {}]
NoRun == [stage |-> "none", work |-> NoMessage]
PURGE_START == [purge_at |-> 0, id |-> 0]
Item == [id : Roots, deletion : 1..MaxRequests, purge_at : Nat]

TypeOK ==
    /\ member \in [Roots -> {"unborn", "live", "trash", "gone"}]
    /\ content \subseteq Roots /\ blocked \subseteq Roots /\ timers \subseteq Roots
    /\ deletion \in [Roots -> 0..MaxRequests] /\ purge_at \in [Roots -> Nat]
    /\ binding \in Roots \cup {0} /\ starting \in Roots \cup {0}
    /\ row \in [Messages -> [root : Roots \cup {0}, status : {"absent", "queued", "running", "completed", "interrupted"}]]
    /\ deleted \subseteq Messages
    /\ run \in [Roots -> [stage : {"none", "running", "stopping"}, work : Messages \cup {NoMessage}]]
    /\ op \in [kind : {"none", "delete", "permanent", "restore", "purge", "sweep"},
               stage : {"none", "reading", "next", "locking", "checking", "releasing", "joining", "writing"},
               root : Roots \cup {0}, deletion : 0..MaxRequests, batch : SUBSET Item]
    /\ cursor \in [purge_at : Nat, id : Nat]
    /\ claims \in [Messages -> Nat]
    /\ clock \in 0..MaxTime /\ requests \in 0..MaxRequests /\ wakes \in 0..MaxWakes /\ faults \in 0..MaxFaults

\* A chat that is there, and room for new ones.
Init ==
    /\ member = [r \in Roots |-> IF r = 1 THEN "live" ELSE "unborn"]
    /\ content = {1} /\ blocked = {}
    /\ deletion = [r \in Roots |-> 0] /\ purge_at = [r \in Roots |-> 0]
    /\ binding \in {0, 1}
    /\ row = [m \in Messages |-> [root |-> 0, status |-> "absent"]]
    /\ deleted = {}
    /\ run = [r \in Roots |-> NoRun] /\ timers = {}
    /\ op = NoOp /\ starting = 0 /\ cursor = PURGE_START
    /\ clock = 0 /\ claims = [m \in Messages |-> 0]
    /\ requests = 0 /\ wakes = 0 /\ faults = 0

Fault == faults < MaxFaults /\ faults' = faults + 1
Request == requests < MaxRequests /\ requests' = requests + 1
Root(r) == member[r] = "live" /\ r \in content
Mutating == op.kind # "none"
Pending(m) == row[m].status \in {"queued", "running"}
Expired(r) == member[r] = "trash" /\ purge_at[r] <= clock

-----------------------------------------------------------------------------
(* What reaches a chat, and what runs in it *)

\* Roots are taken in the order of their ids.
NewRoot(r) == member[r] = "unborn" /\ \A u \in Roots : member[u] = "unborn" => r <= u

Tick ==
    /\ clock < MaxTime /\ clock' = clock + 1
    /\ UNCHANGED <<rows, blocked, lanes, op, starting, cursor, requests, faults>>

\* Someone opens a new chat.
Open(r) ==
    /\ ~Mutating /\ NewRoot(r)
    /\ member' = [member EXCEPT ![r] = "live"] /\ content' = content \cup {r}
    /\ UNCHANGED <<deletion, purge_at, binding, row, deleted, blocked, lanes, op, starting, cursor, clock, requests, faults>>

\* RoutingStore.web; a browser retries a message for the chat it was for.
Submit(m, r) ==
    /\ m \notin Channeled /\ row[m].status = "absent" /\ row[m].root \in {0, r} /\ Root(r)
    /\ row' = [row EXCEPT ![m] = [root |-> r, status |-> "queued"]]
    /\ UNCHANGED <<member, content, deletion, purge_at, binding, deleted, blocked, lanes, op, starting, cursor, clock, requests, faults>>

New(m) == row[m].status = "absent" /\ m \notin deleted

\* RoutingStore.receive: a delivery, or a late redelivery.
Receive(m) ==
    /\ m \in Channeled /\ New(m)
    /\ IF binding # 0
       THEN /\ Root(binding)
            /\ row' = [row EXCEPT ![m] = [root |-> binding, status |-> "queued"]]
            /\ UNCHANGED <<member, content, binding>>
       ELSE \E r \in Roots :
            /\ NewRoot(r)
            /\ member' = [member EXCEPT ![r] = "live"] /\ content' = content \cup {r}
            /\ binding' = r
            /\ row' = [row EXCEPT ![m] = [root |-> r, status |-> "queued"]]
    /\ UNCHANGED <<deletion, purge_at, deleted, blocked, lanes, op, starting, cursor, clock, requests, faults>>

\* The inbox worker claims a row and starts its run.
Claim(m) ==
    /\ ~Mutating /\ row[m].status = "queued"
    /\ Root(row[m].root) /\ run[row[m].root] = NoRun
    /\ row' = [row EXCEPT ![m].status = "running"]
    /\ run' = [run EXCEPT ![row[m].root] = [stage |-> "running", work |-> m]]
    /\ claims' = [claims EXCEPT ![m] = @ + 1]
    /\ UNCHANGED <<member, content, deletion, purge_at, binding, deleted, blocked, timers, wakes, op, starting, cursor, clock, requests, faults>>

Schedule(r) ==
    /\ run[r].stage = "running" /\ r \notin timers /\ wakes < MaxWakes
    /\ timers' = timers \cup {r} /\ wakes' = wakes + 1
    /\ UNCHANGED <<rows, blocked, run, claims, op, starting, cursor, clock, requests, faults>>

\* A timer that is due reserves the root: reserve_wakeup.
Fire(r) ==
    /\ ~Mutating /\ r \in timers /\ run[r] = NoRun
    /\ timers' = timers \ {r}
    /\ run' = [run EXCEPT ![r].stage = "running"]
    /\ UNCHANGED <<rows, blocked, claims, wakes, op, starting, cursor, clock, requests, faults>>

Settle(r, status) ==
    row' = IF run[r].work = NoMessage THEN row ELSE [row EXCEPT ![run[r].work].status = status]

RunEnds(r) ==
    /\ \/ run[r].stage = "running" /\ Settle(r, "completed")
       \/ run[r].stage = "stopping" /\ Settle(r, "interrupted")
    /\ run' = [run EXCEPT ![r] = NoRun]
    /\ UNCHANGED <<member, content, deletion, purge_at, binding, deleted, blocked, timers, claims, wakes, op, starting, cursor, clock, requests, faults>>

-----------------------------------------------------------------------------
(* Tasks.admission: held by the start of a child, and by a removal *)

Removing == op.stage \in {"checking", "releasing", "joining", "writing"} /\ op.kind # "restore"

Admission == starting = 0 /\ ~Removing

StartTask(r) ==
    /\ Request
    /\ ~Mutating /\ Admission /\ Root(r)
    /\ starting' = r
    /\ UNCHANGED <<rows, blocked, lanes, op, cursor, clock, faults>>

\* The row of the input is written: into the run that is there, or a new one.
Launch ==
    /\ starting # 0
    /\ run' = [run EXCEPT ![starting].stage = IF @ = "none" THEN "running" ELSE @]
    /\ starting' = 0
    /\ UNCHANGED <<rows, blocked, timers, claims, wakes, op, cursor, clock, requests, faults>>

-----------------------------------------------------------------------------
(* Operations under the mutation guard *)

\* A deletion; a restoration or a purge of a generation the client has seen.
Begin(kind, r, generation) ==
    /\ Request
    /\ ~Mutating
    /\ kind \in {"restore", "purge"} => generation \in 1..deletion[r]
    /\ kind \in {"delete", "permanent"} => generation = 0
    /\ op' = [kind |-> kind, root |-> r, deletion |-> generation, batch |-> {},
              stage |-> IF kind = "restore" THEN "writing" ELSE "locking"]
    /\ UNCHANGED <<rows, blocked, lanes, starting, cursor, clock, faults>>

\* purge_expired, when nothing runs.
BeginSweep ==
    /\ ~Mutating /\ \A r \in Roots : run[r] = NoRun
    /\ op' = [NoOp EXCEPT !.kind = "sweep", !.stage = "reading"]
    /\ UNCHANGED <<rows, blocked, lanes, starting, cursor, clock, requests, faults>>

Before(a, b) == a.purge_at < b.purge_at \/ (a.purge_at = b.purge_at /\ a.id < b.id)

ItemOf(r) == [id |-> r, deletion |-> deletion[r], purge_at |-> purge_at[r]]

\* The first Batch of what expired after the cursor.
Candidates ==
    LET found == {ItemOf(r) : r \in {u \in Roots : Expired(u) /\ Before(cursor, ItemOf(u))}}
    IN  {item \in found : Cardinality({other \in found : Before(other, item)}) < Batch}

\* An empty page wraps once; the page after it is read from the start.
SweepReads ==
    /\ op.stage = "reading"
    /\ IF Candidates = {} /\ cursor # PURGE_START
       THEN cursor' = PURGE_START /\ UNCHANGED op
       ELSE op' = [op EXCEPT !.stage = "next", !.batch = Candidates] /\ UNCHANGED cursor
    /\ UNCHANGED <<rows, blocked, lanes, starting, clock, requests, faults>>

\* Mutant: the page is read again until its first root is purged.
Stuck(item) == cursor

Passed(item) == [purge_at |-> item.purge_at, id |-> item.id]

SweepNext ==
    /\ op.stage = "next"
    /\ IF op.batch = {}
       THEN op' = NoOp /\ UNCHANGED cursor
       ELSE \E item \in op.batch :
                /\ \A other \in op.batch : ~Before(other, item)
                /\ cursor' = Passed(item)
                /\ op' = [op EXCEPT !.stage = "locking", !.root = item.id, !.deletion = item.deletion, !.batch = @ \ {item}]
    /\ UNCHANGED <<rows, blocked, lanes, starting, clock, requests, faults>>

Over == op' = IF op.kind = "sweep" THEN [op EXCEPT !.stage = "next"] ELSE NoOp
To(from, to) == op.stage = from /\ op' = [op EXCEPT !.stage = to]

Lock ==
    /\ Admission /\ To("locking", "checking")
    /\ UNCHANGED <<rows, blocked, lanes, starting, cursor, clock, requests, faults>>

\* Mutant: any tombstone of the root will do.
AnyGeneration(r, generation) == r \in Roots /\ deletion[r] # 0

\* _generation: the tombstone is of this deletion, and the root is not live.
Generation(r, generation) == member[r] = "trash" /\ deletion[r] = generation

Removable ==
    CASE op.kind = "permanent" -> Root(op.root)
      [] op.kind = "delete" -> Root(op.root) \/ member[op.root] = "trash"
      [] OTHER -> Generation(op.root, op.deletion)

\* _validate_removal, or _purge's look before it stops anything.
Check ==
    /\ op.stage = "checking"
    /\ IF Removable /\ (op.kind \in {"delete", "permanent"} => op.root \notin blocked)
       THEN To("checking", "releasing")
       ELSE Over
    /\ UNCHANGED <<rows, blocked, lanes, starting, cursor, clock, requests, faults>>

\* _release_process: timers first, then the run, and the row it settles.
ReleaseProcess ==
    /\ To("releasing", "joining")
    /\ timers' = timers \ {op.root}
    /\ run' = [run EXCEPT ![op.root].stage = IF @ = "running" THEN "stopping" ELSE @]
    /\ UNCHANGED <<rows, blocked, claims, wakes, starting, cursor, clock, requests, faults>>

Joined ==
    /\ To("joining", "writing") /\ run[op.root] = NoRun
    /\ UNCHANGED <<rows, blocked, lanes, starting, cursor, clock, requests, faults>>

RowsOf(r) == {m \in Messages : row[m].root = r}

ReleaseBindings == binding' = IF binding = op.root THEN 0 ELSE binding

\* _quarantine_pending
Quarantine(r) ==
    LET pending == {m \in RowsOf(r) : Pending(m)}
    IN  /\ row' = [m \in Messages |-> IF m \in pending THEN [row[m] EXCEPT !.status = "interrupted"] ELSE row[m]]
        /\ deleted' = deleted \cup (pending \cap Channeled)

\* remove_rows: a root in the trash already keeps its generation.
Trash ==
    IF member[op.root] = "trash"
    THEN UNCHANGED <<rows>>
    ELSE /\ member' = [member EXCEPT ![op.root] = "trash"]
         /\ deletion' = [deletion EXCEPT ![op.root] = @ + 1]
         /\ purge_at' = [purge_at EXCEPT ![op.root] = clock + Retention]
         /\ ReleaseBindings /\ Quarantine(op.root)
         /\ UNCHANGED content

\* _remove_content
RemoveContent ==
    /\ member' = [member EXCEPT ![op.root] = "gone"]
    /\ content' = content \ {op.root}
    /\ row' = [m \in Messages |-> IF m \in RowsOf(op.root) THEN [row[m] EXCEPT !.status = "absent"] ELSE row[m]]
    /\ deleted' = deleted \cup (RowsOf(op.root) \cap Channeled)
    /\ ReleaseBindings
    /\ UNCHANGED <<deletion, purge_at>>

Restored ==
    /\ member' = [member EXCEPT ![op.root] = "live"]
    /\ UNCHANGED <<content, deletion, purge_at, binding, row, deleted>>

Writable ==
    /\ Removable /\ op.root \notin blocked
    /\ op.kind = "sweep" => Expired(op.root)
    /\ op.kind = "restore" => ~Expired(op.root) /\ op.root \in content

\* The transaction, which looks at everything again, and may fail.
Write ==
    /\ op.stage = "writing"
    /\ \/ /\ Writable
          /\ CASE op.kind = "delete" -> Trash
               [] op.kind = "restore" -> Restored
               [] OTHER -> RemoveContent
          /\ UNCHANGED faults
       \/ ~Writable /\ UNCHANGED <<rows, faults>>
       \/ Fault /\ UNCHANGED rows
    /\ Over
    /\ UNCHANGED <<blocked, lanes, starting, cursor, clock, requests>>

\* A tombstone's rows turn out inconsistent.
Block(r) ==
    /\ Fault
    /\ member[r] = "trash"
    /\ blocked' = blocked \cup {r}
    /\ UNCHANGED <<rows, lanes, op, starting, cursor, clock, requests>>

\* A crash and the next start.
Restart ==
    /\ Fault
    /\ row' = [m \in Messages |-> IF row[m].status = "running" THEN [row[m] EXCEPT !.status = "interrupted"] ELSE row[m]]
    /\ run' = [r \in Roots |-> NoRun] /\ timers' = {}
    /\ op' = NoOp /\ starting' = 0 /\ cursor' = PURGE_START
    /\ UNCHANGED <<member, content, deletion, purge_at, binding, deleted, blocked, claims, wakes, clock, requests>>

OpStep == SweepReads \/ SweepNext \/ Lock \/ Check \/ ReleaseProcess \/ Joined \/ Write

Next ==
    \/ Tick
    \/ \E m \in Messages : Receive(m) \/ Claim(m) \/ \E r \in Roots : Submit(m, r)
    \/ \E r \in Roots : Open(r) \/ Schedule(r) \/ Fire(r) \/ RunEnds(r) \/ StartTask(r) \/ Block(r)
    \/ \E kind \in {"delete", "permanent", "restore", "purge"}, r \in Roots, generation \in 0..MaxRequests :
          Begin(kind, r, generation)
    \/ Launch \/ BeginSweep \/ OpStep \/ Restart

Spec == Init /\ [][Next]_vars

\* Operations, starts and runs end; the cleanup is polled whenever it may run.
Fairness ==
    /\ WF_vars(OpStep) /\ WF_vars(Launch) /\ WF_vars(BeginSweep)
    /\ \A r \in Roots : WF_vars(RunEnds(r)) /\ WF_vars(Fire(r))
    /\ \A m \in Messages : WF_vars(Claim(m))

-----------------------------------------------------------------------------
(* Once a removal is committed nothing runs in the chat, waits for it or    *)
(* will start in it; the chat a purge is stopping and about to erase is     *)
(* still the tombstone its request named, not one that was restored or      *)
(* deleted again since; a live chat has its history; and a message is       *)
(* claimed at most once, however often it is redelivered.                   *)
RemovalIsExact ==
    /\ \A r \in Roots : member[r] \in {"trash", "gone"} =>
          run[r] = NoRun /\ r \notin timers /\ binding # r /\ \A m \in RowsOf(r) : ~Pending(m)
    /\ op.kind \in {"purge", "sweep"} /\ op.stage \in {"releasing", "joining", "writing"} =>
          member[op.root] = "trash" /\ deletion[op.root] = op.deletion
    /\ \A r \in Roots : member[r] = "live" => r \in content
    /\ \A m \in Messages : claims[m] <= 1

(* A chat whose recovery period is over is purged in the end, whatever      *)
(* stands before it in the queue, unless its own rows forbid it.            *)
ExpiredIsPurged == \A r \in Roots : Expired(r) ~> (member[r] # "trash" \/ r \in blocked)
=============================================================================
