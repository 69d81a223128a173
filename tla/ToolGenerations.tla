-------------------------- MODULE ToolGenerations ---------------------------
(* The replaceable generations of tools and MCP servers of a harness:      *)
(* harness/tools/resources.py over mcp/manager.py and mcp/client.py.  A    *)
(* reload stages a generation, which keeps the connections that did not    *)
(* change, and puts it in the place of the current one, while the response *)
(* of a run goes on to call the tools of the generation it was shown.      *)
(*                                                                         *)
(* Reloads come from the boundaries of a run and from the Retry of the     *)
(* settings page; sources change, servers die and fail to start, hooks     *)
(* raise, and every wait may be cancelled.                                 *)
EXTENDS Naturals, Sequences, FiniteSets

CONSTANTS
    Servers,        \* the MCP servers that may be declared
    MaxEdits,       \* bound: changes of declarations and sources
    MaxGenerations, MaxClients,     \* bounds: generations staged, servers started
    MaxFaults       \* bound: failures, cancellations and deaths

GenerationsAssumption ==
    /\ IsFiniteSet(Servers)
    /\ {MaxEdits, MaxFaults, MaxClients} \subseteq Nat /\ MaxGenerations \in Nat \ {0}

VARIABLES
    declared,       \* servers of the trusted configuration
    origin,         \* per server: its sources and environment as they are now
    client,         \* the clients that were started, by number
    holds,          \* per generation: the client of each server, or 0
    shut,           \* generations whose close() has begun
    current, active,    \* the newest generation, and the one the run uses
    failed,         \* per server: the declaration that failed, or 0, and its retry
    running,
    task,           \* the reload that has the lock
    waiting,        \* who waits for the lock, first come first served
    run,            \* where the run of the harness is
    closing,        \* how far close() of the harness is
    edits, faults

vars == <<declared, origin, client, holds, shut, current, active, failed, running,
          task, waiting, run, closing, edits, faults>>
world == <<declared, origin, edits>>
pool == <<client, holds, shut>>
place == <<current, active, running>>

Idle == [stage |-> "none", by |-> "none", gen |-> 0, todo |-> {}, client |-> 0, old |-> 0, raised |-> FALSE]

Stages == {"none", "setup", "load", "start", "discover", "reject", "retire"}
RunStages == {"none", "before", "round", "swap", "model", "after_model", "tools", "after_tools", "after", "ending"}

TypeOK ==
    /\ declared \subseteq Servers /\ origin \in [Servers -> 1 .. MaxEdits + 1]
    /\ client \in Seq([server : Servers, origin : 1 .. MaxEdits + 1, refs : 0 .. MaxGenerations,
                       state : {"starting", "up", "down", "gone"}])
    /\ holds \in Seq([Servers -> 0 .. MaxClients]) /\ shut \subseteq DOMAIN holds
    /\ {current, active} \subseteq DOMAIN holds
    /\ failed \in [Servers -> [origin : 0 .. MaxEdits + 1, retry : BOOLEAN]]
    /\ task \in [stage : Stages, by : {"none", "run", "retry"}, gen : 0 .. MaxGenerations,
                 todo : SUBSET Servers, client : 0 .. MaxClients, old : 0 .. MaxGenerations, raised : BOOLEAN]
    /\ waiting \in Seq({"run", "retry"}) /\ run \in RunStages /\ running \in BOOLEAN
    /\ closing \in {"no", "stopping", "draining", "releasing", "done"}
    /\ edits \in 0 .. MaxEdits /\ faults \in 0 .. MaxFaults

None == [s \in Servers |-> 0]

\* The harness is initialized with an empty generation; its first reload is that
\* of its first run.
Init ==
    /\ declared \in SUBSET Servers /\ origin = [s \in Servers |-> 1]
    /\ client = <<>> /\ holds = <<None>> /\ shut = {}
    /\ current = 1 /\ active = 1 /\ running = FALSE
    /\ failed = [s \in Servers |-> [origin |-> 0, retry |-> FALSE]]
    /\ task = Idle /\ waiting = <<>> /\ run = "none" /\ closing = "no"
    /\ edits = 0 /\ faults = 0

OneFault == faults < MaxFaults /\ faults' = faults + 1

(******************************* connections *******************************)

\* release: the last generation that lets a client go disconnects it.
Released(cs, gone) ==
    [c \in DOMAIN cs |->
        IF c \notin gone THEN cs[c]
        ELSE [cs[c] EXCEPT !.refs = @ - 1, !.state = IF cs[c].refs = 1 THEN "gone" ELSE @]]

Held(g) == {holds[g][s] : s \in Servers} \ {0}

\* disconnect_all of a generation's manager, which ends its close().
Release(gs) ==
    /\ client' = [c \in DOMAIN client |->
          LET n == Cardinality({g \in gs : c \in Held(g)})
          IN  [client[c] EXCEPT !.refs = @ - n, !.state = IF n > 0 /\ client[c].refs = n THEN "gone" ELSE @]]
    /\ holds' = [g \in DOMAIN holds |-> IF g \in gs THEN None ELSE holds[g]]

\* remove_server of the staged generation.
Remove(s) ==
    /\ client' = Released(client, {holds[task.gen][s]} \ {0})
    /\ holds' = [holds EXCEPT ![task.gen][s] = 0]

\* Mutant: the connection is shared without being counted.
RetainUncounted(s, c) ==
    /\ holds' = [holds EXCEPT ![task.gen][s] = c]
    /\ UNCHANGED client

\* retain_server: the connection has one more owner.
Retain(s, c) ==
    /\ client' = [client EXCEPT ![c].refs = @ + 1]
    /\ holds' = [holds EXCEPT ![task.gen][s] = c]

(********************************* reloads *********************************)

\* reload: whoever is first in line gets the lock; after aclose it is refused.
BeginReload ==
    /\ waiting # <<>> /\ task = Idle
    /\ waiting' = Tail(waiting)
    /\ IF closing \in {"draining", "releasing", "done"}
       THEN /\ run' = IF Head(waiting) = "run" THEN "after" ELSE run
            /\ UNCHANGED <<holds, task>>
       ELSE /\ Len(holds) < MaxGenerations
            /\ holds' = Append(holds, None)
            /\ task' = [Idle EXCEPT !.stage = "setup", !.by = Head(waiting), !.gen = Len(holds) + 1]
            /\ UNCHANGED run
    /\ UNCHANGED <<world, client, shut, place, failed, closing, faults>>

\* The configuration is read; failures of servers it does not name are forgotten.
SetUp ==
    /\ task.stage = "setup"
    /\ task' = [task EXCEPT !.stage = "load", !.todo = declared]
    /\ failed' = [s \in Servers |-> IF s \in declared THEN failed[s] ELSE [origin |-> 0, retry |-> FALSE]]
    /\ UNCHANGED <<world, pool, place, waiting, run, closing, faults>>

\* A server that failed is left alone until its origin changes or a retry.
Paused(s) == failed[s].origin = origin[s] /\ ~failed[s].retry

\* The current generation has a healthy connection of the same origin.
Keeps(s) ==
    LET c == holds[current][s]
    IN  c # 0 /\ client[c].origin = origin[s] /\ client[c].state = "up"

Skip(s) ==
    /\ task.stage = "load" /\ s \in task.todo /\ Paused(s)
    /\ task' = [task EXCEPT !.todo = @ \ {s}]
    /\ UNCHANGED <<world, pool, place, failed, waiting, run, closing, faults>>

Healthy(s) == failed' = [failed EXCEPT ![s] = [origin |-> 0, retry |-> FALSE]]

\* Its tools are read again when the server said that they changed.
Keep(s) ==
    /\ task.stage = "load" /\ s \in task.todo /\ ~Paused(s) /\ Keeps(s)
    /\ Retain(s, holds[current][s])
    /\ \/ task' = [task EXCEPT !.todo = @ \ {s}] /\ Healthy(s)
       \/ task' = [task EXCEPT !.stage = "discover", !.client = holds[current][s]] /\ UNCHANGED failed
    /\ UNCHANGED <<world, shut, place, waiting, run, closing, faults>>

\* add_server starts a process of its own.
Start(s) ==
    /\ task.stage = "load" /\ s \in task.todo /\ ~Paused(s) /\ ~Keeps(s)
    /\ Len(client) < MaxClients
    /\ client' = Append(client, [server |-> s, origin |-> origin[s], refs |-> 0, state |-> "starting"])
    /\ task' = [task EXCEPT !.stage = "start", !.client = Len(client) + 1]
    /\ UNCHANGED <<world, holds, shut, place, failed, waiting, run, closing, faults>>

Mine == client[task.client].server

Started ==
    /\ task.stage = "start"
    /\ client' = [client EXCEPT ![task.client].state = "up", ![task.client].refs = 1]
    /\ holds' = [holds EXCEPT ![task.gen][Mine] = task.client]
    /\ task' = [task EXCEPT !.stage = "discover"]
    /\ UNCHANGED <<world, shut, place, failed, waiting, run, closing, faults>>

\* A failure is recorded for the declaration that was tried.
Failure(s) ==
    /\ failed' = [failed EXCEPT ![s] = [origin |-> client[task.client].origin, retry |-> FALSE]]
    /\ task' = [task EXCEPT !.stage = "load", !.todo = @ \ {s}, !.client = 0]

\* connect disconnects what it could not bring up.
StartFails ==
    /\ task.stage = "start" /\ OneFault
    /\ client' = [client EXCEPT ![task.client].state = "gone"]
    /\ Failure(Mine)
    /\ UNCHANGED <<world, holds, shut, place, waiting, run, closing>>

\* The tools are known; a source that changed since is not accepted.
Discovered ==
    /\ task.stage = "discover"
    /\ client[task.client].refs = 1 => origin[Mine] = client[task.client].origin
    /\ task' = [task EXCEPT !.stage = "load", !.todo = @ \ {Mine}, !.client = 0]
    /\ Healthy(Mine)
    /\ UNCHANGED <<world, pool, place, waiting, run, closing, faults>>

DiscoverFails ==
    /\ task.stage = "discover"
    /\ IF client[task.client].refs = 1 /\ origin[Mine] # client[task.client].origin
       THEN UNCHANGED faults ELSE OneFault
    /\ Remove(Mine) /\ Failure(Mine)
    /\ UNCHANGED <<world, shut, place, waiting, run, closing>>

\* Setup, a plugin or the validation failed: the staged generation is closed and
\* the current one stays.
Reject ==
    /\ (task.stage = "setup" \/ (task.stage = "load" /\ task.todo = {}))
    /\ OneFault
    /\ shut' = shut \cup {task.gen} /\ task' = [task EXCEPT !.stage = "reject"]
    /\ UNCHANGED <<world, client, holds, place, failed, waiting, run, closing>>

\* The reload is cancelled, by its caller or by aclose: a client that is being
\* started is disconnected, the rest goes with the staged generation.  Closes
\* that have begun are finished first.
Cancelled ==
    /\ client' = [c \in DOMAIN client |->
          IF task.stage = "start" /\ c = task.client THEN [client[c] EXCEPT !.state = "gone"] ELSE client[c]]
    /\ IF task.stage \in {"setup", "start", "discover"}
       THEN /\ shut' = shut \cup {task.gen}
            /\ task' = [task EXCEPT !.stage = "reject", !.raised = TRUE]
       ELSE /\ task' = [task EXCEPT !.raised = TRUE] /\ UNCHANGED shut

Cancel ==
    /\ task.stage \notin {"none", "load"} /\ ~task.raised /\ OneFault
    /\ Cancelled
    /\ UNCHANGED <<world, holds, place, failed, waiting, run, closing>>

\* The caller goes on, or is told of the cancellation.
Return(raised) ==
    /\ task' = Idle
    /\ run' = IF task.by # "run" THEN run
              ELSE IF raised THEN "after"
              ELSE CASE run = "before" -> "round" [] run = "after_model" -> "tools" [] run = "after_tools" -> "round"

\* before_run goes on with the current generation as soon as its reload returns.
Enters(raised) == task.by = "run" /\ run = "before" /\ ~raised

ReloadEnds(raised) ==
    /\ Return(raised)
    /\ IF Enters(raised) THEN running' = TRUE /\ active' = current ELSE UNCHANGED <<running, active>>

\* What a hook raises while the staged generation is closed is a diagnostic.
Rejected ==
    /\ task.stage = "reject"
    /\ Release({task.gen}) /\ ReloadEnds(task.raised)
    /\ UNCHANGED <<world, shut, current, failed, waiting, closing, faults>>

\* The staged generation becomes the current one.  One that a run still uses is
\* not closed with it.
Commit ==
    /\ task.stage = "load" /\ task.todo = {}
    /\ current' = task.gen
    /\ IF running
       THEN UNCHANGED active
       ELSE active' = task.gen
    /\ IF current # active'
       THEN shut' = shut \cup {current} /\ task' = [task EXCEPT !.stage = "retire", !.old = current]
       ELSE UNCHANGED shut /\ task' = [task EXCEPT !.stage = "retire"]
    /\ UNCHANGED <<world, client, holds, running, failed, waiting, run, closing, faults>>

\* A hook of the old generation may raise: its servers are disconnected all the
\* same, and the caller is told.
Retired ==
    /\ task.stage = "retire"
    /\ Release({task.old} \ {0})
    /\ \/ ReloadEnds(task.raised) /\ UNCHANGED faults
       \/ task.old # 0 /\ ReloadEnds(TRUE) /\ OneFault
    /\ UNCHANGED <<world, shut, current, failed, waiting, closing>>

(******************************** the run **********************************)

BeginRun ==
    /\ run = "none" /\ closing = "no" /\ Len(holds) < MaxGenerations
    /\ run' = "before" /\ waiting' = Append(waiting, "run")
    /\ UNCHANGED <<world, pool, place, failed, task, closing, faults>>

\* before_generation and before_model: a new generation takes over, and the old
\* one is closed after the after_run of its hooks, which may raise.
Round ==
    /\ run = "round"
    /\ IF active = current
       THEN run' = "model" /\ UNCHANGED shut
       ELSE run' = "swap" /\ shut' = shut \cup {active}
    /\ UNCHANGED <<world, client, holds, place, failed, task, waiting, closing, faults>>

Swap ==
    /\ run = "swap" /\ Release({active})
    /\ \/ run' = "model" /\ active' = current /\ UNCHANGED faults
       \/ run' = "after" /\ OneFault /\ UNCHANGED active
    /\ UNCHANGED <<world, shut, current, running, failed, task, waiting, closing>>

\* after_model and after_tools: the response has its calls, and reload is called
\* before and after they are executed.
Boundary ==
    /\ Len(holds) < MaxGenerations
    /\ \/ run = "model" /\ run' = "after_model"
       \/ run = "tools" /\ run' = "after_tools"
    /\ waiting' = Append(waiting, "run")
    /\ UNCHANGED <<world, pool, place, failed, task, closing, faults>>

\* The run ends, or fails or is cancelled outside a reload.
Leave ==
    /\ run \in {"round", "model", "tools"} /\ run' = "after"
    /\ UNCHANGED <<world, pool, place, failed, task, waiting, closing, faults>>

\* A run waits for the lock, and is cancelled while it does.
InLine == \E i \in DOMAIN waiting : waiting[i] = "run"

GivesUp ==
    /\ \E i \in DOMAIN waiting :
          waiting[i] = "run" /\ waiting' = SubSeq(waiting, 1, i - 1) \o SubSeq(waiting, i + 1, Len(waiting))
    /\ run' = "after"

LeaveLine ==
    /\ InLine /\ OneFault /\ GivesUp
    /\ UNCHANGED <<world, pool, place, failed, task, closing>>

\* after_run.
After ==
    /\ run = "after" /\ run' = "ending"
    /\ shut' = IF active # current THEN shut \cup {active} ELSE shut
    /\ UNCHANGED <<world, client, holds, place, failed, task, waiting, closing, faults>>

EndRun ==
    /\ run = "ending" /\ run' = "none"
    /\ Release({active} \ {current})
    /\ active' = current /\ running' = FALSE
    /\ UNCHANGED <<world, shut, current, failed, task, waiting, closing, faults>>

(***************************** settings and host ***************************)

\* retry_mcp: the next reload may try the server again; an idle harness reloads.
Retry(s) ==
    /\ closing = "no" /\ failed[s].origin # 0 /\ ~failed[s].retry
    /\ failed' = [failed EXCEPT ![s].retry = TRUE]
    /\ IF run = "none" THEN waiting' = Append(waiting, "retry") ELSE UNCHANGED waiting
    /\ UNCHANGED <<world, pool, place, task, run, closing, faults>>

Edit ==
    /\ edits < MaxEdits /\ edits' = edits + 1
    /\ \/ \E s \in Servers : origin' = [origin EXCEPT ![s] = @ + 1] /\ UNCHANGED declared
       \/ \E s \in declared : declared' = declared \ {s} /\ UNCHANGED origin
    /\ UNCHANGED <<pool, place, failed, task, waiting, run, closing, faults>>

\* The reader of a client ends with its server.
Dies(c) ==
    /\ client[c].state = "up" /\ OneFault
    /\ client' = [client EXCEPT ![c].state = "down"]
    /\ UNCHANGED <<world, holds, shut, place, failed, task, waiting, run, closing>>

\* close() of the harness cancels and joins the run before aclose.
Close ==
    /\ closing = "no" /\ closing' = "stopping"
    /\ IF InLine
       THEN GivesUp /\ UNCHANGED <<client, shut, task>>
       ELSE /\ UNCHANGED waiting
            /\ run' = IF run \in {"round", "model", "tools"} THEN "after" ELSE run
            /\ IF task.by = "run" /\ task.stage # "load" THEN Cancelled ELSE UNCHANGED <<client, shut, task>>
    /\ UNCHANGED <<world, holds, place, failed, faults>>

\* aclose cancels a reload and then waits for the lock.
BeginDrain ==
    /\ closing = "stopping" /\ run = "none" /\ task.stage # "load"
    /\ closing' = "draining"
    /\ IF task # Idle THEN Cancelled ELSE UNCHANGED <<client, shut, task>>
    /\ UNCHANGED <<world, holds, place, failed, waiting, run, faults>>

Drained ==
    /\ closing = "draining" /\ task = Idle /\ waiting = <<>>
    /\ closing' = "releasing" /\ shut' = shut \cup {active, current}
    /\ UNCHANGED <<world, client, holds, place, failed, task, waiting, run, faults>>

Closed ==
    /\ closing = "releasing" /\ closing' = "done"
    /\ Release({active, current})
    /\ UNCHANGED <<world, shut, place, failed, task, waiting, run, faults>>

Next ==
    \/ BeginReload \/ SetUp \/ Started \/ StartFails \/ Discovered \/ DiscoverFails
    \/ \E s \in Servers : Skip(s) \/ Keep(s) \/ Start(s) \/ Retry(s)
    \/ Reject \/ Cancel \/ Rejected \/ Commit \/ Retired
    \/ BeginRun \/ Round \/ Swap \/ Boundary \/ Leave \/ LeaveLine \/ After \/ EndRun
    \/ Edit \/ (\E c \in DOMAIN client : Dies(c))
    \/ Close \/ BeginDrain \/ Drained \/ Closed

Spec == Init /\ [][Next]_vars

(******************************** properties *******************************)

\* The calls of a response reach the tools it was shown: the generation that a
\* run uses is not closed, and no reload disconnects its servers, nor those of
\* the current generation.
HandlesStayOpen ==
    /\ run \in {"model", "after_model", "tools", "after_tools"} =>
        active \notin shut /\ \A c \in Held(active) : client[c].state # "gone"
    /\ closing \in {"no", "stopping"} =>
        current \notin shut /\ \A c \in Held(current) : client[c].state # "gone"

\* No server process is lost: every one that was started is held by a generation
\* or by the reload that starts it; at rest that is the current generation, and
\* a harness that is closed has none.
ProcessesAreOwned ==
    \A c \in DOMAIN client : client[c].state # "gone" =>
        /\ closing # "done"
        /\ (\E g \in DOMAIN holds : c \in Held(g)) \/ (task.stage = "start" /\ task.client = c)
        /\ (task = Idle /\ run = "none" /\ closing = "no") => c \in Held(current)

\* A connection lives exactly as long as a generation that someone may call.
ConnectionsAreKept == HandlesStayOpen /\ ProcessesAreOwned
=============================================================================
