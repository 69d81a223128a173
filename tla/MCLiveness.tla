----------------------------- MODULE MCLiveness -----------------------------
(* The liveness of four components, each by itself: the initial state     *)
(* picks the one that runs, and the others rest in their initial states,   *)
(* where their fairness asks for nothing.                                  *)
EXTENDS Naturals, Sequences, FiniteSets

CONSTANTS NoId, t1, t2, Root, c1, c2, m1, m3, m4, a, b, chat, NoChat

VARIABLES which,
    tphase, ttodo, tactive, tstopped, tchanged, tready, tpending, tlineage,
    tstatus, twork, tcancel, tjoining, tused, tstarted, tcalls,
    alog, aboundary, apc, around, acalls, afailed, apos, aat, aoutcome, atodo,
    arequest, astarts, aruns, afaults, acompactions,
    inbox, status, notify, worker, mutating, closing, task, run, pull, claimed,
    pending, changed, read, events,
    bremote, berrors, brow, bsaved, bknown, bcreating, bentry, bwork, btodo, bask,
    bhanded, bskipped, bdue, bopen, basks, bfaults, brestarts

tree == <<tphase, ttodo, tactive, tstopped, tchanged, tready, tpending,
          tlineage, tstatus, twork, tcancel, tjoining, tused, tstarted,
          tcalls>>
agent == <<alog, aboundary, apc, around, acalls, afailed, apos, aat,
           aoutcome, atodo, arequest, astarts, aruns, afaults, acompactions>>
web == <<inbox, status, notify, worker, mutating, closing, task, run, pull,
         claimed, pending, changed, read, events>>

T == INSTANCE SubagentTree WITH
    NoTask <- NoId, Tasks <- {t1, t2}, Calls <- {c1},
    MaxDepth <- 2, MaxSlots <- 2, MaxExecutions <- 3,
    phase <- tphase, todo <- ttodo, active <- tactive, stopped <- tstopped,
    changed <- tchanged, ready <- tready, pending <- tpending, lineage <- tlineage,
    status <- tstatus, work <- twork, cancel <- tcancel, joining <- tjoining,
    used <- tused, started <- tstarted, calls <- tcalls

A == INSTANCE AgentRun WITH
    CallIds <- {c1, c2}, NoCall <- NoId, MaxToolRounds <- 2, FailFast <- FALSE,
    MaxRuns <- 1, MaxFaults <- 1, MaxCompactions <- 1,
    log <- alog, boundary <- aboundary, pc <- apc, round <- around, calls <- acalls,
    failed <- afailed, pos <- apos, at <- aat, outcome <- aoutcome, todo <- atodo,
    request <- arequest, starts <- astarts, runs <- aruns, faults <- afaults,
    compactions <- acompactions

Rows == {m1, m3, m4}
W == INSTANCE WebHost WITH
    Roots <- {a, b}, Chats <- {chat}, NoRow <- NoId,
    RootOf <- [m \in Rows |-> IF m = m1 THEN a ELSE b],
    ChatOf <- [m \in Rows |-> IF m = m1 THEN NoChat ELSE chat],
    KindOf <- [m \in Rows |-> IF m = m1 THEN "input" ELSE IF m = m3 THEN "compact" ELSE "ack"],
    SubmitModes <- {"steer", "interrupt"}, MaxRuns <- 1, MaxEvents <- 1

batch == <<bremote, berrors, brow, bsaved, bknown, bcreating, bentry, bwork, btodo, bask,
    bhanded, bskipped, bdue, bopen, basks, bfaults, brestarts>>

B == INSTANCE BatchJobs WITH
    Jobs <- {1}, Named <- {1}, Requests <- {m1}, OneFile <- TRUE,
    MaxTasks <- 1, MaxAsks <- 0, MaxFaults <- 1, MaxRestarts <- 0,
    remote <- bremote, errors <- berrors, row <- brow, saved <- bsaved,
    known <- bknown, creating <- bcreating, entry <- bentry, work <- bwork,
    todo <- btodo, ask <- bask, handed <- bhanded, skipped <- bskipped, due <- bdue,
    open <- bopen, asks <- basks, faults <- bfaults, restarts <- brestarts

Init == which \in {"tree", "agent", "web", "batch"} /\ T!Init /\ A!Init /\ W!Init /\ B!Init

Next ==
    /\ UNCHANGED which
    /\ \/ which = "tree" /\ T!Next /\ UNCHANGED <<agent, web, batch>>
       \/ which = "agent" /\ A!Next /\ UNCHANGED <<tree, web, batch>>
       \/ which = "web" /\ W!Next /\ UNCHANGED <<tree, agent, batch>>
       \/ which = "batch" /\ B!Next /\ UNCHANGED <<tree, agent, web>>

vars == <<which, tree, agent, web, batch>>

\* Jobs may be resumed at any time: their fairness is for when they run.
BatchFairness ==
    /\ \A x \in B!Actors : WF_batch(which = "batch" /\ B!ActorStep(x))
    /\ WF_batch(which = "batch" /\ (B!SaveBatch(1) \/ B!Created(1)))
    /\ WF_batch(which = "batch" /\ (B!BeginResume \/ B!ResumeStep))

Spec == Init /\ [][Next]_vars /\ T!Fairness /\ WF_agent(A!Steps) /\ W!Fairness /\ BatchFairness

\* A stopped root run ends: the workers it cancels and joins end at every depth.
StopEnds == T!StopEnds
\* A run ends, whatever fails.
RunsEnd == A!RunsEnd
\* Every accepted message is claimed while the web host stays up, and a close
\* of the host ends with no row left running.
WebServes == W!QueuedIsTaken /\ W!CloseEnds
\* A finished batch job that a task watches is processed.
WatchedIsHandled == B!WatchedIsHandled
=============================================================================
