------------------------------ MODULE Wakeups --------------------------------
(***************************************************************************)
(* The one-shot wakeups an agent schedules for its chat: the timers, the   *)
(* chain of runs that follows from one human run, and the task that claims *)
(* what is due and gives it a root to run in.                              *)
(*                                                                         *)
(* A human run comes from the inbox, whose lane outlives the run.  Of a    *)
(* run only what matters here is modelled: it may schedule, end, or be     *)
(* stopped.  The activity log the browser reads is left out.               *)
(***************************************************************************)
EXTENDS Naturals, FiniteSets

CONSTANTS
    Roots, Chains, Timers, NoRoot, NoChain, NoTimer,
    MaxPending, MaxActivations,     \* MAX_PENDING, MAX_ACTIVATIONS
    MaxParallel,                    \* MAX_PARALLEL_RUNS
    MaxFaults                       \* bound: stops, settings writes and deletions

WakeupsAssumption ==
    /\ NoRoot \notin Roots /\ NoChain \notin Chains /\ NoTimer \notin Timers
    /\ IsFiniteSet(Roots) /\ IsFiniteSet(Timers)
    /\ {MaxPending, MaxActivations, MaxParallel} \subseteq Nat \ {0} /\ MaxFaults \in Nat

VARIABLES
    chain,      \* Chain: of which root, its activations, cancelled
    timer,      \* Wakeup: pending and the rest, and whether its deadline passed
    claimed,    \* Wakeups._claimed
    run,        \* Executions.runs
    lanes,      \* ChannelHost.work_tasks
    mutating,   \* the root an operation under the mutation guard removes, or NoRoot
    guarded,    \* the mutation guard is held
    serve,      \* _serve: looks, or waits for one of the timers it saw
    changed,    \* the event _serve waits for
    closed, faults

vars == <<chain, timer, claimed, run, lanes, mutating, guarded, serve, changed, closed, faults>>

NoRun == [stage |-> "none", chain |-> NoChain, timer |-> NoTimer]

TypeOK ==
    /\ chain \in [Chains -> [root : Roots \cup {NoRoot}, activations : Nat, cancelled : BOOLEAN]]
    /\ timer \in [Timers -> [status : {"free", "pending", "claimed", "cancelled", "failed"},
                             chain : Chains \cup {NoChain}, due : BOOLEAN]]
    /\ claimed \in [Roots -> Timers \cup {NoTimer}]
    /\ run \in [Roots -> [stage : {"none", "created", "running", "stopping"},
                          chain : Chains \cup {NoChain}, timer : Timers \cup {NoTimer}]]
    /\ lanes \subseteq Roots /\ mutating \in Roots \cup {NoRoot} /\ guarded \in BOOLEAN
    /\ serve \in [waits : BOOLEAN, for : SUBSET Timers]
    /\ changed \in BOOLEAN /\ closed \in BOOLEAN /\ faults \in 0..MaxFaults

Init ==
    /\ chain = [c \in Chains |-> [root |-> NoRoot, activations |-> 0, cancelled |-> FALSE]]
    /\ timer = [t \in Timers |-> [status |-> "free", chain |-> NoChain, due |-> FALSE]]
    /\ claimed = [r \in Roots |-> NoTimer]
    /\ run = [r \in Roots |-> NoRun] /\ lanes = {}
    /\ mutating = NoRoot /\ guarded = FALSE
    /\ serve = [waits |-> FALSE, for |-> {}]
    /\ changed = FALSE /\ closed = FALSE /\ faults = 0

Fault == faults < MaxFaults /\ faults' = faults + 1
Pending == {t \in Timers : timer[t].status = "pending"}
RootOf(t) == chain[timer[t].chain].root
Running == {r \in Roots : run[r] # NoRun}
Occupied == Running \cup lanes
Available(r) == r \notin Occupied /\ Cardinality(Occupied) < MaxParallel
\* WebState.changed: the timers' task is told to look again.
Notify == changed' = TRUE

-----------------------------------------------------------------------------
(* Wakeups *)

\* Mutant: the budget is looked at when a wakeup is scheduled only.
Unlimited(c) == chain[c].activations + 1 > 0

WithinBudget(c) == chain[c].activations < MaxActivations

\* schedule, by a run or one of its child agents.
Schedule(r, t) ==
    /\ run[r].stage = "running" /\ timer[t].status = "free"
    /\ ~closed /\ ~chain[run[r].chain].cancelled
    /\ Cardinality(Pending) < MaxPending /\ WithinBudget(run[r].chain)
    /\ timer' = [timer EXCEPT ![t] = [status |-> "pending", chain |-> run[r].chain, due |-> FALSE]]
    /\ Notify
    /\ UNCHANGED <<chain, claimed, run, lanes, mutating, guarded, serve, closed, faults>>

\* cancel, of each of the chains.
Revoke(revoked) ==
    /\ chain' = [c \in Chains |-> [chain[c] EXCEPT !.cancelled = @ \/ c \in revoked]]
    /\ timer' = [t \in Timers |-> IF t \in Pending /\ timer[t].chain \in revoked
                                  THEN [timer[t] EXCEPT !.status = "cancelled"] ELSE timer[t]]

Eligible == {t \in Pending : claimed[RootOf(t)] = NoTimer /\ Available(RootOf(t))}
Due == {t \in Eligible : timer[t].due}

\* tick and what _serve does after it.  A timer that is due is dropped, if
\* its chain used up its budget, or claimed with its root in one step.
Look ==
    /\ ~serve.waits /\ ~closed
    /\ \/ /\ guarded \/ Due = {}
          /\ serve' = [waits |-> TRUE, for |-> IF guarded THEN {} ELSE Eligible]
          /\ UNCHANGED <<chain, timer, claimed, run>>
       \/ /\ ~guarded
          /\ \E t \in Due :
                LET c == timer[t].chain
                    r == RootOf(t)
                IN  IF WithinBudget(c)
                    THEN /\ timer' = [timer EXCEPT ![t].status = "claimed"]
                         /\ chain' = [chain EXCEPT ![c].activations = @ + 1]
                         /\ claimed' = [claimed EXCEPT ![r] = t]
                         /\ run' = [run EXCEPT ![r] = [stage |-> "created", chain |-> c, timer |-> t]]
                         /\ serve' = [waits |-> TRUE,
                                      for |-> {u \in Eligible : RootOf(u) # r /\ Cardinality(Occupied) + 1 < MaxParallel}]
                    ELSE /\ timer' = [timer EXCEPT ![t].status = "failed"]
                         /\ serve' = [waits |-> TRUE, for |-> Eligible \ {t}]
                         /\ UNCHANGED <<chain, claimed, run>>
    /\ changed' = FALSE
    /\ UNCHANGED <<lanes, mutating, guarded, closed, faults>>

\* The event, or the earliest deadline it saw.
Wake ==
    /\ serve.waits /\ (changed \/ \E t \in serve.for : timer[t].due)
    /\ serve' = [waits |-> FALSE, for |-> {}]
    /\ UNCHANGED <<chain, timer, claimed, run, lanes, mutating, guarded, changed, closed, faults>>

BecomesDue(t) ==
    /\ timer[t].status = "pending" /\ ~timer[t].due
    /\ timer' = [timer EXCEPT ![t].due = TRUE]
    /\ UNCHANGED <<chain, claimed, run, lanes, mutating, guarded, serve, changed, closed, faults>>

\* shutdown: what is pending is given up; runs are stopped by others.
Shutdown ==
    /\ ~closed /\ closed' = TRUE
    /\ Revoke({timer[t].chain : t \in Pending})
    /\ Notify
    /\ UNCHANGED <<claimed, run, lanes, mutating, guarded, serve, faults>>

-----------------------------------------------------------------------------
(* Runs *)

\* A human run: the inbox worker's claim, with a chain of its own.
HumanStarts(r, c) ==
    /\ ~guarded /\ ~closed /\ Available(r)
    /\ chain[c].root = NoRoot
    /\ chain' = [chain EXCEPT ![c].root = r]
    /\ run' = [run EXCEPT ![r] = [stage |-> "running", chain |-> c, timer |-> NoTimer]]
    /\ lanes' = lanes \cup {r}
    /\ UNCHANGED <<timer, claimed, mutating, guarded, serve, changed, closed, faults>>

\* The first step of the task of a claimed timer.
WakeRuns(r) ==
    /\ run[r].stage = "created"
    /\ run' = [run EXCEPT ![r].stage = "running"]
    /\ UNCHANGED <<chain, timer, claimed, lanes, mutating, guarded, serve, changed, closed, faults>>

\* finish: completed, failed, or joined by a stop.  A failure keeps the chain.
RunEnds(r) ==
    /\ run[r].stage \in {"running", "stopping"}
    /\ run' = [run EXCEPT ![r] = NoRun]
    /\ Notify
    /\ UNCHANGED <<chain, timer, claimed, lanes, mutating, guarded, serve, closed, faults>>

\* The finalizer of the inbox claim.
LaneFrees(r) ==
    /\ r \in lanes /\ run[r] = NoRun
    /\ lanes' = lanes \ {r}
    /\ Notify
    /\ UNCHANGED <<chain, timer, claimed, run, mutating, guarded, serve, closed, faults>>

\* _release_claim, after the task of the timer ended.
ClaimEnds(r) ==
    /\ claimed[r] # NoTimer /\ run[r].timer # claimed[r]
    /\ claimed' = [claimed EXCEPT ![r] = NoTimer]
    /\ Notify
    /\ UNCHANGED <<chain, timer, run, lanes, mutating, guarded, serve, closed, faults>>

StopRun(r) == run' = [run EXCEPT ![r].stage = IF @ = "none" THEN @ ELSE "stopping"]

\* stop: the chain of the run is cancelled first.
Stop(r) ==
    /\ Fault
    /\ run[r].stage \in {"created", "running"}
    /\ Revoke({run[r].chain}) /\ StopRun(r)
    /\ Notify
    /\ UNCHANGED <<claimed, lanes, mutating, guarded, serve, closed>>

\* Executions.close stops what still runs.
CloseStops(r) ==
    /\ closed /\ run[r].stage \in {"created", "running"}
    /\ Revoke({run[r].chain}) /\ StopRun(r)
    /\ Notify
    /\ UNCHANGED <<claimed, lanes, mutating, guarded, serve, closed, faults>>

\* A settings write, or the removal of a root, under the mutation guard.
BeginMutation ==
    /\ Fault
    /\ ~guarded /\ ~closed /\ guarded' = TRUE
    /\ mutating' \in Roots \cup {NoRoot}
    /\ UNCHANGED <<chain, timer, claimed, run, lanes, serve, changed, closed>>

\* cancel_session and stop, of the root that is removed.
ReleaseRoot ==
    LET r == mutating
    IN  /\ r # NoRoot /\ (run[r].stage # "stopping")
        /\ Revoke({timer[t].chain : t \in {u \in Pending : RootOf(u) = r} \cup ({claimed[r]} \ {NoTimer})}
                  \cup ({run[r].chain} \ {NoChain}))
        /\ StopRun(r)
        /\ mutating' = NoRoot
        /\ Notify
        /\ UNCHANGED <<claimed, lanes, guarded, serve, closed, faults>>

\* Mutant: the end of a settings write tells nobody.
EndsSilently ==
    /\ guarded /\ mutating = NoRoot
    /\ guarded' = FALSE
    /\ UNCHANGED <<chain, timer, claimed, run, lanes, mutating, serve, changed, closed, faults>>

EndMutation ==
    /\ guarded /\ mutating = NoRoot
    /\ guarded' = FALSE
    /\ Notify
    /\ UNCHANGED <<chain, timer, claimed, run, lanes, mutating, serve, closed, faults>>

ServeStep == Look \/ Wake
RunStep(r) == WakeRuns(r) \/ RunEnds(r) \/ LaneFrees(r) \/ ClaimEnds(r) \/ CloseStops(r)
MutationStep == ReleaseRoot \/ EndMutation

Next ==
    \/ ServeStep \/ MutationStep \/ BeginMutation \/ Shutdown
    \/ \E t \in Timers : BecomesDue(t) \/ \E r \in Roots : Schedule(r, t)
    \/ \E r \in Roots : RunStep(r) \/ Stop(r) \/ \E c \in Chains : HumanStarts(r, c)

Spec == Init /\ [][Next]_vars

\* Time passes, the loop schedules what is ready, runs and mutations end.
Fairness ==
    /\ WF_vars(ServeStep) /\ WF_vars(MutationStep)
    /\ \A t \in Timers : WF_vars(BecomesDue(t))
    /\ \A r \in Roots : WF_vars(RunStep(r))

-----------------------------------------------------------------------------
(* A chain never starts more runs than its budget, although several of its  *)
(* timers may be pending at once; a cancelled chain has no timer left that  *)
(* could fire; a root runs one thing at a time, within the slots; and a     *)
(* timer that runs is the one that was claimed for its root.                *)
ChainsAreBounded ==
    /\ \A c \in Chains :
          /\ chain[c].activations <= MaxActivations
          /\ chain[c].activations = Cardinality({t \in Timers : timer[t].chain = c /\ timer[t].status = "claimed"})
          /\ chain[c].cancelled => \A t \in Pending : timer[t].chain # c
    /\ Cardinality(Pending) <= MaxPending /\ Cardinality(Occupied) <= MaxParallel
    /\ \A r \in Roots : run[r].timer # NoTimer => claimed[r] = run[r].timer /\ r \notin lanes

(* A wakeup whose deadline passed is not forgotten: it is claimed, given up *)
(* or cancelled, however the slots, the lanes and the settings writes come  *)
(* and go while the task that serves it sleeps.                             *)
DueIsServed == \A t \in Timers : (timer[t].status = "pending" /\ timer[t].due) ~> timer[t].status # "pending"
=============================================================================
