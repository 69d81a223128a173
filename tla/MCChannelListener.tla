-------------------------- MODULE MCChannelListener --------------------------
(* The listener with at most two channels, the second one with a message   *)
(* of its own, and the batch jobs, each by itself: the initial state picks *)
(* the one that runs, the other rests.                                     *)
EXTENDS ChannelListener, TLC

CONSTANTS c1, c2, m1, m2, r1, r2,
    Jobs, Named, Requests, OneFile, MaxTasks, MaxAsks, MaxFaults, MaxRestarts  \* of BatchJobs

VARIABLES which, bremote, berrors, brow, bsaved, bknown, bcreating, bentry, bwork,
    btodo, bask, bhanded, bskipped, bdue, bopen, basks, bfaults, brestarts

batch == <<bremote, berrors, brow, bsaved, bknown, bcreating, bentry, bwork, btodo,
    bask, bhanded, bskipped, bdue, bopen, basks, bfaults, brestarts>>

B == INSTANCE BatchJobs WITH
    remote <- bremote, errors <- berrors, row <- brow, saved <- bsaved,
    known <- bknown, creating <- bcreating, entry <- bentry, work <- bwork,
    todo <- btodo, ask <- bask, handed <- bhanded, skipped <- bskipped, due <- bdue,
    open <- bopen, asks <- basks, faults <- bfaults, restarts <- brestarts

ASSUME JobsAssumption == B!BatchAssumption

MCChannelOf == [m \in Messages |-> IF m = m2 /\ c2 \in Channels THEN c2 ELSE c1]
Symmetric == Permutations(Receivers)

ListenerInit == which \in {"listener", "batch"} /\ Init /\ B!Init

ListenerNext ==
    /\ UNCHANGED which
    /\ \/ which = "listener" /\ Next /\ UNCHANGED batch
       \/ which = "batch" /\ B!Next /\ UNCHANGED vars

ListenerSpec == ListenerInit /\ [][ListenerNext]_<<which, vars, batch>>

\* A batch job is marked as processed only after its callback had its results,
\* and what was unprocessed when jobs were resumed is processed or watched.
JobsAreNotLost == B!JobsAreNotLost
=============================================================================
