----------------------------- MODULE MCProgress -----------------------------
(* What may not be forgotten: the channel listener with room for a single  *)
(* message, and five services of the web host.  Each runs by itself: the  *)
(* initial state picks one, and the others rest.                           *)
EXTENDS Naturals, Sequences, FiniteSets

CONSTANTS NoId, c1, c2, m1, m2, t1, t2, x1, x2, worker

VARIABLES which, lrows, lphase, lroutes, laccepting, llive, llock, lrpc, lrmsg,
    lwpc, litem, ltarget, lwcancel, lclean, llistens, lacked, lnotices, lruns, rrow,
    rrequest, rjournaled, rtarget, radmission, rcreated, rrun, rtask, rchild,
    rreading, rinputs, revents, rreads, rfaults, smember, scontent, sdeletion,
    spurge_at, sblocked, sbinding, srow, sdeleted, srun, stimers, sop, sstarting,
    scursor, sclock, sclaims, srequests, swakes, sfaults, dchain, dtimer, dclaimed,
    drun, dlanes, dmutating, dguarded, dserve, dchanged, dclosed, dfaults,
    vlane, vstop, vopen, vobserved, vsubmitted, vpending, vterminal, vowner,
    vstatus, vattached, vclosed, vfailed, vdetached, vheard, vqueue, vrow, vclaim,
    vrun, voutcome, vruns, vfaults, vchat,
    klane, kpath, kstatus, kstop, kfailed, kready, ksession, kmaker, kbrowser,
    kpc, kknown, kobserver, kattached, kfinalized, klease, kservice, kfaults

listener == <<lrows, lphase, lroutes, laccepting, llive, llock, lrpc, lrmsg, lwpc,
    litem, ltarget, lwcancel, lclean, llistens, lacked, lnotices, lruns>>
receipts == <<rrow, rrequest, rjournaled, rtarget, radmission, rcreated, rrun,
    rtask, rchild, rreading, rinputs, revents, rreads, rfaults>>
trash == <<smember, scontent, sdeletion, spurge_at, sblocked, sbinding, srow,
    sdeleted, srun, stimers, sop, sstarting, scursor, sclock, sclaims, srequests,
    swakes, sfaults>>
timers == <<dchain, dtimer, dclaimed, drun, dlanes, dmutating, dguarded, dserve,
    dchanged, dclosed, dfaults>>
voice == <<vlane, vstop, vopen, vobserved, vsubmitted, vpending, vterminal, vowner,
    vstatus, vattached, vclosed, vfailed, vdetached, vheard, vqueue, vrow, vclaim,
    vrun, voutcome, vruns, vfaults, vchat>>
calls == <<klane, kpath, kstatus, kstop, kfailed, kready, ksession, kmaker, kbrowser,
    kpc, kknown, kobserver, kattached, kfinalized, klease, kservice, kfaults>>

L == INSTANCE ChannelListener WITH
    Messages <- {m1, m2}, NoMessage <- NoId, Free <- NoId, Worker <- worker,
    Channels <- {c1}, ChannelOf <- [m \in {m1, m2} |-> c1], Receivers <- {x1},
    InboxLimit <- 1, MaxListens <- 1,
    rows <- lrows, phase <- lphase, routes <- lroutes, accepting <- laccepting,
    live <- llive, lock <- llock, rpc <- lrpc, rmsg <- lrmsg, wpc <- lwpc,
    item <- litem, target <- ltarget, wcancel <- lwcancel, clean <- lclean,
    listens <- llistens, acked <- lacked, notices <- lnotices, runs <- lruns

R == INSTANCE TaskReceipts WITH
    Messages <- {m1}, NoMessage <- NoId, Starts <- {},
    MaxRuns <- 2, MaxActivations <- 2, MaxFaults <- 1,
    row <- rrow, request <- rrequest, journaled <- rjournaled, target <- rtarget,
    admission <- radmission, created <- rcreated, run <- rrun, task <- rtask,
    child <- rchild, reading <- rreading, inputs <- rinputs, events <- revents,
    reads <- rreads, faults <- rfaults

S == INSTANCE SessionTrash WITH
    Roots <- {1, 2}, Messages <- {}, NoMessage <- NoId, Channeled <- {},
    Batch <- 1, Retention <- 1, MaxTime <- 1, MaxRequests <- 2, MaxWakes <- 0, MaxFaults <- 1,
    member <- smember, content <- scontent, deletion <- sdeletion,
    purge_at <- spurge_at, blocked <- sblocked, binding <- sbinding, row <- srow,
    deleted <- sdeleted, run <- srun, timers <- stimers, op <- sop,
    starting <- sstarting, cursor <- scursor, clock <- sclock, claims <- sclaims,
    requests <- srequests, wakes <- swakes, faults <- sfaults

D == INSTANCE Wakeups WITH
    Roots <- {x1, x2}, Chains <- {c1, c2}, Timers <- {t1, t2},
    NoRoot <- NoId, NoChain <- NoId, NoTimer <- NoId,
    MaxPending <- 2, MaxActivations <- 1, MaxParallel <- 1, MaxFaults <- 1,
    chain <- dchain, timer <- dtimer, claimed <- dclaimed, run <- drun,
    lanes <- dlanes, mutating <- dmutating, guarded <- dguarded, serve <- dserve,
    changed <- dchanged, closed <- dclosed, faults <- dfaults

V == INSTANCE VoiceRequests WITH
    Requests <- {m1}, Room <- 1, MaxFaults <- 1,
    lane <- vlane, stop <- vstop, open <- vopen, observed <- vobserved, submitted <-
    vsubmitted, pending <- vpending, terminal <- vterminal, owner <- vowner, status
    <- vstatus, attached <- vattached, closed <- vclosed, failed <- vfailed,
    detached <- vdetached, heard <- vheard, queue <- vqueue, row <- vrow, claim <-
    vclaim, run <- vrun, outcome <- voutcome, runs <- vruns, faults <- vfaults, chat
    <- vchat

K == INSTANCE VoiceCalls WITH
    MaxCalls <- 1, MaxFaults <- 1,
    lane <- klane, path <- kpath, status <- kstatus, stop <- kstop,
    failed <- kfailed, ready <- kready, session <- ksession, maker <- kmaker,
    browser <- kbrowser, pc <- kpc, known <- kknown, observer <- kobserver,
    attached <- kattached, finalized <- kfinalized, lease <- klease,
    service <- kservice, faults <- kfaults

Init ==
    /\ which \in {"listener", "receipts", "trash", "timers", "voice", "calls"}
    /\ L!Init /\ R!Init /\ S!Init /\ D!Init /\ V!Init /\ K!Init
    /\ which # "receipts" => rchild.activation = 0
    /\ which # "trash" => sbinding = 0

\* Bound: a second wakeup, a stop or a settings write, and a shutdown are each in
\* behaviours of their own.
OneAtATime ==
    /\ dtimer[t2].status = "free" \/ (dfaults = 0 /\ ~dclosed)
    /\ dclosed => dfaults = 0

Next ==
    /\ UNCHANGED which
    /\ \/ which = "listener" /\ L!Next /\ UNCHANGED <<receipts, trash, timers, voice, calls>>
       \/ which = "receipts" /\ R!Next /\ UNCHANGED <<listener, trash, timers, voice, calls>>
       \/ which = "trash" /\ S!Next /\ UNCHANGED <<listener, receipts, timers, voice, calls>>
       \/ which = "timers" /\ D!Next /\ OneAtATime' /\ UNCHANGED <<listener, receipts, trash, voice, calls>>
       \/ which = "voice" /\ V!Next /\ UNCHANGED <<listener, receipts, trash, timers, calls>>
       \/ which = "calls" /\ K!Next /\ UNCHANGED <<listener, receipts, trash, timers, voice>>

vars == <<which, listener, receipts, trash, timers, voice, calls>>

\* Only one component runs, and its steps are those that the fairness is about.
\* One condition serves the web services, weaker than one for every actor.
Steps ==
    \/ /\ which = "receipts" /\ (R!RequestStep(m1) \/ R!ChildStep \/ R!RunStep)
       /\ UNCHANGED <<trash, timers, voice, calls>>
    \/ /\ which = "trash" /\ (S!OpStep \/ S!Launch \/ S!BeginSweep \/ (\E r \in {1, 2} : S!RunEnds(r)))
       /\ UNCHANGED <<receipts, timers, voice, calls>>
    \/ /\ which = "timers"
       /\ \/ D!ServeStep \/ D!MutationStep
          \/ (\E t \in {t1, t2} : D!BecomesDue(t)) \/ (\E r \in {x1, x2} : D!RunStep(r))
       /\ UNCHANGED <<receipts, trash, voice, calls>>
    \/ which = "voice" /\ V!Progress /\ UNCHANGED <<receipts, trash, timers, calls>>
    \/ which = "calls" /\ K!Progress /\ UNCHANGED <<receipts, trash, timers, voice>>

Fairness == L!Fairness /\ WF_<<receipts, trash, timers, voice, calls>>(Steps)

Spec == Init /\ [][Next]_vars /\ Fairness

\* Queued work is taken while the listener stays up, and a listener that is told
\* to stop ends its cleanup.
ListenerServes == L!QueuedIsTaken /\ L!StopEnds
\* A browser is told in the end what became of its message to a child.
ReceiptSettles == R!ReceiptSettles
\* A chat whose recovery period is over is purged in the end.
ExpiredIsPurged == S!ExpiredIsPurged
\* A wakeup that is due is not forgotten.
DueIsServed == D!DueIsServed
\* A spoken request is settled after its call.
RequestsSettle == V!RequestsSettle
\* A call that is to end frees the lane, and answers those who wait for it.
CallsAreFreed == K!CallsAreFreed
=============================================================================
