----------------------------- MODULE MCServices -----------------------------
(* The channel listener with two rows in line, and eight services, each by  *)
(* itself: the initial state picks the one that runs, the others rest.     *)
EXTENDS ChannelListener, ApprovalPromise

CONSTANTS NoId, x1, x2, m1, m2, m3, t1, t2

CONSTANT MaxFaults
\* Of the A2A server.
CONSTANTS Tasks, TaskMessages, ContextOf, MaxActive, MaxAsks
\* Of the wakeups.
CONSTANTS Chats, Chains, Timers, MaxPending, MaxActivations, MaxParallel
\* Of the receipts, whose messages are Messages as well.
CONSTANTS Starts, MaxChatRuns, MaxChildActivations
\* Of the voice requests, which are Messages too.
CONSTANT Room
\* Of the trash, whose messages are Messages again.
CONSTANTS Roots, Channeled, Batch, Retention, MaxTime, MaxRequests, MaxWakes
\* Of the generations of tools.
CONSTANTS Servers, MaxEdits, MaxGenerations, MaxClients
\* Of the voice calls, and of the calls of tools that are approved.
CONSTANT MaxCalls

MCChannelOf == [m \in Messages |-> x1]
MCContextOf == [t \in Tasks |-> 1]

VARIABLES which, astate, aknown, amessages, aclaims, acall, acanceling, arunning,
    aworker, aasked, aupdates, aauth, adeciding, agiven, aacted, aasks, afaults,
    rrow, rrequest, rjournaled, rtarget, radmission, rcreated, rrun, rtask, rchild,
    rreading, rinputs, revents, rreads, rfaults, smember, scontent, sdeletion,
    spurge_at, sblocked, sbinding, srow, sdeleted, srun, stimers, sop, sstarting,
    scursor, sclock, sclaims, srequests, swakes, sfaults, wchain, wtimer, wclaimed,
    wrun, wlanes, wmutating, wguarded, wserve, wchanged, wclosed, wfaults, gpolicy,
    gdefined, genabled, glistening, galive, gcall, gpending, ganswers, gcalls,
    gchanges,
    vlane, vstop, vopen, vobserved, vsubmitted, vpending, vterminal, vowner,
    vstatus, vattached, vclosed, vfailed, vdetached, vheard, vqueue, vrow, vclaim,
    vrun, voutcome, vruns, vfaults, vchat,
    hdeclared, horigin, hclient, hholds, hshut, hcurrent, hactive, hfailed,
    hrunning, htask, hwaiting, hrun, hclosing, hedits, hfaults,
    klane, kpath, kstatus, kstop, kfailed, kready, ksession, kmaker, kbrowser,
    kpc, kknown, kobserver, kattached, kfinalized, klease, kservice, kfaults

server == <<astate, aknown, amessages, aclaims, acall, acanceling, arunning,
    aworker, aasked, aupdates, aauth, adeciding, agiven, aacted, aasks, afaults>>
receipts == <<rrow, rrequest, rjournaled, rtarget, radmission, rcreated, rrun,
    rtask, rchild, rreading, rinputs, revents, rreads, rfaults>>
trash == <<smember, scontent, sdeletion, spurge_at, sblocked, sbinding, srow,
    sdeleted, srun, stimers, sop, sstarting, scursor, sclock, sclaims, srequests,
    swakes, sfaults>>
timers == <<wchain, wtimer, wclaimed, wrun, wlanes, wmutating, wguarded, wserve,
    wchanged, wclosed, wfaults>>
approvals == <<grant, gpolicy, gdefined, genabled, glistening, galive, gcall,
    gpending, ganswers, gcalls, gchanges, shown, executed>>
voice == <<vlane, vstop, vopen, vobserved, vsubmitted, vpending, vterminal, vowner,
    vstatus, vattached, vclosed, vfailed, vdetached, vheard, vqueue, vrow, vclaim,
    vrun, voutcome, vruns, vfaults, vchat>>
tools == <<hdeclared, horigin, hclient, hholds, hshut, hcurrent, hactive, hfailed,
    hrunning, htask, hwaiting, hrun, hclosing, hedits, hfaults>>
calls == <<klane, kpath, kstatus, kstop, kfailed, kready, ksession, kmaker, kbrowser,
    kpc, kknown, kobserver, kattached, kfinalized, klease, kservice, kfaults>>

A == INSTANCE A2AServer WITH
    Messages <- TaskMessages, NoTask <- NoId, NoMessage <- NoId,
    state <- astate, known <- aknown, messages <- amessages, claims <- aclaims,
    call <- acall, canceling <- acanceling, running <- arunning, worker <- aworker,
    asked <- aasked, updates <- aupdates, auth <- aauth, deciding <- adeciding,
    given <- agiven, acted <- aacted, asks <- aasks, faults <- afaults

R == INSTANCE TaskReceipts WITH
    MaxRuns <- MaxChatRuns, MaxActivations <- MaxChildActivations,
    row <- rrow, request <- rrequest, journaled <- rjournaled, target <- rtarget,
    admission <- radmission, created <- rcreated, run <- rrun, task <- rtask,
    child <- rchild, reading <- rreading, inputs <- rinputs, events <- revents,
    reads <- rreads, faults <- rfaults

S == INSTANCE SessionTrash WITH
    member <- smember, content <- scontent, deletion <- sdeletion,
    purge_at <- spurge_at, blocked <- sblocked, binding <- sbinding, row <- srow,
    deleted <- sdeleted, run <- srun, timers <- stimers, op <- sop,
    starting <- sstarting, cursor <- scursor, clock <- sclock, claims <- sclaims,
    requests <- srequests, wakes <- swakes, faults <- sfaults

W == INSTANCE Wakeups WITH
    Roots <- Chats, NoRoot <- NoId, NoChain <- NoId, NoTimer <- NoId,
    chain <- wchain, timer <- wtimer, claimed <- wclaimed, run <- wrun,
    lanes <- wlanes, mutating <- wmutating, guarded <- wguarded, serve <- wserve,
    changed <- wchanged, closed <- wclosed, faults <- wfaults

G == INSTANCE ToolApprovals WITH
    Runs <- {x1}, Bindings <- {m1, m2}, MaxChanges <- 2,
    policy <- gpolicy, defined <- gdefined, enabled <- genabled,
    listening <- glistening, alive <- galive, call <- gcall, pending <- gpending,
    answers <- ganswers, calls <- gcalls, changes <- gchanges

V == INSTANCE VoiceRequests WITH
    Requests <- Messages,
    lane <- vlane, stop <- vstop, open <- vopen, observed <- vobserved, submitted <-
    vsubmitted, pending <- vpending, terminal <- vterminal, owner <- vowner, status
    <- vstatus, attached <- vattached, closed <- vclosed, failed <- vfailed,
    detached <- vdetached, heard <- vheard, queue <- vqueue, row <- vrow, claim <-
    vclaim, run <- vrun, outcome <- voutcome, runs <- vruns, faults <- vfaults, chat
    <- vchat

H == INSTANCE ToolGenerations WITH
    declared <- hdeclared, origin <- horigin, client <- hclient, holds <- hholds,
    shut <- hshut, current <- hcurrent, active <- hactive, failed <- hfailed,
    running <- hrunning, task <- htask, waiting <- hwaiting, run <- hrun,
    closing <- hclosing, edits <- hedits, faults <- hfaults

K == INSTANCE VoiceCalls WITH
    lane <- klane, path <- kpath, status <- kstatus, stop <- kstop,
    failed <- kfailed, ready <- kready, session <- ksession, maker <- kmaker,
    browser <- kbrowser, pc <- kpc, known <- kknown, observer <- kobserver,
    attached <- kattached, finalized <- kfinalized, lease <- klease,
    service <- kservice, faults <- kfaults

ASSUME ServicesAssumption ==
    /\ A!A2AAssumption /\ R!ReceiptsAssumption /\ S!TrashAssumption
    /\ W!WakeupsAssumption /\ G!ApprovalsAssumption /\ V!VoiceAssumption /\ H!GenerationsAssumption
    /\ K!VoiceCallsAssumption

ServicesInit ==
    /\ which \in {"listener", "server", "receipts", "trash", "timers", "approvals", "voice", "tools",
                "calls"}
    /\ Init /\ A!Init /\ R!Init /\ S!Init /\ W!Init /\ G!Init /\ V!Init /\ H!Init /\ K!Init
    /\ which # "receipts" => rchild.activation = 0
    /\ which # "trash" => sbinding = 0
    /\ which # "tools" => hdeclared = {}
    /\ which # "approvals" => glistening[x1] /\ gdefined[x1] = m1

ServicesNext ==
    /\ UNCHANGED which
    /\ \/ which = "listener" /\ Next /\ UNCHANGED <<server, receipts, trash, timers, approvals, voice, tools, calls>>
       \/ which = "server" /\ A!Next /\ UNCHANGED <<vars, receipts, trash, timers, approvals, voice, tools, calls>>
       \/ which = "receipts" /\ R!Next /\ UNCHANGED <<vars, server, trash, timers, approvals, voice, tools, calls>>
       \/ which = "trash" /\ S!Next /\ UNCHANGED <<vars, server, receipts, timers, approvals, voice, tools, calls>>
       \/ which = "timers" /\ W!Next /\ UNCHANGED <<vars, server, receipts, trash, approvals, voice, tools, calls>>
       \/ which = "approvals" /\ G!Next /\ UNCHANGED <<vars, server, receipts, trash, timers, voice, tools, calls>>
       \/ which = "voice" /\ V!Next /\ UNCHANGED <<vars, server, receipts, trash, timers, approvals, tools, calls>>
       \/ which = "tools" /\ H!Next /\ UNCHANGED <<vars, server, receipts, trash, timers, approvals, voice, calls>>
       \/ which = "calls" /\ K!Next /\ UNCHANGED <<vars, server, receipts, trash, timers, approvals, voice, tools>>

ServicesSpec == ServicesInit /\ [][ServicesNext]_<<which, vars, server, receipts, trash, timers, approvals, voice, tools, calls>>

\* A2A messages and approved operations run once, and a task stays as it ended.
OnceAndForAll == A!OnceAndForAll
\* A browser is told the truth about its message to a child agent.
ReceiptIsTrue == R!ReceiptIsTrue
\* Nothing runs in a removed chat, and only what was deleted is purged.
RemovalIsExact == S!RemovalIsExact
\* A chain of wakeups keeps its budget and ends when it is cancelled.
ChainsAreBounded == W!ChainsAreBounded
\* A caller is told the truth about what became of a spoken request.
RequestsAreHonest == V!RequestsAreHonest
\* The connections of MCP servers live as long as a generation of tools that
\* someone may call, and no longer.
ConnectionsAreKept == H!ConnectionsAreKept
\* A voice call leaves nothing open at the provider unless its record says so, and
\* never comes back once it is closing.
CallsEndHonestly == K!CallsEndHonestly
=============================================================================
