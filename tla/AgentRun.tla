------------------------------ MODULE AgentRun ------------------------------
(***************************************************************************)
(* Agent.run in text mode: the loop of model rounds and tool calls over    *)
(* the durable history of one session (agent.py), with what the session    *)
(* manager does for it (session/manager.py).                               *)
(*                                                                         *)
(* The history is the only thing that survives.  A model response that     *)
(* asks for tools is persisted as one assistant message holding all its    *)
(* calls (a block) BEFORE the first tool runs; each result is persisted    *)
(* when its tool returns.  A run can be left anywhere - cancelled, its     *)
(* iterator closed, a plugin or the store failing, the process dying - so  *)
(* a block may be left half answered.  The end of every run and the start  *)
(* of the next re-read the history and answer whatever is pending with     *)
(* "outcome unknown", without running the tool again.                      *)
(*                                                                         *)
(* Runs and compactions of one session are serialized by the caller (the   *)
(* docstring of Agent.run demands it), so there is one program counter.    *)
(* Providers number calls per response, so CallIds repeat between blocks.  *)
(***************************************************************************)
EXTENDS Naturals, Sequences, FiniteSets

CONSTANTS CallIds,        \* the call ids a provider hands out
          NoCall,         \* "no tool_call_id"
          MaxToolRounds,  \* Agent.max_tool_rounds
          FailFast,       \* Agent.fail_on_invalid_tool
          MaxRuns,        \* bound: runs and manual compactions started
          MaxFaults,      \* bound: interruptions, store errors and crashes
          MaxCompactions  \* bound: contexts replaced

ASSUME CallsAssumption == NoCall \notin CallIds
ASSUME BoundsAssumption ==
    /\ MaxToolRounds \in Nat /\ MaxRuns \in Nat
    /\ MaxFaults \in Nat /\ MaxCompactions \in Nat
    /\ FailFast \in BOOLEAN

VARIABLES log,        \* v2_messages of the session, in id order
          boundary,   \* compacted_at_message_id, inclusive
          pc,         \* where the run is
          round,      \* round_num
          calls,      \* pending_tool_calls of the response being read
          failed,     \* has_error
          pos,        \* call_position
          at,         \* the row of the block being executed
          outcome,    \* what the tool just returned
          todo,       \* pending of _repair_tool_calls: positions of calls
          request,    \* ModelRequest.messages of the response being read
          starts,     \* ghost: the calls whose tool was started, in order
          runs, faults, compactions

vars == <<log, boundary, pc, round, calls, failed, pos, at, outcome, todo,
          request, starts, runs, faults, compactions>>

\* the variables of one turn through the loop, which an unwinding leaves alone
turn == <<round, calls, failed, pos, at, outcome>>

-----------------------------------------------------------------------------
Kinds == {"user", "text", "calls", "result", "summary"}
\* What a result says: what the tool returned or raised ("value"), that there
\* is no such tool ("missing"), or that nobody knows.
Outcomes == {"none", "value", "missing", "unknown"}

\* One row; copy marks the rows that replace_context wrote.
Message == [kind : Kinds, calls : Seq(CallIds), id : CallIds \cup {NoCall},
            outcome : Outcomes, copy : BOOLEAN]

Plain(k) == [kind |-> k, calls |-> <<>>, id |-> NoCall,
             outcome |-> "none", copy |-> FALSE]
Block(cs) == [Plain("calls") EXCEPT !.calls = cs]
Result(c, o) == [Plain("result") EXCEPT !.id = c, !.outcome = o]

\* SessionManager.get_history: the rows from the boundary on.
History == SubSeq(log, boundary, Len(log))

\* The calls of the active history without a result after them, by position.
\* The code keeps a dict by call id, so of two such calls with one id the
\* first one stands.
Unanswered(l, i, p) ==
    \A j \in i..Len(l) : ~ (l[j].kind = "result" /\ l[j].id = l[i].calls[p])

Earlier(a, b) == a[1] < b[1] \/ (a[1] = b[1] /\ a[2] < b[2])

Positions(l) == UNION {{<<i, p>> : p \in DOMAIN l[i].calls} : i \in boundary..Len(l)}

CallAt(l, a) == l[a[1]].calls[a[2]]

Pending(l) ==
    {a \in Positions(l) :
        /\ Unanswered(l, a[1], a[2])
        /\ \A b \in Positions(l) :
             (Unanswered(l, b[1], b[2]) /\ CallAt(l, b) = CallAt(l, a)) => ~ Earlier(b, a)}

\* _validate_context: no result without its call, no other message before a
\* block is answered, no id used twice.
ValidContext(h) ==
    /\ h # <<>>
    /\ \A i, j \in DOMAIN h : \A p \in DOMAIN h[i].calls : \A q \in DOMAIN h[j].calls :
          h[i].calls[p] = h[j].calls[q] => i = j /\ p = q
    /\ \A j \in DOMAIN h : h[j].kind = "result" =>
          \E i \in 1..(j - 1) :
             /\ \E p \in DOMAIN h[i].calls : h[i].calls[p] = h[j].id
             /\ \A k \in (i + 1)..(j - 1) : h[k].kind = "result" /\ h[k].id # h[j].id
    /\ \A i \in DOMAIN h : \A p \in DOMAIN h[i].calls :
          \E j \in (i + 1)..Len(h) :
             /\ h[j].kind = "result" /\ h[j].id = h[i].calls[p]
             /\ \A k \in (i + 1)..(j - 1) : h[k].kind = "result"

\* What a CompactionStrategy may return: its summary, and the last k messages
\* it was given.
Replacement(k) ==
    <<Plain("summary")>> \o SubSeq(History, Len(History) - k + 1, Len(History))

Copies(h) == [i \in 1..Len(h) |-> [h[i] EXCEPT !.copy = TRUE]]

-----------------------------------------------------------------------------
Init ==
    /\ log = <<>>
    /\ boundary = 1
    /\ pc = "idle"
    /\ round = 0
    /\ calls = <<>>
    /\ failed = FALSE
    /\ pos = 1
    /\ at = 0
    /\ outcome = "none"
    /\ todo = {}
    /\ request = <<>>
    /\ starts = <<>>
    /\ runs = 0
    /\ faults = 0
    /\ compactions = 0

\* The locals of a round that is over.
EndRound ==
    /\ calls' = <<>>
    /\ failed' = FALSE
    /\ pos' = 1
    /\ at' = 0
    /\ outcome' = "none"
    /\ request' = <<>>

\* The locals of a run that is over.
Forget == round' = 0 /\ EndRound

\* Mutant: the cleanup repairs the history the run remembers, not the durable one.
CloseStale(l) ==
    /\ pc' = "closing"
    /\ log' = l
    /\ todo' = Pending(log)
    /\ Forget
    /\ UNCHANGED boundary

\* Leave the loop with the rows l: the finally clause closes the stream and
\* re-reads the history, whatever it holds by now.
Close(l) ==
    /\ pc' = "closing"
    /\ log' = l
    /\ todo' = Pending(l)
    /\ Forget
    /\ UNCHANGED boundary

-----------------------------------------------------------------------------
(* One run, from its first repair to the last. *)

\* _run_interaction, to the history read of _repair_tool_calls.
BeginRun ==
    /\ pc = "idle"
    /\ runs < MaxRuns
    /\ runs' = runs + 1
    /\ pc' = "opening"
    /\ todo' = Pending(log)
    /\ UNCHANGED <<log, boundary, turn, request, starts, faults, compactions>>

\* The call a repair answers next, in the order of the dict.
First == {a \in todo : \A b \in todo \ {a} : Earlier(a, b)}

Repaired(a) == Append(log, Result(CallAt(log, a), "unknown"))

\* One add_message of _repair_tool_calls.
Repair ==
    /\ pc \in {"opening", "closing"}
    /\ \E a \in First :
          /\ log' = Repaired(a)
          /\ todo' = todo \ {a}
    /\ UNCHANGED <<boundary, pc, turn, request, starts, runs, faults, compactions>>

\* The history is repaired: plugins see the message, then it is persisted.
Opened ==
    /\ pc = "opening"
    /\ todo = {}
    /\ pc' = "user"
    /\ UNCHANGED <<log, boundary, turn, todo, request, starts, runs, faults, compactions>>

AddUser ==
    /\ pc = "user"
    /\ log' = Append(log, Plain("user"))
    /\ pc' = "round"
    /\ round' = 0
    /\ UNCHANGED <<boundary, calls, failed, pos, at, outcome, todo, request, starts,
                   runs, faults, compactions>>

\* The compaction before a round: asked for, or due.
Compact ==
    /\ pc = "round"
    /\ round < MaxToolRounds
    /\ compactions < MaxCompactions
    /\ pc' = "compacting"
    /\ UNCHANGED <<log, boundary, turn, todo, request, starts, runs, faults, compactions>>

\* Agent.compact: by hand, between runs, on whatever history there is.
BeginManual ==
    /\ pc = "idle"
    /\ runs < MaxRuns
    /\ compactions < MaxCompactions
    /\ runs' = runs + 1
    /\ pc' = "manual"
    /\ UNCHANGED <<log, boundary, turn, todo, request, starts, faults, compactions>>

\* Mutant: what a strategy returns is trusted.
ReplaceUnchecked(k) ==
    /\ pc \in {"compacting", "manual"}
    /\ k \in 0..Len(History)
    /\ compactions < MaxCompactions
    /\ compactions' = compactions + 1
    /\ log' = log \o Copies(Replacement(k))
    /\ boundary' = Len(log) + 1
    /\ pc' = IF pc = "manual" THEN "idle" ELSE "generate"
    /\ UNCHANGED <<turn, todo, request, starts, runs, faults>>

\* replace_context: validate, append the copies and move the boundary at once.
Replace(k) ==
    /\ pc \in {"compacting", "manual"}
    /\ k \in 0..Len(History)
    /\ ValidContext(Replacement(k))
    /\ compactions < MaxCompactions
    /\ compactions' = compactions + 1
    /\ log' = log \o Copies(Replacement(k))
    /\ boundary' = Len(log) + 1
    /\ pc' = IF pc = "manual" THEN "idle" ELSE "generate"
    /\ UNCHANGED <<turn, todo, request, starts, runs, faults>>

\* replace_context refuses what the strategy returned: the run fails.
Refuse(k) ==
    /\ pc \in {"compacting", "manual"}
    /\ k \in 0..Len(History)
    /\ ~ ValidContext(Replacement(k))
    /\ IF pc = "manual"
         THEN pc' = "idle" /\ UNCHANGED <<log, boundary, turn, todo, request>>
         ELSE Close(log)
    /\ UNCHANGED <<starts, runs, faults, compactions>>

\* No compaction: the round goes on with the history it read.
NoCompact ==
    /\ pc = "round"
    /\ round < MaxToolRounds
    /\ pc' = "generate"
    /\ UNCHANGED <<log, boundary, turn, todo, request, starts, runs, faults, compactions>>

\* max_tool_rounds is used up: an error event, DoneEvent, and the cleanup.
RoundsExhausted ==
    /\ pc = "round"
    /\ round >= MaxToolRounds
    /\ Close(log)
    /\ UNCHANGED <<starts, runs, faults, compactions>>

Generate ==
    /\ pc = "generate"
    /\ pc' = "streaming"
    /\ request' = History
    /\ calls' = <<>>
    /\ failed' = FALSE
    /\ UNCHANGED <<log, boundary, round, pos, at, outcome, todo, starts,
                   runs, faults, compactions>>

-----------------------------------------------------------------------------
(* The provider's stream. *)

Asked(c) == \E p \in DOMAIN calls : calls[p] = c

StreamCall(c) ==
    /\ pc = "streaming"
    /\ ~ Asked(c)
    /\ calls' = Append(calls, c)
    /\ UNCHANGED <<log, boundary, pc, round, failed, pos, at, outcome, todo, request,
                   starts, runs, faults, compactions>>

\* "Tool calls require unique nonempty IDs": the run raises.
StreamDuplicate(c) ==
    /\ pc = "streaming"
    /\ Asked(c)
    /\ Close(log)
    /\ UNCHANGED <<starts, runs, faults, compactions>>

StreamError ==
    /\ pc = "streaming"
    /\ ~ failed
    /\ failed' = TRUE
    /\ UNCHANGED <<log, boundary, pc, round, calls, pos, at, outcome, todo, request,
                   starts, runs, faults, compactions>>

\* An unrecoverable error ends the run without persisting the response.
StreamFatal ==
    /\ pc = "streaming"
    /\ Close(log)
    /\ UNCHANGED <<starts, runs, faults, compactions>>

\* Mutant: a retry is not a round of its own.
RetryForever ==
    /\ pc = "streaming"
    /\ failed
    /\ pc' = "round"
    /\ EndRound
    /\ UNCHANGED <<log, boundary, round, todo, starts, runs, faults, compactions>>

\* The stream ended after a recoverable error: the next round asks again, the
\* calls already streamed are dropped.
Retry ==
    /\ pc = "streaming"
    /\ failed
    /\ pc' = "round"
    /\ round' = round + 1
    /\ EndRound
    /\ UNCHANGED <<log, boundary, todo, starts, runs, faults, compactions>>

\* The stream ended well.  An answer without calls ends the run; it is
\* persisted only if it has text.
StreamEnd ==
    /\ pc = "streaming"
    /\ ~ failed
    /\ \/ /\ calls # <<>>
          /\ pc' = "block"
          /\ request' = <<>>
          /\ UNCHANGED <<log, boundary, turn, todo>>
       \/ /\ calls = <<>>
          /\ pc' = "text"
          /\ request' = <<>>
          /\ UNCHANGED <<log, boundary, turn, todo>>
       \/ /\ calls = <<>>
          /\ Close(log)
    /\ UNCHANGED <<starts, runs, faults, compactions>>

AddText ==
    /\ pc = "text"
    /\ Close(Append(log, Plain("text")))
    /\ UNCHANGED <<starts, runs, faults, compactions>>

-----------------------------------------------------------------------------
(* The tool calls of one block, in order. *)

AddBlock ==
    /\ pc = "block"
    /\ log' = Append(log, Block(calls))
    /\ at' = Len(log) + 1
    /\ pos' = 1
    /\ pc' = "tool"
    /\ UNCHANGED <<boundary, round, calls, failed, outcome, todo, request, starts,
                   runs, faults, compactions>>

\* tool_executor.execute: from here the outside world may have changed.
StartTool ==
    /\ pc = "tool"
    /\ starts' = Append(starts, <<at, calls[pos]>>)
    /\ pc' = "executing"
    /\ UNCHANGED <<log, boundary, turn, todo, request, runs, faults, compactions>>

\* Mutant: a tool that failed is tried again.
ToolRetried(o) ==
    /\ pc = "executing"
    /\ outcome' = o
    /\ pc' = IF o = "missing" THEN "tool" ELSE "result"
    /\ UNCHANGED <<log, boundary, round, calls, failed, pos, at, todo, request, starts,
                   runs, faults, compactions>>

ToolReturns(o) ==
    /\ pc = "executing"
    /\ outcome' = o
    /\ pc' = "result"
    /\ UNCHANGED <<log, boundary, round, calls, failed, pos, at, todo, request, starts,
                   runs, faults, compactions>>

\* The result is persisted, then: a call of a tool that does not exist may
\* fail the run, the next call runs, or the block is done.
AddResult ==
    /\ pc = "result"
    /\ LET answered == Append(log, Result(calls[pos], outcome))
       IN  \/ /\ FailFast /\ outcome = "missing"
              /\ Close(answered)
           \/ /\ ~ (FailFast /\ outcome = "missing")
              /\ log' = answered
              /\ IF pos < Len(calls)
                   THEN /\ pc' = "tool"
                        /\ pos' = pos + 1
                        /\ UNCHANGED <<round, calls, failed, at, outcome, request>>
                   ELSE /\ pc' = "round"
                        /\ round' = round + 1
                        /\ EndRound
              /\ UNCHANGED <<boundary, todo>>
    /\ UNCHANGED <<starts, runs, faults, compactions>>

-----------------------------------------------------------------------------
(* Leaving the loop. *)

EndRun ==
    /\ pc = "closing"
    /\ todo = {}
    /\ pc' = "idle"
    /\ UNCHANGED <<log, boundary, turn, todo, request, starts, runs, faults, compactions>>

\* The history with the add_message under way, for the pcs that have one: a
\* write already accepted commits even when its caller is cancelled or dies.
Committed ==
    CASE pc = "user"   -> {Append(log, Plain("user"))}
      [] pc = "text"   -> {Append(log, Plain("text"))}
      [] pc = "block"  -> {Append(log, Block(calls))}
      [] pc = "result" -> {Append(log, Result(calls[pos], outcome))}
      [] pc \in {"opening", "closing"} -> {Repaired(a) : a \in First}
      [] OTHER -> {}

\* Mutant: a call given up before it starts is answered "unknown" at once, and
\* the loop goes on with it.
InterruptSwallowed ==
    /\ pc \notin {"idle", "closing", "manual"}
    /\ faults < MaxFaults
    /\ faults' = faults + 1
    /\ IF pc = "tool"
         THEN /\ log' = Append(log, Result(calls[pos], "unknown"))
              /\ UNCHANGED <<boundary, pc, turn, todo, request>>
         ELSE \E l \in {log} \cup Committed : Close(l)
    /\ UNCHANGED <<starts, runs, compactions>>

\* Cancellation, a closed iterator, a plugin or tool that raises, a store
\* error: anywhere in the run but in its cleanup, which is finished first.
Interrupt ==
    /\ pc \notin {"idle", "closing", "manual"}
    /\ faults < MaxFaults
    /\ faults' = faults + 1
    /\ \E l \in {log} \cup Committed : Close(l)
    /\ UNCHANGED <<starts, runs, compactions>>

\* The store fails in the cleanup, or a manual compaction is given up: the
\* error is raised, what is pending stays pending.
GiveUp ==
    /\ pc = "manual" \/ (pc = "closing" /\ todo # {})
    /\ faults < MaxFaults
    /\ faults' = faults + 1
    /\ log' \in {log} \cup Committed
    /\ pc' = "idle"
    /\ todo' = {}
    /\ UNCHANGED <<boundary, turn, request, starts, runs, compactions>>

\* The process dies; the next one knows the history and nothing else.
Crash ==
    /\ pc # "idle"
    /\ faults < MaxFaults
    /\ faults' = faults + 1
    /\ log' \in {log} \cup Committed
    /\ pc' = "idle"
    /\ todo' = {}
    /\ Forget
    /\ UNCHANGED <<boundary, starts, runs, compactions>>

-----------------------------------------------------------------------------
Steps ==
    \/ Repair \/ Opened \/ AddUser \/ Compact \/ NoCompact \/ RoundsExhausted
    \/ Generate \/ StreamError \/ StreamFatal \/ Retry \/ StreamEnd \/ AddText
    \/ AddBlock \/ StartTool \/ AddResult \/ EndRun
    \/ \E c \in CallIds : StreamCall(c) \/ StreamDuplicate(c)
    \/ \E o \in {"value", "missing"} : ToolReturns(o)
    \/ \E k \in 0..Len(History) : Replace(k) \/ Refuse(k)

Next == Steps \/ BeginRun \/ BeginManual \/ Interrupt \/ GiveUp \/ Crash

Spec == Init /\ [][Next]_vars

\* The event loop keeps running the run's task; the provider ends its stream
\* and tools return.
FairSpec == Spec /\ WF_vars(Steps)

-----------------------------------------------------------------------------
(* What must hold. *)

Pcs == {"idle", "opening", "user", "round", "compacting", "manual", "generate",
        "streaming", "block", "tool", "executing", "result", "text", "closing"}

TypeOK ==
    /\ log \in Seq(Message)
    /\ boundary \in 1..(Len(log) + 1)
    /\ pc \in Pcs
    /\ round \in 0..MaxToolRounds
    /\ calls \in Seq(CallIds)
    /\ failed \in BOOLEAN
    /\ pos \in Nat \ {0}
    /\ at \in Nat
    /\ outcome \in Outcomes
    /\ todo \subseteq (1..Len(log)) \X (Nat \ {0})
    /\ request \in Seq(Message)
    /\ starts \in Seq(Nat \X CallIds)
    /\ runs \in 0..MaxRuns
    /\ faults \in 0..MaxFaults
    /\ compactions \in 0..MaxCompactions

\* Block i of the rows h is answered: the results of its calls, and nothing
\* else, follow it in the order of the calls.
Answered(h, i) ==
    \A p \in DOMAIN h[i].calls :
        /\ i + p \in DOMAIN h
        /\ h[i + p].kind = "result"
        /\ h[i + p].id = h[i].calls[p]

\* Result j belongs to a block of h.
Owned(h, j) ==
    \E i \in 1..(j - 1) : j - i \in DOMAIN h[i].calls /\ h[j].id = h[i].calls[j - i]

\* No request shows the model a tool call without its answer, an answer
\* without its call, or answers out of order: whatever interrupted the runs
\* before, and whatever compaction kept.  Providers refuse such a request, so
\* a session that broke this could never be used again.
RequestsAreComplete ==
    pc = "streaming" =>
        /\ request # <<>>
        /\ \A i \in DOMAIN request : Answered(request, i)
        /\ \A j \in DOMAIN request : request[j].kind = "result" => Owned(request, j)

\* A block of the active history is left open by nothing but a run that is
\* still at it: behind an open block there is never another message than the
\* answers it already has, so the repair that comes next completes it in place.
OnlyTheLastIsOpen ==
    \A i \in boundary..Len(log) :
        ~ Answered(log, i) =>
            \A j \in (i + 1)..Len(log) :
                log[j].kind = "result" /\ log[j].id = log[i].calls[j - i]

\* What a provider is sent is complete, and so it can be made again whenever a
\* run stops.
ContextsStayValid == RequestsAreComplete /\ OnlyTheLastIsOpen

\* A tool is started at most once for each call a response asked for, through
\* every cancellation, retry, repair, crash and new run.
NeverReplayed ==
    \A m, n \in DOMAIN starts : starts[m] = starts[n] => m = n

\* A tool runs only for a call that is already durable: a crash in it leaves a
\* row from which the next run learns that the outcome is unknown.
StartsAreDurable ==
    \A n \in DOMAIN starts :
        LET i == starts[n][1] IN
        /\ i \in DOMAIN log
        /\ \E p \in DOMAIN log[i].calls : log[i].calls[p] = starts[n][2]

\* A run whose cleanup was not cut short leaves nothing pending behind.
RunsLeaveNothingPending ==
    [][(pc = "closing" /\ pc' = "idle" /\ faults' = faults) => Pending(log') = {}]_vars

\* The calls of the rows that a response wrote, by row and id, and those of
\* them that the history answers so or so: with the results right behind them.
IssuedCalls == UNION {{<<i, log[i].calls[p]>> : p \in DOMAIN log[i].calls} :
                          i \in {i \in DOMAIN log : ~ log[i].copy}}

AnsweredWith(os) ==
    UNION {{<<i, log[i].calls[p]>> :
               p \in {p \in DOMAIN log[i].calls :
                         /\ i + p \in DOMAIN log
                         /\ \A q \in 1..p : log[i + q].kind = "result"
                         /\ log[i + p].outcome \in os}} :
           i \in {i \in DOMAIN log : ~ log[i].copy}}

Ledger == INSTANCE ToolLedger WITH
    Calls <- (Nat \X CallIds),
    issued <- IssuedCalls,
    started <- {starts[n] : n \in DOMAIN starts},
    known <- AnsweredWith({"value", "missing"}),
    unknown <- AnsweredWith({"unknown"})

\* The history, read as a ledger of calls, keeps its promise: no call is
\* started after it was answered, no "unknown" is ever revised and no result
\* is recorded twice, whatever comes between.
ImplementsLedger == Ledger!Spec

\* Every run and every manual compaction ends, however the tools, the stream
\* and the rounds go.
RunsEnd == (pc # "idle") ~> (pc = "idle")

=============================================================================
