---------------------------- MODULE ToolApprovals ----------------------------
(***************************************************************************)
(* The approval of one tool's calls by the operator of the web service:    *)
(* the permission saved for the workspace, bound to the exact definition   *)
(* of the tool, its lookup in a thread, and the question put to the        *)
(* operator, who answers in the browser or in the chat that owns the run.  *)
(*                                                                         *)
(* Each run has a harness of its own, whose lock asks for one approval at  *)
(* a time.  A binding stands for the digest of a definition.  The other    *)
(* automatic answer, for replies to the owning chat, is left out.          *)
(***************************************************************************)
EXTENDS ApprovalPromise, Naturals, FiniteSets

CONSTANTS
    Runs, Bindings,
    MaxCalls,       \* bound: calls of a run
    MaxChanges      \* bound: revocations, replacements, settings, stops, expiries, subscribers

ApprovalsAssumption ==
    /\ NoBinding \notin Bindings /\ Bindings # {}
    /\ MaxCalls \in Nat \ {0} /\ MaxChanges \in Nat

VARIABLES
    policy,         \* ToolApprovals._policy_revision
    defined,        \* the definition a run's harness advertised, NoBinding once it was replaced
    enabled,        \* tools.yaml allows the tool
    listening,      \* a browser subscribes to the chat of the run
    alive,          \* the run is active and not cancelling
    call,           \* WebState.approve for the call of a run
    pending,        \* Run.pending
    answers,        \* decisions the operator sent and no handler has seen
    calls,          \* calls of a run so far: the id of a pending
    changes

vars == <<grant, policy, defined, enabled, listening, alive, call, pending, answers, calls, shown, executed, changes>>
world == <<grant, policy, defined, enabled, listening, alive>>

NoCall == [stage |-> "none", binding |-> NoBinding, mandatory |-> FALSE, revision |-> 0, found |-> FALSE, by |-> "none"]
NoPending == [id |-> 0, answer |-> "none", binding |-> NoBinding]
Decision == {"allow", "allow_tool", "deny"}

TypeOK ==
    /\ grant \in [binding : Bindings \cup {NoBinding}, revision : Nat] /\ policy \in Nat
    /\ defined \in [Runs -> Bindings \cup {NoBinding}] /\ enabled \in BOOLEAN
    /\ listening \in [Runs -> BOOLEAN] /\ alive \in [Runs -> BOOLEAN]
    /\ call \in [Runs -> [stage : {"none", "looking", "looked", "asking", "waiting", "closing", "decided"},
                          binding : Bindings \cup {NoBinding}, mandatory : BOOLEAN, revision : Nat, found : BOOLEAN,
                          by : {"none", "saved", "stale", "operator"}]]
    /\ pending \in [Runs -> [id : Nat, answer : {"none", "open", "yes", "no"}, binding : Bindings \cup {NoBinding}]]
    /\ answers \subseteq [run : Runs, id : Nat, decision : Decision]
    /\ calls \in [Runs -> 0..MaxCalls]
    /\ shown \subseteq [run : Runs, id : Nat, binding : Bindings \cup {NoBinding}, decision : Decision \cup {"none"}]
    /\ executed \subseteq [run : Runs, id : Nat, by : {"saved", "stale", "operator"}, mandatory : BOOLEAN]
    /\ changes \in 0..MaxChanges

Init ==
    /\ grant = [binding |-> NoBinding, revision |-> 0] /\ policy = 0
    /\ defined \in {[r \in Runs |-> b] : b \in Bindings} /\ enabled = TRUE
    /\ listening \in [Runs -> BOOLEAN] /\ alive = [r \in Runs |-> TRUE]
    /\ call = [r \in Runs |-> NoCall] /\ pending = [r \in Runs |-> NoPending]
    /\ answers = {} /\ calls = [r \in Runs |-> 0]
    /\ shown = {} /\ executed = {} /\ changes = 0

Change == changes < MaxChanges /\ changes' = changes + 1
Steady == UNCHANGED changes

-----------------------------------------------------------------------------
(* ToolApprovals *)

\* requested_binding: of the definition this call was advertised with.
RequestedBinding(r) == IF alive[r] /\ enabled THEN defined[r] ELSE NoBinding

Wanted(r) == IF call[r].mandatory THEN NoBinding ELSE RequestedBinding(r)

\* Mutant: what the thread read is taken as it is.
AllowedAnyway(r) == call[r].found

\* check_allowed: what the thread read, if no permission changed meanwhile.
Allowed(r) == call[r].found /\ call[r].revision = policy

Granted(binding) ==
    /\ grant' = [binding |-> binding, revision |-> grant.revision + 1]
    /\ policy' = policy + 1

-----------------------------------------------------------------------------
(* Harness.approve and WebState.approve *)

Ask(r) ==
    /\ call[r] = NoCall /\ calls[r] < MaxCalls /\ alive[r]
    /\ calls' = [calls EXCEPT ![r] = @ + 1]
    /\ \E mandatory \in BOOLEAN :
          LET binding == IF mandatory THEN NoBinding ELSE RequestedBinding(r)
          IN  call' = [call EXCEPT ![r] =
                  [NoCall EXCEPT !.stage = IF binding = NoBinding THEN "looked" ELSE "looking",
                                 !.binding = binding, !.mandatory = mandatory, !.revision = policy]]
    /\ UNCHANGED <<world, pending, answers, shown, executed>> /\ Steady

\* The read of the row, in a thread.
LookUp(r) ==
    /\ call[r].stage = "looking"
    /\ call' = [call EXCEPT ![r].stage = "looked", ![r].found = grant.binding = call[r].binding]
    /\ UNCHANGED <<world, pending, answers, calls, shown, executed>> /\ Steady

Deny(r) == call' = [call EXCEPT ![r] = NoCall]

\* Back on the loop.  The answer is final here: a notice is sent before the
\* operation, and a revocation in that time comes too late.
Resume(r) ==
    /\ call[r].stage = "looked"
    /\ IF ~alive[r] \/ Wanted(r) # call[r].binding
       THEN Deny(r)
       ELSE IF Allowed(r)
       THEN call' = [call EXCEPT ![r].stage = "decided",
                                 ![r].by = IF grant.binding = call[r].binding THEN "saved" ELSE "stale"]
       ELSE call' = [call EXCEPT ![r].stage = "asking"]
    /\ UNCHANGED <<world, pending, answers, calls, shown, executed>> /\ Steady

\* Without a browser, the chat that owns the run may be asked, or nobody.
Put(r) ==
    /\ call[r].stage = "asking"
    /\ \/ /\ ~alive[r] \/ ~listening[r]
          /\ Deny(r) /\ UNCHANGED <<pending, shown>>
       \/ /\ alive[r]
          /\ pending' = [pending EXCEPT ![r] = [id |-> calls[r], answer |-> "open", binding |-> call[r].binding]]
          /\ shown' = shown \cup {[run |-> r, id |-> calls[r], binding |-> call[r].binding, decision |-> "none"]}
          /\ call' = [call EXCEPT ![r].stage = "waiting"]
    /\ UNCHANGED <<world, answers, calls, executed>> /\ Steady

\* The answer, its deadline, or a stop of the run.
Answered(r) ==
    /\ call[r].stage = "waiting"
    /\ \/ /\ pending[r].answer \in {"yes", "no"} /\ Steady
          /\ call' = [call EXCEPT ![r].stage = "closing", ![r].by = IF pending[r].answer = "yes" THEN "operator" ELSE "none"]
       \/ /\ Change
          /\ call' = [call EXCEPT ![r].stage = "closing"]
       \/ /\ ~alive[r] /\ Steady
          /\ call' = [call EXCEPT ![r].stage = "closing"]
    /\ pending' = [pending EXCEPT ![r].answer = IF @ = "open" THEN "no" ELSE @]
    /\ UNCHANGED <<world, answers, calls, shown, executed>>

\* The finally of approve.
Close(r) ==
    /\ call[r].stage = "closing"
    /\ pending' = [pending EXCEPT ![r] = NoPending]
    /\ IF call[r].by = "operator" THEN call' = [call EXCEPT ![r].stage = "decided"] ELSE Deny(r)
    /\ UNCHANGED <<world, answers, calls, shown, executed>> /\ Steady

\* The harness looks once more at the run and at the tool's settings.
Execute(r) ==
    /\ call[r].stage = "decided" /\ Deny(r)
    /\ executed' = IF alive[r] /\ enabled
                   THEN executed \cup {[run |-> r, id |-> calls[r], by |-> call[r].by, mandatory |-> call[r].mandatory]}
                   ELSE executed
    /\ UNCHANGED <<world, pending, answers, calls, shown>> /\ Steady

-----------------------------------------------------------------------------
(* The operator *)

\* An answer to a question that was shown; it may arrive at any later time.
Send(r) ==
    /\ \E q \in shown, d \in Decision :
          /\ q.run = r /\ q.decision = "none"
          /\ shown' = (shown \ {q}) \cup {[q EXCEPT !.decision = d]}
          /\ answers' = answers \cup {[run |-> r, id |-> q.id, decision |-> d]}
    /\ UNCHANGED <<world, call, pending, calls, executed>> /\ Steady

Live(a) == pending[a.run].id = a.id /\ pending[a.run].answer = "open" /\ alive[a.run]

\* /api/approval, or resolve_approval from the chat, which cannot remember.
Arrive(a) ==
    /\ a \in answers
    /\ answers' = answers \ {a}
    /\ \/ /\ ~Live(a)
          /\ UNCHANGED <<grant, policy, pending>>
       \/ /\ Live(a) /\ ~listening[a.run] /\ a.decision # "deny"      \* a browser's answer is refused
          /\ pending' = [pending EXCEPT ![a.run].answer = "no"]
          /\ UNCHANGED <<grant, policy>>
       \/ /\ Live(a) /\ a.decision # "allow_tool"
          /\ pending' = [pending EXCEPT ![a.run].answer = IF a.decision = "allow" THEN "yes" ELSE "no"]
          /\ UNCHANGED <<grant, policy>>
       \/ /\ Live(a) /\ listening[a.run] /\ a.decision = "allow_tool"
          /\ LET binding == pending[a.run].binding
             IN  IF binding # NoBinding /\ RequestedBinding(a.run) = binding
                 THEN Granted(binding) /\ pending' = [pending EXCEPT ![a.run].answer = "yes"]
                 ELSE UNCHANGED <<grant, policy, pending>>
    /\ UNCHANGED <<defined, enabled, listening, alive, call, calls, shown, executed>> /\ Steady

\* /api/tools/approvals/revoke, of the permission the operator sees.
Revoke ==
    /\ Change
    /\ grant.binding # NoBinding
    /\ grant' = [grant EXCEPT !.binding = NoBinding] /\ policy' = policy + 1
    /\ UNCHANGED <<defined, enabled, listening, alive, call, pending, answers, calls, shown, executed>>

\* A reload of the resources, a settings write, a browser that comes or
\* goes, and the stop of a run.
Disturb ==
    /\ Change
    /\ \/ \E r \in Runs, b \in Bindings \cup {NoBinding} : defined' = [defined EXCEPT ![r] = b] /\ UNCHANGED <<enabled, listening, alive>>
       \/ enabled' = ~enabled /\ UNCHANGED <<defined, listening, alive>>
       \/ \E r \in Runs : listening' = [listening EXCEPT ![r] = ~@] /\ UNCHANGED <<defined, enabled, alive>>
       \/ \E r \in Runs : alive[r] /\ alive' = [alive EXCEPT ![r] = FALSE] /\ UNCHANGED <<defined, enabled, listening>>
    /\ UNCHANGED <<grant, policy, call, pending, answers, calls, shown, executed>>

Next ==
    \/ \E r \in Runs : Ask(r) \/ LookUp(r) \/ Resume(r) \/ Put(r) \/ Answered(r) \/ Close(r) \/ Execute(r) \/ Send(r)
    \/ \E a \in answers : Arrive(a)
    \/ Revoke \/ Disturb

Spec == Init /\ [][Next]_vars
=============================================================================
