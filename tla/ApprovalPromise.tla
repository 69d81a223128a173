--------------------------- MODULE ApprovalPromise --------------------------
(***************************************************************************)
(* What the operator of the web service is promised about the tools of an  *)
(* agent, in terms of what the operator sees: the permission in force, the *)
(* questions with their answers, and the operations that were executed.    *)
(***************************************************************************)
CONSTANT NoBinding      \* no definition of a tool

VARIABLES
    grant,      \* the row of ngn_web_tool_approvals: its binding and revision
    shown,      \* ghost: what was put to the operator, and the answer given
    executed    \* ghost: the executed operations and what they were allowed by

(* An operation is executed on an answer the operator gave to this very     *)
(* question, or on a saved permission that was still there, for the very    *)
(* definition, when the answer was final; a mandatory question only on the  *)
(* operator's answer; and a permission is saved for no definition that the  *)
(* operator did not see and allow for good.                                 *)
OperationsAreAuthorized ==
    /\ \A e \in executed :
          \/ e.by = "saved" /\ ~e.mandatory
          \/ e.by = "operator" /\ \E q \in shown : q.run = e.run /\ q.id = e.id /\ q.decision \in {"allow", "allow_tool"}
    /\ grant.binding # NoBinding => \E q \in shown : q.binding = grant.binding /\ q.decision = "allow_tool"
=============================================================================
