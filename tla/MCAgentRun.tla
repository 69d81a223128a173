----------------------------- MODULE MCAgentRun -----------------------------
(* Agent.run checked on one session with a few calls and runs. *)
EXTENDS AgentRun, TLC

\* Nothing distinguishes one call id from another.
Interchangeable == Permutations(CallIds)

=============================================================================
