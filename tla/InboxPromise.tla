---------------------------- MODULE InboxPromise ----------------------------
(***************************************************************************)
(* What the durable channel inbox promises to connectors and to the agent  *)
(* (the docstrings of channels/store.py): a message is accepted at most    *)
(* once, at most Limit messages are unfinished, they are handed over one   *)
(* at a time in the order of acceptance, and none is handed over twice,    *)
(* also when the process stops in between.                                 *)
(***************************************************************************)
EXTENDS Naturals, FiniteSets, Sequences

CONSTANTS Messages, Limit

VARIABLES accepted,   \* messages in the order of their acceptance
          begun,      \* positions handed to the agent
          ended       \* positions that will never be handed over again

pvars == <<accepted, begun, ended>>

Positions == 1..Len(accepted)

PInit == accepted = <<>> /\ begun = {} /\ ended = {}

Accept(m) ==
    /\ \A i \in Positions : accepted[i] # m
    /\ Cardinality(Positions \ ended) < Limit
    /\ accepted' = Append(accepted, m)
    /\ UNCHANGED <<begun, ended>>

Begin(i) ==
    /\ begun = ended
    /\ i \notin begun /\ \A j \in Positions : j < i => j \in begun
    /\ begun' = begun \cup {i}
    /\ UNCHANGED <<accepted, ended>>

End(i) ==
    /\ i \in begun \ ended
    /\ ended' = ended \cup {i}
    /\ UNCHANGED <<accepted, begun>>

PNext == (\E m \in Messages : Accept(m)) \/ (\E i \in Positions : Begin(i) \/ End(i))

PSpec == PInit /\ [][PNext]_pvars
=============================================================================
