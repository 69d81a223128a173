---------------------------- MODULE MCSqliteGate ----------------------------
(* The writer gate, for a few tasks that contend for two databases, and the *)
(* local sends, two of one root and one of another, each by itself: the     *)
(* initial state picks the one that runs, the other rests.                  *)
EXTENDS SqliteGate, TLC

CONSTANTS t1, t2, t3, g1, g2, g3, d1, d2, d3, r1, r2,
    Deliveries, Roots, NoDelivery, RootOf  \* of LocalDelivery

VARIABLES which, membership, anchors, rows, admitted, lock, pc, outcome, receipt,
    cancelled, result, written

sends == <<membership, anchors, rows, admitted, lock, pc, outcome, receipt, cancelled,
    result, written>>

\* The holder of the writer gate of its database is "admitted" here.
D == INSTANCE LocalDelivery WITH gate <- admitted

ASSUME SendsAssumption == D!DeliveryAssumption

MCTasks == {t1, t2, t3}
MCPaths == {1, 2}
\* One gate per database, and one more for a gate created by mistake.
MCGates == {g1, g2, g3}
MCRootOf == d1 :> r1 @@ d2 :> r1 @@ d3 :> r2

WritersInit == which \in {"gate", "sends"} /\ Init /\ D!Init

WritersNext ==
    /\ UNCHANGED which
    /\ \/ which = "gate" /\ Next /\ UNCHANGED sends
       \/ which = "sends" /\ D!Next /\ UNCHANGED vars

WritersSpec == WritersInit /\ [][WritersNext]_<<which, vars, sends>>

\* None of the steps that are owed is enabled in a module that rests.
FairWritersSpec == WritersSpec /\ Fairness /\ D!Fairness

\* A send reports what happened to it, whatever is lost, cancelled or purged
\* (PreparedDelivery.commit, LocalDeliveryService.send).
ReportsAreTrue == D!ReportsAreTrue

\* A delivery enters only a live root, and does not outlive it.
RootsAreRespected == D!RootsAreRespected

\* Every send that was begun ends, although sends wait for each other's gate.
SendEnds == D!SendEnds
=============================================================================
