--------------------------- MODULE LocalDelivery ---------------------------
(***************************************************************************)
(* Local channel sends: LocalDeliveryService.send (channels/               *)
(* local_delivery.py) over PreparedDelivery.commit and DeliveryJournal     *)
(* (session/deliveries.py), against the transactions that trash, restore,  *)
(* clear and purge the root sessions the sends belong to.                  *)
(*                                                                         *)
(* A delivery is one prepared send.  Its transaction runs in a thread that *)
(* its task joins, whatever cancellations arrive; the writer gate of the   *)
(* process (module SqliteGate) admits one of them, the write lock of the   *)
(* database excludes every other connection, of other processes too.       *)
(***************************************************************************)
EXTENDS Naturals

CONSTANTS Deliveries, Roots, NoDelivery,
          RootOf        \* origin.root_session_id of each delivery

\* What a module that names the constants assumes of them.
DeliveryAssumption ==
    /\ NoDelivery \notin Deliveries
    /\ RootOf \in [Deliveries -> Roots]

VARIABLES membership,  \* root: "active" (harness_sessions), "trashed", or "gone"
          anchors,     \* deliveries whose assistant message is in v2_messages
          rows,        \* ngn_local_deliveries
          gate,        \* holder of the writer gate of the database
          lock,        \* delivery whose connection has a write transaction
          pc,          \* where the send is
          outcome,     \* PreparedDelivery.outcome
          receipt,     \* PreparedDelivery.receipt is there
          cancelled,   \* the caller was cancelled while its work is joined
          result,      \* what send() returned or raised
          written      \* history: deliveries whose transaction committed

database == <<membership, anchors, rows, lock, written>>
caller == <<cancelled, result>>
vars == <<database, gate, pc, outcome, receipt, caller>>

Init ==
    /\ membership = [r \in Roots |-> "active"]
    /\ anchors = Deliveries /\ rows = {} /\ written = {}
    /\ gate = NoDelivery /\ lock = NoDelivery
    /\ pc = [d \in Deliveries |-> "idle"]
    /\ outcome = [d \in Deliveries |-> "prepared"]
    /\ receipt = [d \in Deliveries |-> FALSE]
    /\ cancelled = [d \in Deliveries |-> FALSE]
    /\ result = [d \in Deliveries |-> "none"]

-----------------------------------------------------------------------------
(* PreparedDelivery.commit up to the writer gate *)

\* A prepared delivery is committed only once.
Send(d) ==
    /\ pc[d] = "idle" /\ outcome[d] = "prepared"
    /\ pc' = [pc EXCEPT ![d] = "init"]
    /\ outcome' = [outcome EXCEPT ![d] = "pending"]
    /\ UNCHANGED <<database, gate, receipt, caller>>

\* The send ends before its operation was accepted.
EndUnsent(d, how) ==
    /\ pc' = [pc EXCEPT ![d] = "done"]
    /\ outcome' = [outcome EXCEPT ![d] = "failed"]
    /\ result' = [result EXCEPT ![d] = how]
    /\ UNCHANGED <<database, gate, receipt, cancelled>>

InitializeFails(d) == pc[d] = "init" /\ EndUnsent(d, "failed")

CancelUnsent(d) == pc[d] \in {"init", "gate"} /\ EndUnsent(d, "cancelled")

Initialized(d) ==
    /\ pc[d] = "init"
    /\ pc' = [pc EXCEPT ![d] = "gate"]
    /\ UNCHANGED <<database, gate, outcome, receipt, caller>>

\* write_database admits the operation; from here it is owned.
Enter(d) ==
    /\ pc[d] = "gate" /\ gate = NoDelivery
    /\ gate' = d
    /\ pc' = [pc EXCEPT ![d] = "open"]
    /\ UNCHANGED <<database, outcome, receipt, caller>>

Owned == {"open", "inserted", "confirm", "recover", "leave", "notify"}

\* join_owned keeps a cancellation until the work is over.
Cancel(d) ==
    /\ pc[d] \in Owned /\ ~cancelled[d]
    /\ cancelled' = [cancelled EXCEPT ![d] = TRUE]
    /\ UNCHANGED <<database, gate, pc, outcome, receipt, result>>

-----------------------------------------------------------------------------
(* DeliveryJournal._commit in its thread *)

Failed(d) ==
    /\ outcome' = [outcome EXCEPT ![d] = "failed"]
    /\ pc' = [pc EXCEPT ![d] = "leave"]
    /\ UNCHANGED <<gate, receipt, caller>>

\* Mutant: membership is only checked by the authority, before the first await.
InsertUnchecked(d) ==
    /\ pc[d] = "open" /\ lock = NoDelivery /\ d \in anchors
    /\ lock' = d
    /\ pc' = [pc EXCEPT ![d] = "inserted"]
    /\ UNCHANGED <<membership, anchors, rows, written, gate, outcome, receipt, caller>>

\* BEGIN IMMEDIATE, _active, _anchor and the INSERTs.
Insert(d) ==
    /\ pc[d] = "open" /\ lock = NoDelivery
    /\ membership[RootOf[d]] = "active" /\ d \in anchors
    /\ lock' = d
    /\ pc' = [pc EXCEPT ![d] = "inserted"]
    /\ UNCHANGED <<membership, anchors, rows, written, gate, outcome, receipt, caller>>

\* The connection, the lock, a check or a statement fails: rolled back.
InsertFails(d) == pc[d] = "open" /\ Failed(d) /\ UNCHANGED database

Durable(d) ==
    /\ rows' = rows \cup {d} /\ written' = written \cup {d}
    /\ lock' = NoDelivery
    /\ UNCHANGED <<membership, anchors>>

Commit(d) ==
    /\ pc[d] = "inserted"
    /\ Durable(d)
    /\ pc' = [pc EXCEPT ![d] = "confirm"]
    /\ UNCHANGED <<gate, outcome, receipt, caller>>

\* COMMIT raised with the transaction open, and the rollback succeeds.
RolledBack(d) ==
    /\ pc[d] = "inserted"
    /\ lock' = NoDelivery
    /\ Failed(d)
    /\ UNCHANGED <<membership, anchors, rows, written>>

\* COMMIT raised and nothing is established: the rollback failed, or SQLite has
\* ended the transaction, by a commit or by a rollback of its own.
CommitLost(d) ==
    /\ pc[d] = "inserted"
    /\ pc' = [pc EXCEPT ![d] = "recover"]
    /\ \/ UNCHANGED database
       \/ lock' = NoDelivery /\ UNCHANGED <<membership, anchors, rows, written>>
       \/ Durable(d)
    /\ UNCHANGED <<gate, outcome, receipt, caller>>

Confirmed(d) ==
    /\ receipt' = [receipt EXCEPT ![d] = TRUE]
    /\ outcome' = [outcome EXCEPT ![d] = "committed"]

Confirm(d) ==
    /\ pc[d] = "confirm"
    /\ Confirmed(d)
    /\ pc' = [pc EXCEPT ![d] = "leave"]
    /\ UNCHANGED <<database, gate, caller>>

\* Mutant: a row that is not found is taken for a rollback.
AbsenceIsFailure(d) ==
    /\ pc[d] = "recover"
    /\ IF d \in rows
       THEN Confirmed(d)
       ELSE outcome' = [outcome EXCEPT ![d] = "failed"] /\ UNCHANGED receipt
    /\ pc' = [pc EXCEPT ![d] = "leave"]
    /\ lock' = IF lock = d THEN NoDelivery ELSE lock
    /\ UNCHANGED <<membership, anchors, rows, written, gate, caller>>

\* Mutant: the row is read until it is there.
RecoverUntilFound(d) ==
    /\ pc[d] = "recover" /\ d \in rows
    /\ Confirmed(d)
    /\ pc' = [pc EXCEPT ![d] = "leave"]
    /\ lock' = IF lock = d THEN NoDelivery ELSE lock
    /\ UNCHANGED <<membership, anchors, rows, written, gate, caller>>

\* _recover_receipt reads the row by its identity; absence proves nothing.  Closing
\* the connection ends a transaction that could not be rolled back.
Recover(d) ==
    /\ pc[d] = "recover"
    /\ \/ d \in rows /\ Confirmed(d)
       \/ outcome' = [outcome EXCEPT ![d] = "unknown"] /\ UNCHANGED receipt
    /\ pc' = [pc EXCEPT ![d] = "leave"]
    /\ lock' = IF lock = d THEN NoDelivery ELSE lock
    /\ UNCHANGED <<membership, anchors, rows, written, gate, caller>>

-----------------------------------------------------------------------------
(* The way back to the caller *)

End(d, how) ==
    /\ pc' = [pc EXCEPT ![d] = "done"]
    /\ result' = [result EXCEPT ![d] = IF cancelled[d] THEN "cancelled" ELSE how]

\* The gate is left; a commit that nobody cancelled is announced.
Leave(d) ==
    /\ pc[d] = "leave"
    /\ gate' = NoDelivery
    /\ IF receipt[d] /\ ~cancelled[d]
       THEN pc' = [pc EXCEPT ![d] = "notify"] /\ UNCHANGED result
       ELSE End(d, outcome[d])
    /\ UNCHANGED <<database, outcome, receipt, cancelled>>

\* The notice succeeds, fails or times out: the send does not fail with it.
Notify(d) ==
    /\ pc[d] = "notify"
    /\ End(d, "committed")
    /\ UNCHANGED <<database, gate, outcome, receipt, cancelled>>

-----------------------------------------------------------------------------
(* The life of a root session: transactions of other connections *)

Of(r) == {d \in Deliveries : RootOf[d] = r}

Membership(r, from, to) ==
    /\ lock = NoDelivery /\ membership[r] = from
    /\ membership' = [membership EXCEPT ![r] = to]
    /\ UNCHANGED <<lock, written, gate, pc, outcome, receipt, caller>>

\* SessionTrash.remove_rows and _restore_rows keep the content.
Trash(r) == Membership(r, "active", "trashed") /\ UNCHANGED <<anchors, rows>>
Restore(r) == Membership(r, "trashed", "active") /\ UNCHANGED <<anchors, rows>>

\* _purge_rows removes it, with the messages.
Purge(r) ==
    /\ Membership(r, "trashed", "gone")
    /\ anchors' = anchors \ Of(r) /\ rows' = rows \ Of(r)

\* SessionManager.clear_session removes the messages of an active session.
Clear(r) ==
    /\ Membership(r, "active", "active")
    /\ anchors' = anchors \ Of(r) /\ rows' = rows \ Of(r)

-----------------------------------------------------------------------------

Next ==
    \/ \E d \in Deliveries :
        \/ Send(d) \/ InitializeFails(d) \/ CancelUnsent(d) \/ Initialized(d) \/ Enter(d)
        \/ Cancel(d) \/ Insert(d) \/ InsertFails(d) \/ Commit(d) \/ RolledBack(d)
        \/ CommitLost(d) \/ Confirm(d) \/ Recover(d) \/ Leave(d) \/ Notify(d)
    \/ \E r \in Roots : Trash(r) \/ Restore(r) \/ Purge(r) \/ Clear(r)

Spec == Init /\ [][Next]_vars

\* The event loop and the thread of an accepted operation run; SQLite answers a
\* statement with success or with an error.
Work(d) ==
    \/ Initialized(d) \/ InitializeFails(d) \/ Insert(d) \/ InsertFails(d) \/ Commit(d)
    \/ RolledBack(d) \/ CommitLost(d) \/ Confirm(d) \/ Recover(d) \/ Leave(d) \/ Notify(d)

\* No send does any of it twice, so that one condition serves them all.
Fairness == WF_vars(\E d \in Deliveries : Work(d) \/ Enter(d))

FairSpec == Spec /\ Fairness

-----------------------------------------------------------------------------
(* Properties *)

Final == {"committed", "failed", "unknown"}

\* Every variable has its type.
TypeOK ==
    /\ membership \in [Roots -> {"active", "trashed", "gone"}]
    /\ anchors \subseteq Deliveries /\ rows \subseteq Deliveries /\ written \subseteq Deliveries
    /\ gate \in Deliveries \cup {NoDelivery} /\ lock \in Deliveries \cup {NoDelivery}
    /\ pc \in [Deliveries -> {"idle", "init", "gate", "done"} \cup Owned]
    /\ outcome \in [Deliveries -> {"prepared", "pending"} \cup Final]
    /\ receipt \in [Deliveries -> BOOLEAN] /\ cancelled \in [Deliveries -> BOOLEAN]
    /\ result \in [Deliveries -> {"none", "cancelled"} \cup Final]

\* "Failed means no commit or established rollback" (PreparedDelivery), and a
\* receipt means a commit, whatever was cancelled or purged meanwhile.
OutcomeHonest ==
    \A d \in Deliveries :
        /\ outcome[d] = "failed" => d \notin written
        /\ receipt[d] => d \in written

\* When send() is over its outcome is settled, and an error or a value that the
\* caller sees is the outcome; only a cancelled caller has to look it up.
CallerInformed ==
    \A d \in Deliveries : pc[d] = "done" =>
        /\ outcome[d] \in Final /\ gate # d
        /\ result[d] \in {outcome[d], "cancelled"}

\* What a send reports is what happened, and it reports in the end.
ReportsAreTrue == OutcomeHonest /\ CallerInformed

\* A delivery becomes durable only while its root is active and the assistant
\* message that made it is stored: neither trash nor a purge is overtaken.
OnlyIntoLiveRoots ==
    [][\A d \in Deliveries : d \in rows' \ rows =>
        membership[RootOf[d]] = "active" /\ d \in anchors]_vars

\* Nothing of a purged root is left or comes back.
PurgedIsEmpty ==
    \A d \in rows : membership[RootOf[d]] # "gone" /\ d \in anchors

\* A delivery enters only a live root, and does not outlive it.
RootsAreRespected == OnlyIntoLiveRoots /\ []PurgedIsEmpty

\* Every send that was begun ends, although sends wait for each other's gate.
SendEnds == <>[](\A d \in Deliveries : pc[d] \in {"idle", "done"})
=============================================================================
