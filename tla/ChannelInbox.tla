---------------------------- MODULE ChannelInbox ----------------------------
(***************************************************************************)
(* The durable inbox of one session: the transactions of                   *)
(* channels/store.py as operators on the rows of nagents_channel_inbox.    *)
(*                                                                         *)
(* Rows are never deleted and ids are assigned in order, so the table is a *)
(* sequence indexed by id.  An inbox key (channel, message_id) is a member *)
(* of Messages.  Every transaction is BEGIN IMMEDIATE ... COMMIT, hence    *)
(* atomic; a caller's cancellation decides only whether it still starts.   *)
(***************************************************************************)
EXTENDS Naturals, FiniteSets, Sequences

CONSTANTS Messages,    \* inbox keys that connectors deliver
          InboxLimit   \* inbox_limit: bound on queued and running rows

ASSUME InboxAssumption == InboxLimit \in Nat \ {0}

Statuses == {"queued", "running", "completed", "failed", "interrupted"}
RowType == [msg : Messages, status : Statuses]

Ids(rows) == 1..Len(rows)
WithStatus(rows, S) == {i \in Ids(rows) : rows[i].status \in S}

Known(rows, m) == \E i \in Ids(rows) : rows[i].msg = m

\* Pending capacity includes the active run.
Full(rows) == Cardinality(WithStatus(rows, {"queued", "running"})) >= InboxLimit

\* What InboxStore.admit answers.
Admission(rows, m) ==
    IF Known(rows, m) THEN "duplicate" ELSE IF Full(rows) THEN "full" ELSE "inserted"

\* The rows after admit.
Admitted(rows, m) ==
    IF Admission(rows, m) = "inserted"
    THEN Append(rows, [msg |-> m, status |-> "queued"])
    ELSE rows

\* Mutant: ORDER BY id is missing, any queued row may come first.
NewestQueued(rows, i) ==
    /\ i \in WithStatus(rows, {"queued"})
    /\ \A j \in WithStatus(rows, {"queued"}) : i >= j

\* The row claim takes: the queued row with the lowest id.
FirstQueued(rows, i) ==
    /\ i \in WithStatus(rows, {"queued"})
    /\ \A j \in WithStatus(rows, {"queued"}) : i <= j

Claimed(rows, i) == [rows EXCEPT ![i].status = "running"]

\* finish: only a running row changes.
Finished(rows, i, status) ==
    IF rows[i].status = "running" THEN [rows EXCEPT ![i].status = status] ELSE rows

\* initialize and interrupt_running: whatever was running will not run again.
Interrupted(rows) ==
    [i \in Ids(rows) |->
        IF rows[i].status = "running" THEN [rows[i] EXCEPT !.status = "interrupted"]
                                      ELSE rows[i]]
=============================================================================
