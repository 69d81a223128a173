----------------------- MODULE ChannelListener_proofs ------------------------
(***************************************************************************)
(* What the durable inbox and its listener promise, for any messages,      *)
(* channels, callbacks, inbox limit and number of restarts: the rows       *)
(* implement InboxPromise, a message runs at most once and is told of at   *)
(* most once, and what a connector was told is accepted is stored.  And    *)
(* that no batch job is lost, for any jobs, requests, callbacks and numbers *)
(* of monitors, calls, faults and restarts: no bound of the runs of TLC is  *)
(* used.                                                                    *)
(***************************************************************************)
EXTENDS MCChannelListener, SequenceTheorems, FiniteSetTheorems, WellFoundedInduction, TLAPS

Over == {"completed", "failed", "interrupted"}
Running == WithStatus(rows, {"running"})

\* A key has one row.
UniqueRows == \A i, j \in Ids(rows) : rows[i].msg = rows[j].msg => i = j

\* A callback under way has a message; once it is admitted, its row is there.
Callbacks ==
    \A r \in Receivers :
        /\ rpc[r] # "idle" => rmsg[r] \in Messages
        /\ rpc[r] = "in" => Known(rows, rmsg[r])

\* Only the row of the worker may be running, and none while it looks for work.
OneRunning ==
    /\ Running \subseteq {item}
    /\ phase = "starting" => wpc = "off" /\ Running = {}
    /\ wpc \in {"enter", "wait", "claim", "none", "over"} => Running = {}
    /\ wpc \in {"notice", "notify"} /\ target = "completed" => Running = {}
    /\ wpc \in {"claimed", "run"} \/ (wpc = "finish" /\ target = "completed") => item \in Running
    /\ wpc \in {"claimed", "run", "finish", "notice"} => item \in Ids(rows)

\* A row is told of after it was taken, once, and truly.
Told ==
    /\ \A n \in notices :
          /\ n[1] \in Ids(rows) /\ rows[n[1]].status # "queued"
          /\ n[2] = "completed" => rows[n[1]].status = "completed"
    /\ \A n1, n2 \in notices : n1[1] = n2[1] => n1 = n2
    /\ wpc \in {"claimed", "run", "finish", "notice"} =>
          /\ \A n \in notices : n[1] # item
          /\ rows[item].status # "queued"
    /\ wpc = "notice" /\ target = "completed" => rows[item].status = "completed"

\* A message that was handed over has a row that was taken.
RunOnce ==
    /\ \A m \in Messages :
          /\ runs[m] <= 1
          /\ runs[m] # 0 => \E i \in Ids(rows) : rows[i].msg = m /\ rows[i].status # "queued"
    /\ wpc = "claimed" => runs[rows[item].msg] = 0

AtRest == {"off", "over", "died"}
Handling == {"claimed", "run", "finish", "notice"}

\* A cleanup that got through leaves no row running.
Settled ==
    phase \in {"closing", "down"} => wpc \in AtRest /\ (clean => Running = {})

\* What waits for the worker is of a channel of this listener.
Routed ==
    /\ phase = "starting" => \A r \in Receivers : rpc[r] = "idle"
    /\ wpc \notin AtRest =>
          /\ \A i \in WithStatus(rows, {"queued"}) : ChannelOf[rows[i].msg] \in routes
          /\ \A r \in Receivers : rpc[r] # "idle" => ChannelOf[rmsg[r]] \in routes
    /\ Routable

\* The inductive invariant.
IInv ==
    /\ TypeOK
    /\ UniqueRows /\ Callbacks /\ AckedIsDurable
    /\ OneRunning /\ Told /\ RunOnce
    /\ Settled /\ Routed

-----------------------------------------------------------------------------
(* The four ways in which the rows change *)

RowsGrow ==
    \E m \in Messages :
        /\ ~Known(rows, m) /\ ~Full(rows)
        /\ rows' = Append(rows, [msg |-> m, status |-> "queued"])

RowClaimed ==
    /\ wpc = "claim" /\ wpc' = "claimed"
    /\ FirstQueued(rows, item') /\ rows' = Claimed(rows, item')

RowEnded == item \in Running /\ \E s \in Over : rows' = [rows EXCEPT ![item].status = s]

RowsStep == UNCHANGED rows \/ RowsGrow \/ RowClaimed \/ RowEnded

\* A row is a message and a status.
LEMMA RowFacts ==
    ASSUME TypeOK
    PROVE  /\ Len(rows) \in Nat /\ Ids(rows) = 1..Len(rows)
           /\ \A i \in Ids(rows) : rows[i] \in RowType /\ rows[i].msg \in Messages /\ rows[i].status \in Statuses
<1>1. rows \in Seq(RowType)
    BY DEF TypeOK
<1>2. Len(rows) \in Nat /\ DOMAIN rows = 1..Len(rows)
    BY <1>1, LenProperties
<1>3. \A i \in 1..Len(rows) : rows[i] \in RowType
    BY <1>1, ElementOfSeq
<1> QED
    BY <1>2, <1>3 DEF Ids, RowType

\* One row gets a status, the others are left alone.
LEMMA RowUpdated ==
    ASSUME TypeOK, NEW i \in Ids(rows), NEW s \in Statuses, rows' = [rows EXCEPT ![i].status = s]
    PROVE  /\ rows' \in Seq(RowType) /\ Ids(rows') = Ids(rows) /\ Len(rows') = Len(rows)
           /\ rows'[i].status = s
           /\ \A j \in Ids(rows) : rows'[j].msg = rows[j].msg
           /\ \A j \in Ids(rows) : j # i => rows'[j] = rows[j]
<1>1. rows \in [1..Len(rows) -> RowType] /\ Len(rows) \in Nat
    BY LenProperties DEF TypeOK
<1>2. i \in 1..Len(rows) /\ rows[i] \in RowType
    BY <1>1 DEF Ids
<1>3. [rows[i] EXCEPT !.status = s] \in RowType
    BY <1>2 DEF RowType
<1>4. rows' = [rows EXCEPT ![i] = [rows[i] EXCEPT !.status = s]]
    BY <1>1
<1>6. rows' \in Seq(RowType)
    BY <1>2, <1>3, <1>4, ExceptSeq DEF TypeOK
<1>7. Len(rows') = Len(rows)
    BY <1>2, <1>3, <1>4, ExceptSeq DEF TypeOK
<1>8. rows'[i].status = s /\ rows'[i].msg = rows[i].msg
    BY <1>1, <1>2, <1>4 DEF RowType
<1>9. \A j \in Ids(rows) : j # i => rows'[j] = rows[j]
    BY <1>1, <1>4 DEF Ids
<1> QED
    BY <1>6, <1>7, <1>8, <1>9 DEF Ids

\* A queued row at the end.
LEMMA RowAppended ==
    ASSUME TypeOK, NEW m \in Messages, rows' = Append(rows, [msg |-> m, status |-> "queued"])
    PROVE  /\ rows' \in Seq(RowType) /\ Len(rows') = Len(rows) + 1
           /\ Ids(rows') = Ids(rows) \cup {Len(rows) + 1} /\ Len(rows) + 1 \notin Ids(rows)
           /\ \A j \in Ids(rows) : rows'[j] = rows[j]
           /\ rows'[Len(rows) + 1] = [msg |-> m, status |-> "queued"]
<1>1. rows \in Seq(RowType) /\ [msg |-> m, status |-> "queued"] \in RowType
    BY DEF TypeOK, RowType, Statuses
<1>2. /\ rows' \in Seq(RowType) /\ Len(rows') = Len(rows) + 1
      /\ \A j \in 1..Len(rows) : rows'[j] = rows[j]
      /\ rows'[Len(rows) + 1] = [msg |-> m, status |-> "queued"]
    BY <1>1, AppendProperties
<1>3. Len(rows) \in Nat
    BY RowFacts
<1> QED
    BY <1>2, <1>3 DEF Ids

\* What Interrupted does when at most one row runs.
LEMMA InterruptedRows ==
    ASSUME TypeOK, Running \subseteq {item}, rows' = Interrupted(rows)
    PROVE  (UNCHANGED rows \/ RowEnded) /\ Running' = {}
<1>1. rows \in [1..Len(rows) -> RowType] /\ Len(rows) \in Nat
    BY LenProperties DEF TypeOK
<1>2. CASE Running = {}
  <2>1. \A i \in 1..Len(rows) : rows[i].status # "running"
      BY <1>2 DEF Running, WithStatus, Ids
  <2>2. rows' = [i \in 1..Len(rows) |-> rows[i]]
      BY <2>1 DEF Interrupted, Ids
  <2>3. rows' = rows
      BY <1>1, <2>2
  <2> QED
      BY <1>2, <2>3 DEF Running
<1>3. CASE Running # {}
  <2>1. item \in Running /\ item \in 1..Len(rows) /\ rows[item].status = "running"
      BY <1>3 DEF Running, WithStatus, Ids
  <2>2. \A i \in 1..Len(rows) : i # item => rows[i].status # "running"
      BY DEF Running, WithStatus, Ids
  <2>3. rows' = [rows EXCEPT ![item].status = "interrupted"]
      BY <1>1, <2>1, <2>2 DEF Interrupted, Ids
  <2>4. RowEnded
      BY <2>1, <2>3 DEF RowEnded, Over
  <2>5. Ids(rows') = Ids(rows) /\ rows'[item].status = "interrupted" /\ \A j \in Ids(rows) : j # item => rows'[j] = rows[j]
      BY <2>1, <2>3, RowUpdated DEF Ids, Statuses
  <2> QED
      BY <2>2, <2>4, <2>5 DEF Running, WithStatus, Ids
<1> QED
    BY <1>2, <1>3

\* finish writes its status into the row of the worker if that still runs.
LEMMA FinishedRows ==
    ASSUME TypeOK, item \in Ids(rows), rows' = Finished(rows, item, target)
    PROVE  UNCHANGED rows \/ RowEnded
    BY DEF Finished, RowEnded, Running, WithStatus, Over, TypeOK

LEMMA NextRows == ASSUME IInv, Next PROVE RowsStep
<1>1. TypeOK /\ Running \subseteq {item}
    BY DEF IInv, OneRunning
<1>2. ASSUME NEW r \in Receivers, Admit(r) PROVE RowsStep
    BY <1>2 DEF Admit, Admitted, Admission, RowsStep, RowsGrow, IInv, Callbacks
<1>3. CASE Claim
    BY <1>3 DEF Claim, RowsStep, RowClaimed
<1>4. CASE Finish
    BY <1>1, <1>4, FinishedRows DEF Finish, RowsStep, IInv, OneRunning
<1>5. CASE CancelWorker
    BY <1>1, <1>5, FinishedRows DEF CancelWorker, RowsStep, IInv, OneRunning
<1>6. CASE Listen
    BY <1>1, <1>6, InterruptedRows DEF Listen, RowsStep
<1>7. CASE InterruptRunning
    BY <1>1, <1>7, InterruptedRows DEF InterruptRunning, RowsStep
<1>8. ASSUME NEW r \in Receivers,
             Deliver(r) \/ Enter(r) \/ AwaitCapacity(r) \/ Return(r) \/ CancelReceive(r) \/ AdmitFails(r)
      PROVE  RowsStep
    BY <1>8 DEF Deliver, Enter, AwaitCapacity, Return, CancelReceive, AdmitFails, RowsStep
<1>9. CASE WorkerEnter \/ ClaimFails \/ NoWork \/ BeginRun \/ EndRun \/ FinishFails \/ Notice \/ Notify
    BY <1>9 DEF WorkerEnter, ClaimFails, NoWork, BeginRun, EndRun, FinishFails, Notice, Notify, RowsStep
<1>10. CASE Start \/ StartFails \/ (\E c \in Channels : EndSource(c)) \/ Stop \/ WakeAll \/ Close \/ Crash
    BY <1>10 DEF Start, StartFails, EndSource, Stop, WakeAll, Close, Crash, RowsStep
<1> QED
    BY <1>2, <1>3, <1>4, <1>5, <1>6, <1>7, <1>8, <1>9, <1>10 DEF Next, Receive, Work, Cleanup

-----------------------------------------------------------------------------
(* What the invariant says of the rows after a step *)

LEMMA RowsEvolve ==
    ASSUME IInv, RowsStep
    PROVE  /\ rows' \in Seq(RowType)
           /\ \A i \in Ids(rows) :
                 /\ i \in Ids(rows') /\ rows'[i].msg = rows[i].msg
                 /\ rows[i].status # "queued" => rows'[i].status # "queued"
                 /\ rows[i].status = "completed" => rows'[i].status = "completed"
           /\ UniqueRows'
<1>0. TypeOK /\ UniqueRows
    BY DEF IInv
<1>1. CASE UNCHANGED rows
    BY <1>0, <1>1 DEF TypeOK, UniqueRows, Ids
<1>2. CASE RowsGrow
  <2>1. PICK m \in Messages : ~Known(rows, m) /\ rows' = Append(rows, [msg |-> m, status |-> "queued"])
      BY <1>2 DEF RowsGrow
  <2>2. /\ rows' \in Seq(RowType) /\ Ids(rows') = Ids(rows) \cup {Len(rows) + 1}
        /\ \A j \in Ids(rows) : rows'[j] = rows[j]
        /\ rows'[Len(rows) + 1] = [msg |-> m, status |-> "queued"]
      BY <1>0, <2>1, RowAppended
  <2>3. \A j \in Ids(rows) : rows[j].msg # m
      BY <2>1 DEF Known
  <2>4. UniqueRows'
      BY <1>0, <2>2, <2>3 DEF UniqueRows
  <2> QED
      BY <2>2, <2>4
<1>3. CASE RowClaimed
  <2>1. item' \in Ids(rows) /\ rows[item'].status = "queued" /\ rows' = [rows EXCEPT ![item'].status = "running"]
      BY <1>3 DEF RowClaimed, FirstQueued, WithStatus, Claimed
  <2>2. /\ rows' \in Seq(RowType) /\ Ids(rows') = Ids(rows) /\ rows'[item'].status = "running"
        /\ \A j \in Ids(rows) : rows'[j].msg = rows[j].msg
        /\ \A j \in Ids(rows) : j # item' => rows'[j] = rows[j]
      BY <1>0, <2>1, RowUpdated DEF Statuses
  <2>3. UniqueRows'
      BY <1>0, <2>2 DEF UniqueRows
  <2> QED
      BY <2>1, <2>2, <2>3
<1>4. CASE RowEnded
  <2>1. PICK s \in Over : rows' = [rows EXCEPT ![item].status = s]
      BY <1>4 DEF RowEnded
  <2>2. item \in Ids(rows) /\ rows[item].status = "running" /\ s \in Statuses /\ s # "queued"
      BY <1>4 DEF RowEnded, Running, WithStatus, Over, Statuses
  <2>3. /\ rows' \in Seq(RowType) /\ Ids(rows') = Ids(rows) /\ rows'[item].status = s
        /\ \A j \in Ids(rows) : rows'[j].msg = rows[j].msg
        /\ \A j \in Ids(rows) : j # item => rows'[j] = rows[j]
      BY <1>0, <2>1, <2>2, RowUpdated
  <2>4. UniqueRows'
      BY <1>0, <2>3 DEF UniqueRows
  <2> QED
      BY <2>2, <2>3, <2>4
<1> QED
    BY <1>1, <1>2, <1>3, <1>4 DEF RowsStep

LEMMA KnownKept == ASSUME IInv, RowsStep, NEW m, Known(rows, m) PROVE Known(rows', m)
    BY RowsEvolve DEF Known

LEMMA GrownRunning == ASSUME IInv, RowsGrow PROVE Running' = Running
<1>0. TypeOK
    BY DEF IInv
<1>1. PICK m \in Messages : rows' = Append(rows, [msg |-> m, status |-> "queued"])
    BY DEF RowsGrow
<1>2. /\ Ids(rows') = Ids(rows) \cup {Len(rows) + 1}
      /\ \A j \in Ids(rows) : rows'[j] = rows[j]
      /\ rows'[Len(rows) + 1] = [msg |-> m, status |-> "queued"]
    BY <1>0, <1>1, RowAppended
<1> QED
    BY <1>2 DEF Running, WithStatus

LEMMA ClaimedRunning ==
    ASSUME IInv, RowClaimed
    PROVE  Running' = {item'} /\ item' \in Ids(rows) /\ rows[item'].status = "queued"
<1>0. TypeOK /\ Running = {}
    BY DEF IInv, OneRunning, RowClaimed
<1>1. item' \in Ids(rows) /\ rows[item'].status = "queued" /\ rows' = [rows EXCEPT ![item'].status = "running"]
    BY DEF RowClaimed, FirstQueued, WithStatus, Claimed
<1>2. Ids(rows') = Ids(rows) /\ rows'[item'].status = "running" /\ \A j \in Ids(rows) : j # item' => rows'[j] = rows[j]
    BY <1>0, <1>1, RowUpdated DEF Statuses
<1> QED
    BY <1>0, <1>1, <1>2 DEF Running, WithStatus

LEMMA EndedRunning == ASSUME IInv, RowEnded PROVE Running' = {} /\ item \in Ids(rows) /\ Ids(rows') = Ids(rows)
<1>0. TypeOK /\ Running \subseteq {item}
    BY DEF IInv, OneRunning
<1>1. PICK s \in Over : rows' = [rows EXCEPT ![item].status = s]
    BY DEF RowEnded
<1>2. item \in Ids(rows) /\ s \in Statuses /\ s # "running"
    BY DEF RowEnded, Running, WithStatus, Over, Statuses
<1>3. Ids(rows') = Ids(rows) /\ rows'[item].status = s /\ \A j \in Ids(rows) : j # item => rows'[j] = rows[j]
    BY <1>0, <1>1, <1>2, RowUpdated
<1> QED
    BY <1>0, <1>2, <1>3 DEF Running, WithStatus

-----------------------------------------------------------------------------
(* The steps keep each part *)

LEMMA TypeKept == ASSUME IInv, Next PROVE TypeOK'
<1> USE DEF TypeOK, lvars, rvars, wvars, NotifiedReceivers, NotifiedWorker, Ended
<1>0. TypeOK /\ rows' \in Seq(RowType)
    BY NextRows, RowsEvolve DEF IInv
<1>1. ASSUME NEW r \in Receivers, Deliver(r) \/ Receive(r) \/ CancelReceive(r) \/ AdmitFails(r) PROVE TypeOK'
  <2>1. CASE Deliver(r)
      BY <1>0, <2>1 DEF Deliver
  <2>2. CASE Enter(r)
      BY <1>0, <2>2 DEF Enter
  <2>3. CASE Admit(r)
      BY <1>0, <2>3 DEF Admit
  <2>4. CASE AwaitCapacity(r)
      BY <1>0, <2>4 DEF AwaitCapacity
  <2>5. CASE Return(r)
    <3>1. rmsg[r] \in Messages
        BY <2>5 DEF IInv, Callbacks, Return
    <3> QED
        BY <1>0, <2>5, <3>1 DEF Return
  <2>6. CASE CancelReceive(r)
    <3>1. rpc' \in [Receivers -> {"idle", "enter", "admit", "full", "in", "wait"}]
        BY <1>0, <2>6 DEF CancelReceive
    <3>2. rmsg' \in [Receivers -> Messages \cup {NoMessage}]
        BY <1>0, <2>6 DEF CancelReceive
    <3>3. lock' \in {Free, Worker} \cup Receivers /\ wpc' \in {"off", "enter", "claim", "none", "claimed",
              "run", "finish", "notice", "notify", "wait", "over", "died"}
        BY <1>0, <2>6 DEF CancelReceive
    <3> QED
        BY <1>0, <2>6, <3>1, <3>2, <3>3 DEF CancelReceive
  <2>7. CASE AdmitFails(r)
      BY <1>0, <2>7 DEF AdmitFails
  <2> QED
      BY <1>1, <2>1, <2>2, <2>3, <2>4, <2>5, <2>6, <2>7 DEF Receive
<1>2. CASE WorkerEnter \/ ClaimFails \/ NoWork \/ EndRun \/ Finish \/ FinishFails \/ Notify
    BY <1>0, <1>2 DEF WorkerEnter, ClaimFails, NoWork, EndRun, Finish, FinishFails, Notify
<1>3. CASE Claim
  <2>1. \A i \in Ids(rows) : i \in Nat
      BY <1>0, RowFacts
  <2> QED
      BY <1>0, <1>3, <2>1 DEF Claim
<1>4. CASE BeginRun
  <2>1. rows[item].msg \in Messages
      BY <1>4, RowFacts DEF IInv, OneRunning, BeginRun
  <2> QED
      BY <1>0, <1>4, <2>1 DEF BeginRun
<1>5. CASE CancelWorker
  <2>1. /\ wpc' \in {"died", "finish", "notice", "notify"} /\ wcancel' = FALSE
        /\ lock' \in {Free, Worker} \cup Receivers /\ target' \in {"completed", "failed", "interrupted"}
      BY <1>0, <1>5 DEF CancelWorker
  <2>2. notices' \subseteq Nat \X {"completed", "failed", "cancelled"}
    <3>1. notices' = notices \/ notices' = notices \cup {<<item, Outcome>>}
        BY <1>5 DEF CancelWorker
    <3>2. <<item, Outcome>> \in Nat \X {"completed", "failed", "cancelled"}
        BY <1>0 DEF Outcome
    <3>3. notices \subseteq Nat \X {"completed", "failed", "cancelled"}
        BY <1>0
    <3> QED
        BY <3>1, <3>2, <3>3
  <2>3. UNCHANGED <<lvars, rvars, item, runs>>
      BY <1>5 DEF CancelWorker
  <2> QED
      BY <1>0, <2>1, <2>2, <2>3
<1>6. CASE Notice
    BY <1>0, <1>6 DEF Notice, Outcome
<1>7. CASE Listen
  <2>1. rpc' \in [Receivers -> {"idle", "enter", "admit", "full", "in", "wait"}]
      BY <1>7 DEF Listen
  <2>2. rmsg' \in [Receivers -> Messages \cup {NoMessage}]
      BY <1>7 DEF Listen
  <2>3. routes' \subseteq Channels /\ listens' \in Nat
      BY <1>0, <1>7 DEF Listen
  <2> QED
      BY <1>0, <1>7, <2>1, <2>2, <2>3 DEF Listen
<1>8. CASE Crash
  <2>1. rpc' \in [Receivers -> {"idle", "enter", "admit", "full", "in", "wait"}]
      BY <1>8 DEF Crash
  <2>2. rmsg' \in [Receivers -> Messages \cup {NoMessage}]
      BY <1>8 DEF Crash
  <2> QED
      BY <1>0, <1>8, <2>1, <2>2 DEF Crash
<1>9. CASE Start \/ StartFails \/ Close
    BY <1>0, <1>9 DEF Start, StartFails, Close
<1>10. CASE InterruptRunning
    BY <1>0, <1>10 DEF InterruptRunning
<1>11. CASE Stop
  <2>1. wcancel' \in BOOLEAN
      BY <1>11 DEF Stop
  <2> QED
      BY <1>0, <1>11, <2>1 DEF Stop
<1>12. CASE WakeAll \/ \E c \in Channels : EndSource(c)
  <2>1. rpc' \in [Receivers -> {"idle", "enter", "admit", "full", "in", "wait"}]
      BY <1>0, <1>12 DEF WakeAll, EndSource
  <2>2. wpc' \in {"off", "enter", "claim", "none", "claimed", "run", "finish", "notice",
                "notify", "wait", "over", "died"}
      BY <1>0, <1>12 DEF WakeAll, EndSource
  <2> QED
      BY <1>0, <1>12, <2>1, <2>2 DEF WakeAll, EndSource
<1> QED
    BY <1>1, <1>2, <1>3, <1>4, <1>5, <1>6, <1>7, <1>8, <1>9, <1>10, <1>11, <1>12 DEF Next, Work, Cleanup

LEMMA CallbacksKept == ASSUME IInv, TypeOK', Next PROVE Callbacks' /\ AckedIsDurable'
<1> USE DEF lvars, rvars, wvars, NotifiedReceivers, NotifiedWorker, Ended
<1>0. TypeOK /\ Callbacks /\ AckedIsDurable /\ RowsStep
    BY NextRows DEF IInv
<1>1. \A m : Known(rows, m) => Known(rows', m)
    BY <1>0, KnownKept
<1>2. ASSUME UNCHANGED <<rpc, rmsg, acked>> PROVE Callbacks' /\ AckedIsDurable'
    BY <1>0, <1>1, <1>2 DEF Callbacks, AckedIsDurable
<1>3. ASSUME UNCHANGED <<rmsg, acked>>, rpc' = NotifiedReceivers PROVE Callbacks' /\ AckedIsDurable'
    BY <1>0, <1>1, <1>3 DEF Callbacks, AckedIsDurable
<1>4. ASSUME NEW s \in Receivers, Deliver(s) \/ Receive(s) \/ CancelReceive(s) \/ AdmitFails(s)
      PROVE  Callbacks' /\ AckedIsDurable'
  <2> USE DEF TypeOK
  <2>1. CASE Deliver(s)
      BY <1>0, <1>1, <2>1 DEF Deliver, Callbacks, AckedIsDurable
  <2>2. CASE Enter(s)
      BY <1>0, <1>1, <2>2 DEF Enter, Callbacks, AckedIsDurable
  <2>3. CASE Admit(s)
    <3>1. rmsg[s] \in Messages /\ UNCHANGED <<rmsg, acked>>
        BY <1>0, <2>3 DEF Admit, Callbacks
    <3>2. rpc'[s] = "in" => Known(rows', rmsg[s])
      <4>1. CASE Admission(rows, rmsg[s]) = "duplicate"
          BY <1>1, <4>1 DEF Admission
      <4>2. CASE Admission(rows, rmsg[s]) = "inserted"
        <5>1. rows' = Append(rows, [msg |-> rmsg[s], status |-> "queued"])
            BY <2>3, <4>2 DEF Admit, Admitted
        <5>2. rows'[Len(rows) + 1].msg = rmsg[s] /\ Len(rows) + 1 \in Ids(rows')
            BY <1>0, <3>1, <5>1, RowAppended
        <5> QED
            BY <5>2 DEF Known
      <4>3. CASE Admission(rows, rmsg[s]) = "full"
          BY <1>0, <2>3, <4>3 DEF Admit
      <4> QED
          BY <4>1, <4>2, <4>3 DEF Admission
    <3>3. \A r \in Receivers \ {s} : rpc'[r] = rpc[r]
        BY <1>0, <2>3 DEF Admit
    <3> QED
        BY <1>0, <1>1, <3>1, <3>2, <3>3 DEF Callbacks, AckedIsDurable
  <2>4. CASE AwaitCapacity(s)
      BY <1>0, <1>1, <2>4 DEF AwaitCapacity, Callbacks, AckedIsDurable
  <2>5. CASE Return(s)
    <3>1. Known(rows, rmsg[s])
        BY <1>0, <2>5 DEF Return, Callbacks
    <3>2. AckedIsDurable'
        BY <1>0, <1>1, <2>5, <3>1 DEF Return, AckedIsDurable
    <3>3. \A r \in Receivers : IF r = s THEN rpc'[r] = "idle"
                               ELSE rmsg'[r] = rmsg[r] /\ rpc'[r] = NotifiedReceivers[r]
        BY <1>0, <2>5 DEF Return
    <3>4. Callbacks'
        BY <1>0, <1>1, <3>3 DEF Callbacks
    <3> QED
        BY <3>2, <3>4
  <2>6. CASE CancelReceive(s)
    <3>1. acked' = acked
        BY <2>6 DEF CancelReceive
    <3>2. \A r \in Receivers : IF r = s THEN rpc'[r] = "idle"
                               ELSE rmsg'[r] = rmsg[r] /\ (rpc'[r] = NotifiedReceivers[r] \/ rpc'[r] = rpc[r])
        BY <1>0, <2>6 DEF CancelReceive
    <3> QED
        BY <1>0, <1>1, <3>1, <3>2 DEF Callbacks, AckedIsDurable
  <2>7. CASE AdmitFails(s)
      BY <1>0, <1>1, <2>7 DEF AdmitFails, Callbacks, AckedIsDurable
  <2> QED
      BY <1>4, <2>1, <2>2, <2>3, <2>4, <2>5, <2>6, <2>7 DEF Receive
<1>5. CASE WorkerEnter \/ Claim \/ ClaimFails \/ NoWork \/ BeginRun \/ EndRun \/ Finish \/ CancelWorker \/ Notice \/ FinishFails
    BY <1>2, <1>5 DEF WorkerEnter, Claim, ClaimFails, NoWork, BeginRun, EndRun, Finish, CancelWorker, Notice, FinishFails
<1>6. CASE Notify \/ WakeAll \/ \E c \in Channels : EndSource(c)
    BY <1>3, <1>6 DEF Notify, WakeAll, EndSource
<1>7. CASE Listen \/ Crash
  <2>1. acked' = acked /\ \A r \in Receivers : rpc'[r] = "idle"
      BY <1>7 DEF Listen, Crash
  <2> QED
      BY <1>0, <1>1, <2>1 DEF Callbacks, AckedIsDurable
<1>8. CASE Start \/ StartFails \/ Stop \/ InterruptRunning \/ Close
    BY <1>2, <1>8 DEF Start, StartFails, Stop, InterruptRunning, Close
<1> QED
    BY <1>4, <1>5, <1>6, <1>7, <1>8 DEF Next, Work, Cleanup

LEMMA OneRunningKept == ASSUME IInv, Next PROVE OneRunning'
<1> USE DEF lvars, rvars, wvars, NotifiedReceivers, NotifiedWorker
<1>0. TypeOK /\ OneRunning /\ RowsStep
    BY NextRows DEF IInv
<1>1. Ids(rows) \subseteq Ids(rows')
    BY <1>0, RowsEvolve
<1>2. ASSUME NEW r \in Receivers, Deliver(r) \/ Receive(r) \/ CancelReceive(r) \/ AdmitFails(r) PROVE OneRunning'
  <2>1. UNCHANGED <<phase, item, target>> /\ (wpc' = wpc \/ wpc' = NotifiedWorker)
      BY <1>2 DEF Deliver, Receive, Enter, Admit, AwaitCapacity, Return, CancelReceive, AdmitFails
  <2>2. Running' = Running
    <3>1. CASE UNCHANGED rows
        BY <3>1 DEF Running, WithStatus, Ids
    <3>2. CASE RowsGrow
        BY <3>2, GrownRunning
    <3> QED
        BY <1>2, <3>1, <3>2 DEF Deliver, Receive, Enter, Admit, AwaitCapacity, Return, CancelReceive, AdmitFails,
                                Admitted, Admission, RowsGrow, IInv, Callbacks
  <2> QED
      BY <1>0, <1>1, <2>1, <2>2 DEF OneRunning
<1>3. ASSUME UNCHANGED rows PROVE Running' = Running /\ Ids(rows') = Ids(rows)
    BY <1>3 DEF Running, WithStatus, Ids
<1>4. CASE WorkerEnter \/ ClaimFails \/ NoWork \/ BeginRun \/ EndRun \/ FinishFails \/ Notice \/ Notify
    BY <1>0, <1>3, <1>4 DEF WorkerEnter, ClaimFails, NoWork, BeginRun, EndRun, FinishFails, Notice, Notify, OneRunning
<1>5. CASE Claim
  <2>1. CASE RowClaimed
    <3>1. wpc' = "claimed" /\ Running' = {item'} /\ item' \in Ids(rows) /\ phase' = phase
        BY <1>5, <2>1, ClaimedRunning DEF Claim, RowClaimed
    <3>2. phase # "starting"
        BY <1>0, <1>5 DEF OneRunning, Claim
    <3> QED
        BY <1>1, <3>1, <3>2 DEF OneRunning
  <2>2. CASE wpc' = "none" /\ UNCHANGED <<rows, item>>
      BY <1>0, <1>3, <1>5, <2>2 DEF Claim, OneRunning
  <2> QED
      BY <1>5, <2>1, <2>2 DEF Claim, RowClaimed
<1>6. CASE Finish
  <2>1. item \in Ids(rows) /\ wpc' = "notice" /\ UNCHANGED <<phase, item, target>> /\ phase # "starting"
      BY <1>0, <1>6 DEF Finish, OneRunning
  <2>2. CASE RowEnded
      BY <1>1, <2>1, <2>2, EndedRunning DEF OneRunning
  <2>3. CASE UNCHANGED rows
    <3>1. target # "completed"
      <4>1. SUFFICES ASSUME target = "completed" PROVE FALSE
          OBVIOUS
      <4>2. rows[item].status = "running"
          BY <1>0, <1>6, <4>1 DEF OneRunning, Finish, Running, WithStatus
      <4>3. rows' = [rows EXCEPT ![item].status = target]
          BY <1>6, <4>2 DEF Finish, Finished
      <4>4. rows'[item].status = "completed"
          BY <1>0, <2>1, <4>1, <4>3, RowUpdated DEF Statuses
      <4> QED
          BY <2>3, <4>2, <4>4
    <3> QED
        BY <1>0, <1>1, <1>3, <2>1, <2>3, <3>1 DEF OneRunning
  <2> QED
      BY <1>0, <1>6, <2>1, <2>2, <2>3, FinishedRows DEF Finish
<1>7. CASE CancelWorker
  <2>1. UNCHANGED <<phase, item>> /\ wpc' \in {"died", "finish", "notice", "notify"}
      BY <1>7 DEF CancelWorker
  <2>2. /\ wpc' \in {"finish", "notice"} => wpc \in {"run", "finish"} /\ target' # "completed"
        /\ wpc' = "notify" => target' = "interrupted"
      BY <1>7 DEF CancelWorker
  <2>3. Running' \subseteq {item}
    <3>1. CASE UNCHANGED rows
        BY <1>0, <1>3, <3>1 DEF OneRunning
    <3>2. CASE RowEnded
        BY <3>2, EndedRunning
    <3> QED
        BY <1>0, <1>7, <3>1, <3>2, FinishedRows DEF CancelWorker, OneRunning
  <2>4. phase # "starting"
    <3>1. wpc # "off"
        BY <1>7 DEF CancelWorker
    <3> QED
        BY <1>0, <3>1 DEF OneRunning
  <2> QED
      BY <1>0, <1>1, <2>1, <2>2, <2>3, <2>4 DEF OneRunning
<1>8. CASE Listen \/ InterruptRunning
  <2>1. CASE rows' = Interrupted(rows)
    <3>1. Running' = {}
        BY <1>0, <2>1, InterruptedRows DEF OneRunning
    <3> QED
        BY <1>0, <1>8, <3>1 DEF Listen, InterruptRunning, Joined, OneRunning
  <2>2. CASE UNCHANGED rows /\ InterruptRunning
      BY <1>0, <1>3, <2>2 DEF InterruptRunning, Joined, OneRunning
  <2> QED
      BY <1>8, <2>1, <2>2 DEF Listen, InterruptRunning
<1>9. CASE Start
    BY <1>0, <1>3, <1>9 DEF Start, OneRunning
<1>10. CASE StartFails \/ Stop \/ Close \/ Crash
    BY <1>0, <1>3, <1>10 DEF StartFails, Stop, Close, Crash, OneRunning
<1>11. CASE WakeAll \/ \E c \in Channels : EndSource(c)
    BY <1>0, <1>3, <1>11 DEF WakeAll, EndSource, OneRunning
<1> QED
    BY <1>2, <1>4, <1>5, <1>6, <1>7, <1>8, <1>9, <1>10, <1>11 DEF Next, Work, Cleanup

\* What was told of a row stays true of it.
LEMMA ToldSame ==
    ASSUME IInv, RowsStep, UNCHANGED <<notices, item, target>>,
           wpc' \in {"claimed", "run", "finish", "notice"} => wpc \in {"claimed", "run", "finish", "notice"},
           wpc' = "notice" /\ target = "completed" => rows'[item].status = "completed"
    PROVE  Told'
<1>1. Told /\ OneRunning
    BY DEF IInv
<1>2. /\ \A i \in Ids(rows) :
            /\ i \in Ids(rows')
            /\ rows[i].status # "queued" => rows'[i].status # "queued"
            /\ rows[i].status = "completed" => rows'[i].status = "completed"
    BY RowsEvolve
<1> QED
    BY <1>1, <1>2 DEF Told, OneRunning

LEMMA ToldKept == ASSUME IInv, Next PROVE Told'
<1> USE DEF lvars, rvars, wvars, NotifiedReceivers, NotifiedWorker
<1>0. TypeOK /\ OneRunning /\ Told /\ RowsStep
    BY NextRows DEF IInv
<1>1. /\ \A i \in Ids(rows) :
            /\ i \in Ids(rows')
            /\ rows[i].status # "queued" => rows'[i].status # "queued"
            /\ rows[i].status = "completed" => rows'[i].status = "completed"
    BY <1>0, RowsEvolve
<1>2. wpc = "notice" /\ target = "completed" => rows'[item].status = "completed"
    BY <1>0, <1>1 DEF Told, OneRunning
<1>3. ASSUME NEW r \in Receivers, Deliver(r) \/ Receive(r) \/ CancelReceive(r) \/ AdmitFails(r) PROVE Told'
  <2>1. UNCHANGED <<notices, item, target>> /\ (wpc' = wpc \/ wpc' = NotifiedWorker)
      BY <1>3 DEF Deliver, Receive, Enter, Admit, AwaitCapacity, Return, CancelReceive, AdmitFails
  <2> QED
      BY <1>0, <1>2, <2>1, ToldSame
<1>4. CASE WorkerEnter \/ ClaimFails \/ NoWork \/ BeginRun \/ Notify
    BY <1>0, <1>2, <1>4, ToldSame DEF WorkerEnter, ClaimFails, NoWork, BeginRun, Notify
<1>5. CASE EndRun
    BY <1>0, <1>5 DEF EndRun, Told, Ids
<1>6. CASE Claim
  <2>1. CASE RowClaimed
    <3>1. item' \in Ids(rows) /\ rows[item'].status = "queued" /\ rows'[item'].status = "running"
      <4>1. Running' = {item'} /\ item' \in Ids(rows) /\ rows[item'].status = "queued"
          BY <2>1, ClaimedRunning
      <4> QED
          BY <4>1 DEF Running, WithStatus
    <3>2. UNCHANGED <<notices, target>> /\ wpc' = "claimed"
        BY <1>6, <2>1 DEF Claim, RowClaimed
    <3>3. \A n \in notices : n[1] # item'
        BY <1>0, <3>1 DEF Told
    <3> QED
        BY <1>0, <1>1, <3>1, <3>2, <3>3 DEF Told
  <2>2. CASE wpc' = "none" /\ UNCHANGED <<rows, item>>
      BY <1>0, <1>2, <1>6, <2>2, ToldSame DEF Claim
  <2> QED
      BY <1>6, <2>1, <2>2 DEF Claim, RowClaimed
<1>7. CASE Finish
  <2>1. item \in Ids(rows) /\ wpc = "finish" /\ UNCHANGED <<notices, item, target>>
      BY <1>0, <1>7 DEF Finish, OneRunning
  <2>2. target = "completed" => rows'[item].status = "completed"
    <3>1. SUFFICES ASSUME target = "completed" PROVE rows'[item].status = "completed"
        OBVIOUS
    <3>2. rows[item].status = "running"
        BY <1>0, <2>1, <3>1 DEF OneRunning, Running, WithStatus
    <3>3. rows' = [rows EXCEPT ![item].status = target]
        BY <1>7, <3>2 DEF Finish, Finished
    <3> QED
        BY <1>0, <2>1, <3>1, <3>3, RowUpdated DEF Statuses
  <2> QED
      BY <1>0, <2>1, <2>2, ToldSame
<1>8. CASE FinishFails
  <2>1. UNCHANGED <<rows, notices, item>> /\ wpc = "finish" /\ wpc' \in {"finish", "notice"}
        /\ (wpc' = "notice" => target' # "completed")
      BY <1>8 DEF FinishFails
  <2> QED
      BY <1>0, <2>1 DEF Told, Ids
<1>9. CASE Notice \/ (CancelWorker /\ wpc = "notice")
  <2>1. /\ notices' = notices \cup {<<item, Outcome>>} /\ UNCHANGED <<rows, item>> /\ wpc' = "notify" /\ wpc = "notice"
      BY <1>9 DEF Notice, CancelWorker
  <2>2. item \in Ids(rows) /\ rows[item].status # "queued" /\ \A n \in notices : n[1] # item
      BY <1>0, <2>1 DEF Told, OneRunning
  <2>3. Outcome = "completed" => rows[item].status = "completed"
      BY <1>0, <2>1 DEF Outcome, Told
  <2>4. \A n \in notices' : n \in notices \/ (n[1] = item /\ n[2] = Outcome /\ n = <<item, Outcome>>)
      BY <2>1
  <2>5. /\ \A n \in notices' :
            /\ n[1] \in Ids(rows') /\ rows'[n[1]].status # "queued"
            /\ n[2] = "completed" => rows'[n[1]].status = "completed"
      BY <1>0, <1>1, <2>1, <2>2, <2>3, <2>4 DEF Told
  <2>6. \A n1, n2 \in notices' : n1[1] = n2[1] => n1 = n2
      BY <1>0, <2>2, <2>4 DEF Told
  <2> QED
      BY <2>1, <2>5, <2>6 DEF Told
<1>10. CASE CancelWorker /\ wpc # "notice"
  <2>1. UNCHANGED <<notices, item>> /\ wpc' \in {"died", "finish", "notice"}
        /\ (wpc' \in {"finish", "notice"} => wpc \in {"run", "finish"} /\ target' # "completed")
      BY <1>10 DEF CancelWorker
  <2>2. wpc' \in {"finish", "notice"} =>
          /\ \A n \in notices : n[1] # item
          /\ rows'[item].status # "queued"
      BY <1>0, <1>1, <2>1 DEF Told, OneRunning
  <2> QED
      BY <1>0, <1>1, <2>1, <2>2 DEF Told
<1>11. CASE Listen \/ Crash
  <2>1. notices' = notices /\ wpc' = "off"
      BY <1>11 DEF Listen, Crash
  <2> QED
      BY <1>0, <1>1, <2>1 DEF Told
<1>12. CASE Start \/ StartFails \/ Stop \/ InterruptRunning \/ Close \/ WakeAll \/ \E c \in Channels : EndSource(c)
  <2>1. UNCHANGED <<notices, item, target>> /\ (wpc' = wpc \/ wpc' = NotifiedWorker \/ wpc' = "enter")
      BY <1>12 DEF Start, StartFails, Stop, InterruptRunning, Close, WakeAll, EndSource
  <2> QED
      BY <1>0, <1>2, <2>1, ToldSame
<1> QED
    BY <1>3, <1>4, <1>5, <1>6, <1>7, <1>8, <1>9, <1>10, <1>11, <1>12 DEF Next, Work, Cleanup

\* Taken rows stay taken.
LEMMA RunsSame ==
    ASSUME IInv, RowsStep, UNCHANGED runs, wpc' = "claimed" => wpc = "claimed" /\ item' = item
    PROVE  RunOnce'
<1>1. RunOnce /\ OneRunning
    BY DEF IInv
<1>2. \A i \in Ids(rows) :
            /\ i \in Ids(rows') /\ rows'[i].msg = rows[i].msg
            /\ rows[i].status # "queued" => rows'[i].status # "queued"
    BY RowsEvolve
<1>3. wpc = "claimed" => item \in Ids(rows)
    BY <1>1 DEF OneRunning
<1> QED
    BY <1>1, <1>2, <1>3 DEF RunOnce

LEMMA RunOnceKept == ASSUME IInv, Next PROVE RunOnce'
<1> USE DEF lvars, rvars, wvars, NotifiedReceivers, NotifiedWorker
<1>0. TypeOK /\ OneRunning /\ RunOnce /\ UniqueRows /\ RowsStep
    BY NextRows DEF IInv
<1>1. CASE Claim
  <2>1. CASE RowClaimed
    <3>1. item' \in Ids(rows) /\ rows[item'].status = "queued" /\ rows'[item'].msg = rows[item'].msg
        BY <1>0, <2>1, ClaimedRunning, RowsEvolve
    <3>2. runs[rows[item'].msg] = 0
      <4>1. rows[item'].msg \in Messages
          BY <1>0, <3>1, RowFacts
      <4> QED
          BY <1>0, <3>1, <4>1 DEF RunOnce, UniqueRows
    <3>3. \A i \in Ids(rows) :
            /\ i \in Ids(rows') /\ rows'[i].msg = rows[i].msg
            /\ rows[i].status # "queued" => rows'[i].status # "queued"
        BY <1>0, RowsEvolve
    <3>4. runs' = runs
        BY <1>1 DEF Claim
    <3> QED
        BY <1>0, <3>1, <3>2, <3>3, <3>4 DEF RunOnce
  <2>2. CASE wpc' = "none" /\ UNCHANGED <<rows, item>>
      BY <1>0, <1>1, <2>2, RunsSame DEF Claim
  <2> QED
      BY <1>1, <2>1, <2>2 DEF Claim, RowClaimed
<1>2. CASE BeginRun
  <2>1. item \in Ids(rows) /\ rows[item].status = "running" /\ UNCHANGED rows /\ wpc' = "run"
      BY <1>0, <1>2 DEF BeginRun, OneRunning, Running, WithStatus
  <2>2. rows[item].msg \in Messages /\ runs[rows[item].msg] = 0
      BY <1>0, <1>2, <2>1, RowFacts DEF RunOnce, BeginRun
  <2>3. runs'[rows[item].msg] = 1 /\ \A m \in Messages : m # rows[item].msg => runs'[m] = runs[m]
      BY <1>0, <1>2, <2>2 DEF BeginRun, TypeOK
  <2> QED
      BY <1>0, <2>1, <2>2, <2>3 DEF RunOnce, Ids
<1>3. ASSUME NEW r \in Receivers, Deliver(r) \/ Receive(r) \/ CancelReceive(r) \/ AdmitFails(r) PROVE RunOnce'
  <2>1. UNCHANGED <<runs, item>> /\ (wpc' = wpc \/ wpc' = NotifiedWorker)
      BY <1>3 DEF Deliver, Receive, Enter, Admit, AwaitCapacity, Return, CancelReceive, AdmitFails
  <2> QED
      BY <1>0, <2>1, RunsSame
<1>4. CASE WorkerEnter \/ ClaimFails \/ NoWork \/ EndRun \/ Finish \/ FinishFails \/ Notice \/ Notify
    BY <1>0, <1>4, RunsSame DEF WorkerEnter, ClaimFails, NoWork, EndRun, Finish, FinishFails, Notice, Notify
<1>5. CASE CancelWorker
    BY <1>0, <1>5, RunsSame DEF CancelWorker
<1>6. CASE Listen \/ Crash
    BY <1>0, <1>6, RunsSame DEF Listen, Crash
<1>7. CASE Start \/ StartFails \/ Stop \/ InterruptRunning \/ Close \/ WakeAll \/ \E c \in Channels : EndSource(c)
  <2>1. UNCHANGED <<runs, item>> /\ (wpc' = wpc \/ wpc' = NotifiedWorker \/ wpc' = "enter")
      BY <1>7 DEF Start, StartFails, Stop, InterruptRunning, Close, WakeAll, EndSource
  <2> QED
      BY <1>0, <2>1, RunsSame
<1> QED
    BY <1>1, <1>2, <1>3, <1>4, <1>5, <1>6, <1>7 DEF Next, Work, Cleanup

-----------------------------------------------------------------------------
(* A clean stop, and the channels of the rows *)

LEMMA SettledKept == ASSUME IInv, Next PROVE Settled'
<1> USE DEF lvars, rvars, wvars, NotifiedReceivers, NotifiedWorker
<1>0. TypeOK /\ OneRunning /\ Settled /\ RowsStep
    BY NextRows DEF IInv
<1>1. ASSUME UNCHANGED rows PROVE Running' = Running
    BY <1>1 DEF Running, WithStatus, Ids
<1>2. ASSUME wpc # "claim" PROVE Running = {} => Running' = {}
  <2>1. CASE RowsGrow
      BY <1>0, <2>1, GrownRunning
  <2>2. CASE RowEnded
      BY <1>0, <2>2, EndedRunning
  <2> QED
      BY <1>0, <1>1, <1>2, <2>1, <2>2 DEF RowsStep, RowClaimed
<1>3. CASE InterruptRunning
  <2>1. wpc' \in AtRest
      BY <1>3 DEF InterruptRunning, Joined, AtRest
  <2>2. clean' => Running' = {}
    <3>1. CASE rows' = Interrupted(rows)
        BY <1>0, <3>1, InterruptedRows DEF OneRunning
    <3>2. CASE clean' = FALSE
        BY <3>2
    <3> QED
        BY <1>3, <3>1, <3>2 DEF InterruptRunning
  <2> QED
      BY <2>1, <2>2 DEF Settled
<1>4. CASE Listen \/ Start \/ StartFails \/ Stop \/ WakeAll \/ Crash
    BY <1>4 DEF Listen, Start, StartFails, Stop, WakeAll, Crash, Settled, AtRest
<1>5. CASE Close
    BY <1>0, <1>1, <1>5 DEF Close, Settled
<1>6. ASSUME UNCHANGED <<phase, clean>>, wpc \in AtRest => wpc' \in AtRest PROVE Settled'
    BY <1>0, <1>2, <1>6 DEF Settled, AtRest
<1>7. ASSUME NEW r \in Receivers, Deliver(r) \/ Receive(r) \/ CancelReceive(r) \/ AdmitFails(r) PROVE Settled'
  <2>1. UNCHANGED <<phase, clean>> /\ (wpc' = wpc \/ wpc' = NotifiedWorker)
      BY <1>7 DEF Deliver, Receive, Enter, Admit, AwaitCapacity, Return, CancelReceive, AdmitFails
  <2> QED
      BY <1>6, <2>1 DEF AtRest
<1>8. CASE WorkerEnter \/ Claim \/ ClaimFails \/ NoWork \/ BeginRun \/ EndRun \/ Finish \/ CancelWorker \/ Notice \/ Notify \/ FinishFails
  <2>1. UNCHANGED <<phase, clean>> /\ wpc \notin AtRest
      BY <1>8 DEF WorkerEnter, Claim, ClaimFails, NoWork, BeginRun, EndRun, Finish, CancelWorker, Notice, Notify, FinishFails, AtRest
  <2> QED
      BY <1>6, <2>1
<1>9. CASE \E c \in Channels : EndSource(c)
  <2>1. UNCHANGED <<phase, clean>> /\ wpc' = NotifiedWorker
      BY <1>9 DEF EndSource
  <2> QED
      BY <1>6, <2>1 DEF AtRest
<1> QED
    BY <1>3, <1>4, <1>5, <1>7, <1>8, <1>9 DEF Next, Work, Cleanup

\* Steps that queue nothing, deliver nothing and take up nothing.
LEMMA RoutedSame ==
    ASSUME IInv, RowsStep, Ids(rows') = Ids(rows), UNCHANGED routes,
           \A r \in Receivers : rpc'[r] # "idle" => rpc[r] # "idle" /\ rmsg'[r] = rmsg[r],
           phase' = "starting" => phase = "starting",
           wpc' \notin AtRest => wpc \notin AtRest,
           wpc' \in Handling => wpc \in Handling /\ item' = item
    PROVE  Routed'
<1>1. Routed /\ OneRunning
    BY DEF IInv
<1>2. \A i \in Ids(rows) :
            /\ rows'[i].msg = rows[i].msg
            /\ rows[i].status # "queued" => rows'[i].status # "queued"
    BY RowsEvolve
<1>3. WithStatus(rows', {"queued"}) \subseteq WithStatus(rows, {"queued"})
    BY <1>2 DEF WithStatus
<1>4. \A i \in WithStatus(rows', {"queued"}) : rows'[i].msg = rows[i].msg
    BY <1>2 DEF WithStatus
<1>5. wpc \in Handling => item \in Ids(rows)
    BY <1>1 DEF OneRunning, Handling
<1>6. Routable'
    BY <1>1, <1>2, <1>5 DEF Routable, Routed, Handling
<1> QED
    BY <1>1, <1>3, <1>4, <1>6 DEF Routed

LEMMA RoutedKept == ASSUME IInv, Next PROVE Routed'
<1> USE DEF lvars, rvars, wvars, NotifiedReceivers, NotifiedWorker, Ended
<1>0. TypeOK /\ OneRunning /\ Callbacks /\ Settled /\ Routed /\ RowsStep
    BY NextRows DEF IInv
<1>1. rows' = rows => Ids(rows') = Ids(rows)
    BY DEF Ids
<1>2. RowEnded => Ids(rows') = Ids(rows)
    BY EndedRunning
<1>3. ASSUME NEW r \in Receivers, Deliver(r) PROVE Routed'
  <2>1. /\ UNCHANGED <<rows, phase, routes, wpc, item>> /\ phase # "starting"
        /\ ChannelOf[rmsg'[r]] \in routes
        /\ \A s \in Receivers \ {r} : rpc'[s] = rpc[s] /\ rmsg'[s] = rmsg[s]
      BY <1>0, <1>3 DEF Deliver, TypeOK
  <2>2. Routable'
      BY <1>0, <2>1 DEF Routable, Routed
  <2> QED
      BY <1>0, <2>1, <2>2 DEF Routed, WithStatus, Ids
<1>4. ASSUME NEW r \in Receivers, Admit(r) PROVE Routed'
  <2>1. /\ UNCHANGED <<rmsg, phase, routes, wpc, item>> /\ rpc[r] # "idle" /\ rmsg[r] \in Messages
        /\ \A s \in Receivers \ {r} : rpc'[s] = rpc[s]
      BY <1>0, <1>4 DEF Admit, Callbacks, TypeOK
  <2>2. CASE UNCHANGED rows
    <3>1. Routable'
        BY <1>0, <2>1, <2>2 DEF Routable, Routed
    <3> QED
        BY <1>0, <2>1, <2>2, <3>1 DEF Routed, WithStatus, Ids
  <2>3. CASE rows' = Append(rows, [msg |-> rmsg[r], status |-> "queued"])
    <3>1. /\ Ids(rows') = Ids(rows) \cup {Len(rows) + 1}
          /\ \A j \in Ids(rows) : rows'[j] = rows[j]
          /\ rows'[Len(rows) + 1].msg = rmsg[r]
      <4> HIDE DEF Ended, NotifiedReceivers, NotifiedWorker
      <4>1. /\ Ids(rows') = Ids(rows) \cup {Len(rows) + 1}
            /\ \A j \in Ids(rows) : rows'[j] = rows[j]
            /\ rows'[Len(rows) + 1] = [msg |-> rmsg[r], status |-> "queued"]
          BY <1>0, <2>1, <2>3, RowAppended
      <4> QED
          BY <4>1
    <3>2. wpc \in Handling => item \in Ids(rows)
        BY <1>0 DEF OneRunning, Handling
    <3>3. Routable'
        BY <1>0, <2>1, <3>1, <3>2 DEF Routable, Routed, Handling
    <3>4. \A i \in WithStatus(rows', {"queued"}) :
              (i \in WithStatus(rows, {"queued"}) /\ rows'[i] = rows[i]) \/ rows'[i].msg = rmsg[r]
        BY <3>1 DEF WithStatus
    <3> QED
        BY <1>0, <2>1, <3>3, <3>4 DEF Routed
  <2> QED
      BY <1>4, <2>2, <2>3 DEF Admit, Admitted
<1>5. ASSUME NEW r \in Receivers, Enter(r) \/ AwaitCapacity(r) \/ Return(r) \/ CancelReceive(r) \/ AdmitFails(r) PROVE Routed'
  <2>1. UNCHANGED <<rows, phase, routes, item>> /\ (wpc' = wpc \/ wpc' = NotifiedWorker)
      BY <1>5 DEF Enter, AwaitCapacity, Return, CancelReceive, AdmitFails
  <2>2. \A s \in Receivers : rpc'[s] # "idle" => rpc[s] # "idle" /\ rmsg'[s] = rmsg[s]
    <3> USE DEF TypeOK
    <3>1. CASE Enter(r)
        BY <1>0, <3>1 DEF Enter
    <3>2. CASE AwaitCapacity(r)
        BY <1>0, <3>2 DEF AwaitCapacity
    <3>3. CASE Return(r)
        BY <1>0, <3>3 DEF Return
    <3>4. CASE CancelReceive(r)
        BY <1>0, <3>4 DEF CancelReceive
    <3>5. CASE AdmitFails(r)
        BY <1>0, <3>5 DEF AdmitFails
    <3> QED
        BY <1>5, <3>1, <3>2, <3>3, <3>4, <3>5
  <2> QED
      BY <1>0, <1>1, <2>1, <2>2, RoutedSame DEF AtRest, Handling
<1>6. CASE Claim
  <2>1. UNCHANGED <<phase, routes, rpc, rmsg>> /\ wpc = "claim"
      BY <1>6 DEF Claim
  <2>2. CASE RowClaimed
    <3>1. item' \in Ids(rows) /\ rows[item'].status = "queued" /\ rows' = [rows EXCEPT ![item'].status = "running"]
        BY <1>0, <2>2, ClaimedRunning DEF RowClaimed, Claimed
    <3>2. Ids(rows') = Ids(rows) /\ \A j \in Ids(rows) : rows'[j].msg = rows[j].msg
        BY <1>0, <3>1, RowUpdated DEF Statuses
    <3>3. WithStatus(rows', {"queued"}) \subseteq WithStatus(rows, {"queued"})
        BY <1>0, <3>2, RowsEvolve DEF WithStatus
    <3>4. item' \in WithStatus(rows, {"queued"})
        BY <3>1 DEF WithStatus
    <3>5. wpc \notin AtRest
        BY <2>1 DEF AtRest
    <3>6. ChannelOf[rows'[item'].msg] \in routes
        BY <1>0, <3>1, <3>2, <3>4, <3>5 DEF Routed
    <3>7. \A i \in WithStatus(rows', {"queued"}) : i \in Ids(rows)
        BY <3>2 DEF WithStatus
    <3> QED
        BY <1>0, <2>1, <3>2, <3>3, <3>5, <3>6, <3>7 DEF Routed, Routable
  <2>3. CASE wpc' = "none" /\ UNCHANGED <<rows, item>>
      BY <1>0, <1>1, <2>1, <2>3, RoutedSame DEF AtRest, Handling
  <2> QED
      BY <1>6, <2>1, <2>2, <2>3 DEF Claim, RowClaimed
<1>7. CASE Finish \/ CancelWorker
  <2>1. /\ UNCHANGED <<phase, routes, rpc, rmsg, item>> /\ wpc \notin AtRest
        /\ wpc' \in Handling => wpc \in Handling
      BY <1>7 DEF Finish, CancelWorker, AtRest, Handling
  <2>2. UNCHANGED rows \/ RowEnded
    <3>1. CASE UNCHANGED rows
        BY <3>1
    <3>2. CASE wpc = "finish" /\ rows' = Finished(rows, item, target)
        BY <1>0, <3>2, FinishedRows DEF OneRunning
    <3> QED
        BY <1>7, <3>1, <3>2 DEF Finish, CancelWorker
  <2> QED
      BY <1>0, <1>1, <1>2, <2>1, <2>2, RoutedSame
<1>8. CASE WorkerEnter \/ ClaimFails \/ NoWork \/ BeginRun \/ EndRun \/ FinishFails \/ Notice
    BY <1>0, <1>1, <1>8, RoutedSame
       DEF WorkerEnter, ClaimFails, NoWork, BeginRun, EndRun, FinishFails, Notice, AtRest, Handling
<1>9. CASE Notify \/ Stop \/ StartFails \/ WakeAll \/ \E c \in Channels : EndSource(c)
  <2>1. /\ UNCHANGED <<rows, routes, rmsg, item>> /\ (rpc' = rpc \/ rpc' = NotifiedReceivers)
        /\ phase' = "starting" => phase = "starting"
      BY <1>9 DEF Notify, Stop, StartFails, WakeAll, EndSource
  <2>2. (wpc' \notin AtRest => wpc \notin AtRest) /\ (wpc' \in Handling => wpc \in Handling)
      BY <1>9 DEF Notify, Stop, StartFails, WakeAll, EndSource, AtRest, Handling
  <2> QED
      BY <1>0, <1>1, <2>1, <2>2, RoutedSame
<1>10. CASE Start
  <2>1. /\ UNCHANGED <<rows, routes, rpc, rmsg>> /\ phase = "starting" /\ phase' = "listening" /\ wpc' = "enter"
        /\ \A i \in WithStatus(rows, {"queued"}) : ChannelOf[rows[i].msg] \in routes
      BY <1>10 DEF Start
  <2> QED
      BY <1>0, <2>1 DEF Routed, Routable, WithStatus, Ids
<1>11. CASE Listen \/ Crash
  <2>1. wpc' = "off" /\ \A r \in Receivers : rpc'[r] = "idle"
      BY <1>11 DEF Listen, Crash
  <2> QED
      BY <2>1 DEF Routed, Routable, AtRest
<1>12. CASE InterruptRunning \/ Close
  <2>1. UNCHANGED <<wpc, rpc>> /\ wpc \in AtRest /\ phase' # "starting"
      BY <1>0, <1>12 DEF InterruptRunning, Close, Joined, Settled, AtRest
  <2> QED
      BY <2>1 DEF Routed, Routable, AtRest
<1> QED
    BY <1>3, <1>4, <1>5, <1>6, <1>7, <1>8, <1>9, <1>10, <1>11, <1>12 DEF Next, Receive, Work, Cleanup

-----------------------------------------------------------------------------

LEMMA InitInv == ASSUME Init PROVE IInv
<1>1. rows = <<>> /\ Ids(rows) = {} /\ Running = {}
    BY DEF Init, Ids, Running, WithStatus
<1>2. TypeOK
  <2>1. rows \in Seq(RowType)
      BY <1>1
  <2> QED
      BY <2>1 DEF Init, TypeOK
<1> QED
    BY <1>1, <1>2 DEF Init, IInv, UniqueRows, Callbacks, AckedIsDurable, OneRunning, Told, RunOnce, Settled, Routed, Routable,
                      AtRest, WithStatus

LEMMA StepInv == ASSUME IInv, [Next]_vars PROVE IInv'
<1>1. CASE Next
    BY <1>1, TypeKept, CallbacksKept, OneRunningKept, ToldKept, RunOnceKept, SettledKept, RoutedKept, NextRows, RowsEvolve DEF IInv
<1>2. CASE UNCHANGED vars
    BY <1>2 DEF vars, lvars, rvars, wvars, IInv, TypeOK, UniqueRows, Callbacks, AckedIsDurable, Known, OneRunning,
                Running, WithStatus, Ids, Told, RunOnce, Settled, Routed, Routable
<1> QED
    BY <1>1, <1>2

LEMMA Inductive == Spec => []IInv
    BY InitInv, StepInv, PTL DEF Spec

(* Every variable keeps its type.  *)
THEOREM TypeCorrect == Spec => []TypeOK
<1>1. IInv => TypeOK
    BY DEF IInv
<1> QED
    BY <1>1, Inductive, PTL

(* No message is handed to the agent twice, whatever is redelivered,        *)
(* cancelled or crashed, nor by a listener without its channel; a connector *)
(* is told of the end of a row once, and of "completed" only when the row   *)
(* says so; and a clean stop leaves no row running.                         *)
THEOREM Accounted == Spec => []RowsAreAccounted
<1>1. IInv => RowsAreAccounted
    BY DEF IInv, RunOnce, Told, Settled, Routed, Running, RowsAreAccounted, AtMostOnce, NoticesAreFinal, CleanStop
<1> QED
    BY <1>1, Inductive, PTL

(* A message whose receive callback returned normally is in the database.   *)
THEOREM Durable == Spec => []AckedIsDurable
<1>1. IInv => AckedIsDurable
    BY DEF IInv
<1> QED
    BY <1>1, Inductive, PTL

-----------------------------------------------------------------------------
(* The rows implement the abstract inbox *)

Accepted == [i \in Ids(rows) |-> rows[i].msg]
Begun == Ids(rows) \ WithStatus(rows, {"queued"})

LEMMA AcceptedFacts ==
    ASSUME TypeOK
    PROVE  Len(Accepted) = Len(rows) /\ Accepted \in Seq(Messages) /\ Promise!Positions = Ids(rows)
<1>1. Len(rows) \in Nat /\ Ids(rows) = 1..Len(rows) /\ \A i \in Ids(rows) : rows[i].msg \in Messages
    BY RowFacts
<1>2. Accepted \in [1..Len(rows) -> Messages]
    BY <1>1 DEF Accepted
<1>3. Accepted \in Seq(Messages)
    BY <1>1, <1>2, SeqDef
<1>4. Len(Accepted) = Len(rows)
    BY <1>1, <1>2, <1>3, LenProperties
<1> QED
    BY <1>1, <1>3, <1>4 DEF Promise!Positions, Accepted

\* The rows are finitely many.
LEMMA PendingFinite ==
    ASSUME TypeOK
    PROVE  /\ Ids(rows) \ WithStatus(rows, Over) = WithStatus(rows, {"queued", "running"})
           /\ Cardinality(WithStatus(rows, {"queued", "running"})) \in Nat
<1>1. Len(rows) \in Nat /\ Ids(rows) = 1..Len(rows) /\ \A i \in Ids(rows) : rows[i].status \in Statuses
    BY RowFacts
<1>2. IsFiniteSet(1..Len(rows))
    BY <1>1, FS_Interval
<1>3. WithStatus(rows, {"queued", "running"}) \subseteq 1..Len(rows)
    BY <1>1 DEF WithStatus
<1>4. IsFiniteSet(WithStatus(rows, {"queued", "running"}))
    BY <1>2, <1>3, FS_Subset
<1> QED
    BY <1>1, <1>4, FS_CardinalityType DEF WithStatus, Over, Statuses

\* The instance counts as this module does.
LEMMA SameCount == ASSUME NEW S PROVE Promise!Cardinality(S) = Cardinality(S)
    BY DEF Promise!Cardinality, Cardinality

LEMMA GrowAccepts == ASSUME IInv, RowsGrow PROVE Promise!PNext
<1>0. TypeOK
    BY DEF IInv
<1>1. PICK m \in Messages :
        ~Known(rows, m) /\ ~Full(rows) /\ rows' = Append(rows, [msg |-> m, status |-> "queued"])
    BY DEF RowsGrow
<1>2. /\ Len(rows') = Len(rows) + 1 /\ Len(rows) \in Nat
      /\ Ids(rows') = Ids(rows) \cup {Len(rows) + 1} /\ Len(rows) + 1 \notin Ids(rows)
      /\ \A j \in Ids(rows) : rows'[j] = rows[j]
      /\ rows'[Len(rows) + 1] = [msg |-> m, status |-> "queued"]
      /\ Ids(rows') = 1..(Len(rows) + 1) /\ Ids(rows) = 1..Len(rows)
    BY <1>0, <1>1, RowAppended, RowFacts DEF Ids
<1>3. \A i \in Promise!Positions : Accepted[i] # m
    BY <1>0, <1>1, AcceptedFacts DEF Known, Accepted
<1>4. Cardinality(Promise!Positions \ WithStatus(rows, Over)) < InboxLimit
  <2>1. Promise!Positions \ WithStatus(rows, Over) = WithStatus(rows, {"queued", "running"})
      BY <1>0, AcceptedFacts, PendingFinite
  <2> DEFINE c == Cardinality(WithStatus(rows, {"queued", "running"}))
  <2>2. c \in Nat /\ InboxLimit \in Nat /\ ~(c >= InboxLimit)
      BY <1>0, <1>1, PendingFinite, InboxAssumption DEF Full
  <2> HIDE DEF c
  <2>3. c < InboxLimit
      BY <2>2
  <2> QED
      BY <2>1, <2>3 DEF c
<1>5. Accepted' = Append(Accepted, m)
  <2>0. Accepted \in Seq(Messages) /\ Len(Accepted) = Len(rows)
      BY <1>0, AcceptedFacts
  <2>01. /\ Append(Accepted, m) \in Seq(Messages) /\ Len(Append(Accepted, m)) = Len(rows) + 1
         /\ \A i \in 1..Len(rows) : Append(Accepted, m)[i] = Accepted[i]
         /\ Append(Accepted, m)[Len(rows) + 1] = m
      BY <2>0, AppendProperties
  <2>1. Append(Accepted, m) \in [1..(Len(rows) + 1) -> Messages]
      BY <2>01, LenProperties
  <2>2. Accepted' = [i \in 1..(Len(rows) + 1) |-> rows'[i].msg]
      BY <1>2 DEF Accepted
  <2>3. \A i \in 1..(Len(rows) + 1) : rows'[i].msg = Append(Accepted, m)[i]
    <3>1. ASSUME NEW i \in 1..Len(rows) PROVE rows'[i].msg = Append(Accepted, m)[i]
        BY <1>2, <2>01, <3>1 DEF Accepted
    <3>2. rows'[Len(rows) + 1].msg = Append(Accepted, m)[Len(rows) + 1]
        BY <1>2, <2>01
    <3> QED
        BY <1>2, <3>1, <3>2
  <2> QED
      BY <2>1, <2>2, <2>3
<1>6. Begun' = Begun /\ WithStatus(rows', Over) = WithStatus(rows, Over)
    BY <1>2 DEF Begun, WithStatus, Over
<1>7. Promise!Accept(m)
  <2>1. \A i \in Promise!Positions : [j \in Ids(rows) |-> rows[j].msg][i] # m
      BY <1>3 DEF Accepted
  <2>2. Promise!Cardinality(Promise!Positions \ WithStatus(rows, {"completed", "failed", "interrupted"})) < InboxLimit
      BY <1>4, SameCount DEF Over
  <2>3. [j \in Ids(rows') |-> rows'[j].msg] = Append([j \in Ids(rows) |-> rows[j].msg], m)
      BY <1>5 DEF Accepted
  <2>4. UNCHANGED <<Begun, WithStatus(rows, Over)>>
      BY <1>6
  <2> QED
      BY <2>1, <2>2, <2>3, <2>4 DEF Promise!Accept, Begun, Over
<1> QED
    BY <1>1, <1>7 DEF Promise!PNext

LEMMA SameMessages ==
    ASSUME IInv, RowsStep, Ids(rows') = Ids(rows)
    PROVE  Accepted' = Accepted
    BY RowsEvolve DEF Accepted

LEMMA ClaimBegins == ASSUME IInv, RowClaimed PROVE Promise!PNext
<1>0. TypeOK /\ Running = {} /\ RowsStep
    BY DEF IInv, OneRunning, RowClaimed, RowsStep
<1>1. item' \in Ids(rows) /\ rows[item'].status = "queued" /\ rows' = [rows EXCEPT ![item'].status = "running"]
      /\ \A j \in WithStatus(rows, {"queued"}) : item' <= j
    BY DEF RowClaimed, FirstQueued, WithStatus, Claimed
<1>2. Ids(rows') = Ids(rows) /\ rows'[item'].status = "running" /\ \A j \in Ids(rows) : j # item' => rows'[j] = rows[j]
    BY <1>0, <1>1, RowUpdated DEF Statuses
<1>3. \A i \in Ids(rows) : rows[i].status \in Statuses /\ i \in Nat
    BY <1>0, RowFacts
<1>4. Begun = WithStatus(rows, Over)
    BY <1>0, <1>3 DEF Begun, Running, WithStatus, Over, Statuses
<1>5. \A j \in Ids(rows) : j < item' => j \in Begun
    BY <1>1, <1>3 DEF Begun
<1>6. item' \notin Begun /\ Begun' = Begun \cup {item'}
    BY <1>1, <1>2 DEF Begun, WithStatus
<1>7. WithStatus(rows', Over) = WithStatus(rows, Over)
    BY <1>1, <1>2 DEF WithStatus, Over
<1>8. Promise!Begin(item')
    BY <1>0, <1>2, <1>4, <1>5, <1>6, <1>7, SameMessages, AcceptedFacts DEF Promise!Begin, Accepted, Begun, Over
<1> QED
    BY <1>0, <1>1, <1>8, AcceptedFacts DEF Promise!PNext

LEMMA EndedEnds == ASSUME IInv, RowEnded PROVE Promise!PNext
<1>0. TypeOK /\ RowsStep
    BY DEF IInv, RowsStep
<1>1. PICK s \in Over : rows' = [rows EXCEPT ![item].status = s]
    BY DEF RowEnded
<1>2. item \in Ids(rows) /\ rows[item].status = "running" /\ s \in Statuses
    BY DEF RowEnded, Running, WithStatus, Over, Statuses
<1>3. Ids(rows') = Ids(rows) /\ rows'[item].status = s /\ \A j \in Ids(rows) : j # item => rows'[j] = rows[j]
    BY <1>0, <1>1, <1>2, RowUpdated
<1>4. item \in Begun \ WithStatus(rows, Over)
    BY <1>2 DEF Begun, WithStatus, Over
<1>5. Begun' = Begun /\ WithStatus(rows', Over) = WithStatus(rows, Over) \cup {item}
    BY <1>2, <1>3 DEF Begun, WithStatus, Over
<1>6. Promise!End(item)
    BY <1>0, <1>3, <1>4, <1>5, SameMessages DEF Promise!End, Accepted, Begun, Over
<1> QED
    BY <1>0, <1>2, <1>6, AcceptedFacts DEF Promise!PNext

(* The inbox implements InboxPromise: messages are accepted at most once    *)
(* and within the limit, handed over one at a time in the order of their    *)
(* acceptance, and never again, over stops, crashes and restarts.           *)
THEOREM ImplementsPromise == Spec => KeepsPromise
<1>1. Init => Promise!PInit
  <2>1. ASSUME Init PROVE Promise!PInit
    <3>1. rows = <<>> /\ Ids(rows) = {}
        BY <2>1 DEF Init, Ids
    <3>2. Accepted = <<>>
        BY <3>1 DEF Accepted
    <3> QED
        BY <3>1, <3>2 DEF Promise!PInit, Accepted, WithStatus
  <2> QED
      BY <2>1
<1>2. IInv /\ [Next]_vars => [Promise!PNext]_(Promise!pvars)
  <2>1. ASSUME IInv, Next PROVE Promise!PNext \/ UNCHANGED Promise!pvars
    <3>1. CASE UNCHANGED rows
        BY <3>1 DEF Promise!pvars, Ids, WithStatus
    <3> QED
        BY <2>1, <3>1, NextRows, GrowAccepts, ClaimBegins, EndedEnds DEF RowsStep
  <2>2. ASSUME UNCHANGED vars PROVE UNCHANGED Promise!pvars
      BY <2>2 DEF vars, Promise!pvars, Ids, WithStatus
  <2> QED
      BY <2>1, <2>2
<1> QED
    BY <1>1, <1>2, Inductive, PTL DEF Spec, KeepsPromise, Promise!PSpec

-----------------------------------------------------------------------------
(***************************************************************************)
(* The batch jobs, over the instance B: JobsAreNotLost.  A job is followed *)
(* by what each actor has done for it where it is, and by how far          *)
(* resume_all has got with it.                                             *)
(***************************************************************************)

PCs == {"none"} \cup B!Processing \cup B!MonitorOnly \cup B!ResumeOnly
WorkRecord == [pc : PCs, job : Jobs \cup {0}, seen : B!Statuses, got : SUBSET Requests, stop : BOOLEAN]
RowRecord == [status : B!Statuses, processed : BOOLEAN]
AskRecord == [pc : {"none", "get", "update", "drop"}, job : Jobs \cup {0}, seen : B!Statuses, cancel : BOOLEAN]

JobTypes ==
    /\ bremote \in [Jobs -> B!Statuses] /\ berrors \in [Jobs -> SUBSET Requests]
    /\ brow \in [Jobs -> RowRecord] /\ bsaved \in [Jobs -> SUBSET Requests]
    /\ bknown \subseteq Named /\ bcreating \subseteq Jobs \X BOOLEAN /\ btodo \subseteq Jobs
    /\ bhanded \subseteq Jobs /\ bskipped \subseteq Jobs /\ bdue \subseteq Jobs /\ bopen \in BOOLEAN
    /\ basks \in 0 .. MaxAsks /\ bfaults \in 0 .. MaxFaults /\ brestarts \in 0 .. MaxRestarts
WorkTypes == bwork \in [B!Actors -> WorkRecord]
Types == JobTypes /\ WorkTypes /\ bentry \in [Jobs -> B!Tasks \cup {B!NoTask}] /\ bask \in AskRecord

JobFinished(s) == s \in {"done", "failed"}
Busy(a) == bwork[a].pc # "none"

\* A job that was not submitted, or whose row is not saved yet: nobody has
\* anything to do with it.
Unborn(j) == bremote[j] = "none" \/ <<j, FALSE>> \in bcreating
Births ==
    /\ \A p, q \in bcreating : p = q
    /\ \A p \in bcreating : bremote[p[1]] # "none"
    /\ \A j \in Jobs : Unborn(j) => ~B!Present(j) /\ j \notin btodo /\ \A a \in B!Actors : Busy(a) => B!Job(a) # j
    /\ bask.pc # "none" => ~Unborn(bask.job)
    /\ \A j \in bdue : ~Unborn(j)

\* Where tasks and calls are: a monitor works on its own job, only monitors
\* are stopped, and what is registered is a monitor under way.
Places ==
    /\ \A a \in B!Tasks : Busy(a) => B!Job(a) = a[1] /\ bwork[a].pc \in B!Processing \cup B!MonitorOnly
    /\ bwork[B!Resume].pc \in {"none"} \cup B!Processing \cup B!ResumeOnly /\ ~bwork[B!Resume].stop
    /\ bwork[B!Resume].pc \in B!Processing => B!Job(B!Resume) \in Jobs
    /\ \A a \in B!Actors : (bwork[a].stop => Busy(a)) /\ (~Busy(a) => B!Job(a) = 0)
    /\ \A j \in Jobs : bentry[j] # B!NoTask =>
          bentry[j] \in B!Tasks /\ bentry[j][1] = j /\ Busy(bentry[j]) /\ ~bwork[bentry[j]].stop
    /\ bask.pc # "none" => bask.job \in Jobs
    /\ \A a \in B!Tasks : bwork[a].pc = "update" => bwork[a].seen # "none"
    /\ bask.pc = "update" => bask.seen # "none"

\* What an actor has done for its job by the time it gets to a place.  The
\* results matter only while the row is there: they go with it.
OnRecord(j) == bremote[j] = "done" /\ (B!Present(j) => B!Stream(j) \subseteq bsaved[j])
HandedOut(a) ==
    /\ bwork[a].pc \in B!Processing \cup B!MonitorOnly /\ B!Present(B!Job(a)) => bwork[a].got \subseteq bsaved[B!Job(a)]
    /\ bwork[a].pc = "fetch" => bremote[B!Job(a)] = "done"
    /\ bwork[a].pc = "call" => OnRecord(B!Job(a))
    /\ bwork[a].pc = "mark" /\ B!Job(a) \in Named \ bskipped => B!Job(a) \in bhanded /\ OnRecord(B!Job(a))
    /\ bwork[a].pc = "leave" /\ B!Present(B!Job(a)) => brow[B!Job(a)].processed

\* A status on its way to the row is no newer than the one at the provider;
\* and a job that is finished and left to nobody is not reopened by an answer
\* that came late, for then resume_all might find it in neither query.
Late(j) == bask.pc = "update" /\ bask.job = j /\ ~JobFinished(bask.seen)
Resuming == bwork[B!Resume].pc # "none"
Left(j) == B!Present(j) /\ ~brow[j].processed /\ ~B!Watched(j)
Seen ==
    /\ \A j \in Jobs : JobFinished(brow[j].status) => JobFinished(bremote[j])
    /\ \A a \in B!Tasks : bwork[a].pc = "update" /\ JobFinished(bwork[a].seen) => JobFinished(bremote[a[1]])
    /\ bask.pc = "update" /\ JobFinished(bask.seen) => JobFinished(bremote[bask.job])
    /\ bopen => \A a \in B!Tasks : bwork[a].stop /\ bwork[a].pc = "update" /\ JobFinished(bwork[a].seen) => ~Late(a[1])
    /\ \A j \in Jobs : (bopen \/ (Resuming /\ j \in bdue)) /\ JobFinished(brow[j].status) /\ Left(j) => ~Late(j)

\* How far resume_all has got with a job that was due when it was called.
DueOf(j) ==
    /\ \A a \in B!Tasks : a[1] = j => ~bwork[a].stop
    /\ Left(j) =>
        /\ bwork[B!Resume].pc = "start" => j \in btodo \/ JobFinished(brow[j].status)
        /\ bwork[B!Resume].pc = "completed" => JobFinished(brow[j].status)
        /\ bwork[B!Resume].pc \in {"next"} \cup B!Processing =>
              j \in btodo \/ (bwork[B!Resume].pc \in B!Processing /\ B!Job(B!Resume) = j)
Dues == Resuming => \A j \in bdue : DueOf(j)

\* The inductive invariant.
Marks == \A a \in B!Actors : HandedOut(a)
JobsInv == Types /\ Births /\ Places /\ Marks /\ Seen /\ Dues /\ B!NothingMarkedUnhandled


\* What happens to the actors in a step of one of them.
Others(a) == \A b \in B!Actors : b # a => bwork'[b] = bwork[b]
Moves(a, p) ==
    /\ bwork'[a].pc = p /\ bwork'[a].job = bwork[a].job /\ bwork'[a].stop = bwork[a].stop
    /\ Others(a)

\* What is on record stays so while the row is there.
Grows ==
    /\ bhanded \subseteq bhanded' /\ bskipped \subseteq bskipped'
    /\ \A j \in Jobs : bremote[j] = "done" => bremote'[j] = "done" /\ berrors'[j] = berrors[j]
    /\ \A j \in Jobs : ~Unborn(j) /\ brow'[j].status # "none" =>
          brow[j].status # "none" /\ bsaved[j] \subseteq bsaved'[j] /\ (brow[j].processed => brow'[j].processed)
Unmarked ==
    \A j \in Jobs : brow'[j].processed => brow[j].processed /\ bsaved[j] \subseteq bsaved'[j]

\* Who there is.
LEMMA ActorFacts ==
    ASSUME B!BatchAssumption
    PROVE  /\ B!Tasks \subseteq B!Actors /\ B!Resume \in B!Actors /\ B!Resume \notin B!Tasks /\ B!NoTask \notin B!Actors
           /\ \A a \in B!Tasks : a[1] \in Jobs /\ a = <<a[1], a[2]>> /\ a[2] \in 1 .. MaxTasks
           /\ B!Actors = B!Tasks \cup {B!Resume}
           /\ 0 \notin Jobs /\ Jobs \subseteq Nat
<1>1. Jobs \subseteq Nat /\ 0 \notin Jobs
    BY DEF B!BatchAssumption
<1> QED
    BY <1>1 DEF B!Actors, B!Tasks, B!Resume, B!NoTask

LEMMA WorkFields ==
    ASSUME WorkTypes, NEW a \in B!Actors
    PROVE  /\ bwork[a].pc \in PCs /\ bwork[a].job \in Jobs \cup {0} /\ bwork[a].seen \in B!Statuses
           /\ bwork[a].got \in SUBSET Requests /\ bwork[a].stop \in BOOLEAN
BY DEF WorkTypes, WorkRecord

\* The job of an actor at work on one.
LEMMA JobOfActor ==
    ASSUME B!BatchAssumption, Places, NEW a \in B!Actors, bwork[a].pc \in B!Processing \cup B!MonitorOnly
    PROVE  B!Job(a) \in Jobs /\ (a \in B!Tasks => B!Job(a) = a[1])
<1>1. CASE a \in B!Tasks
    BY <1>1, ActorFacts DEF Places, Busy, B!Processing, B!MonitorOnly
<1>2. CASE a = B!Resume
    BY <1>2, ActorFacts DEF Places, B!Processing, B!MonitorOnly, B!ResumeOnly
<1> QED
    BY <1>1, <1>2, ActorFacts

\* What an actor has done stays done while others go on.
LEMMA MarksFrame ==
    ASSUME B!BatchAssumption, Births, Places, Grows, NEW b \in B!Actors, HandedOut(b),
           bwork'[b].pc = bwork[b].pc, bwork'[b].job = bwork[b].job, bwork'[b].got = bwork[b].got
    PROVE  HandedOut(b)'
<1>1. CASE bwork[b].pc \in B!Processing \cup B!MonitorOnly
  <2>1. PICK j \in Jobs : bwork[b].job = j /\ bwork'[b].job = j
      BY <1>1, JobOfActor DEF B!Job
  <2>3. ~Unborn(j)
      BY <1>1, <2>1 DEF Births, Busy, B!Job, B!Processing, B!MonitorOnly
  <2>2. OnRecord(j) => OnRecord(j)'
      BY <2>3 DEF Grows, OnRecord, B!Stream, B!Present
  <2> QED
      BY <2>1, <2>2, <2>3 DEF HandedOut, Grows, B!Job, B!Present
<1>2. CASE bwork[b].pc \notin B!Processing \cup B!MonitorOnly
    BY <1>2 DEF HandedOut, B!Processing, B!MonitorOnly
<1> QED
    BY <1>1, <1>2

\* A step that marks no row.
LEMMA UnmarkedFrame ==
    ASSUME B!NothingMarkedUnhandled, Named \subseteq Jobs, Unmarked,
           bhanded \subseteq bhanded', bskipped \subseteq bskipped',
           \A j \in Jobs : bremote[j] = "done" => bremote'[j] = "done" /\ berrors'[j] = berrors[j]
    PROVE  B!NothingMarkedUnhandled'
<1> SUFFICES ASSUME NEW j \in Named, j \notin bskipped', brow'[j].processed
             PROVE  j \in bhanded' /\ bremote'[j] = "done" /\ B!Stream(j)' \subseteq bsaved'[j]
    BY DEF B!NothingMarkedUnhandled
<1>1. j \in bhanded /\ bremote[j] = "done" /\ B!Stream(j) \subseteq bsaved[j]
    BY DEF B!NothingMarkedUnhandled, Unmarked
<1>2. B!Stream(j)' = B!Stream(j)
    BY <1>1 DEF B!Stream
<1> QED
    BY <1>1, <1>2 DEF Unmarked

\* The rows of the jobs that are left alone change for none but these.
RowsTold ==
    /\ \A j \in Jobs : (brow'[j].status # "none" <=> brow[j].status # "none")
    /\ \A j \in Jobs : JobFinished(brow'[j].status) => JobFinished(bremote[j])
KeptFor(j) == brow'[j] = brow[j] \/ ~Left(j)'

\* Steps of an actor that goes on with its job.
LEMMA MoveFrame ==
    ASSUME B!BatchAssumption, JobsInv, NEW a \in B!Actors, NEW p, Moves(a, p), Busy(a),
           a \in B!Tasks => p \in B!Processing \cup B!MonitorOnly,
           a = B!Resume => p \in B!Processing \cup {"next"} /\ bwork[a].pc \in B!Processing,
           p = "next" => ~Left(B!Job(a))',
           p = "update" => /\ ~bwork[a].stop /\ bwork'[a].seen # "none"
                           /\ (JobFinished(bwork'[a].seen) => JobFinished(bremote[a[1]])),
           RowsTold, \A j \in Jobs : KeptFor(j),
           UNCHANGED <<bopen, bremote, bcreating, bentry, btodo, bask, bdue>>
    PROVE  Births' /\ Places' /\ Seen' /\ Dues'
<1>0. bopen' = bopen /\ bremote' = bremote /\ bcreating' = bcreating /\ bentry' = bentry /\ btodo' = btodo
      /\ bask' = bask /\ bdue' = bdue
    OBVIOUS
<1>1. Births /\ Places /\ Seen /\ Dues
    BY DEF JobsInv
<1>p. p # "none"
    BY ActorFacts DEF B!Processing, B!MonitorOnly
<1>r. \A j \in Jobs : (brow'[j].status = "none" <=> brow[j].status = "none")
    BY DEF RowsTold
<1>2. \A b \in B!Actors : /\ bwork'[b].job = bwork[b].job /\ bwork'[b].stop = bwork[b].stop
                          /\ (bwork'[b].pc # "none" <=> bwork[b].pc # "none")
                          /\ (b # a => bwork'[b] = bwork[b])
    BY <1>p DEF Moves, Others, Busy
<1>3. bwork'[a].pc = p
    BY DEF Moves
<1>4. Births'
  <2>1. \A b \in B!Actors : bwork'[b].job = bwork[b].job /\ (bwork'[b].pc = "none" <=> bwork[b].pc = "none")
      BY <1>2
  <2> QED
      BY <1>0, <1>1, <1>r, <2>1 DEF Births, Unborn, B!Present, Busy, B!Job
<1>5. Places'
  <2>1. \A b \in B!Tasks : Busy(b)' => bwork'[b].job = b[1] /\ bwork'[b].pc \in B!Processing \cup B!MonitorOnly
      BY <1>1, <1>2, <1>3, ActorFacts DEF Places, Busy, B!Job
  <2>2. /\ bwork'[B!Resume].pc \in {"none"} \cup B!Processing \cup B!ResumeOnly /\ ~bwork'[B!Resume].stop
        /\ bwork'[B!Resume].pc \in B!Processing => bwork'[B!Resume].job \in Jobs
      BY <1>1, <1>2, <1>3, ActorFacts DEF Places, B!Job, B!Processing, B!ResumeOnly
  <2>3. \A b \in B!Actors : (bwork'[b].stop => Busy(b)') /\ (~Busy(b)' => bwork'[b].job = 0)
      BY <1>1, <1>2 DEF Places, Busy, B!Job
  <2>4. \A j \in Jobs : bentry'[j] # B!NoTask =>
          bentry'[j] \in B!Tasks /\ bentry'[j][1] = j /\ bwork'[bentry'[j]].pc # "none" /\ ~bwork'[bentry'[j]].stop
      BY <1>0, <1>1, <1>2, ActorFacts DEF Places, Busy
  <2>5. bask'.pc # "none" => bask'.job \in Jobs
      BY <1>0, <1>1 DEF Places
  <2>6. /\ \A b \in B!Tasks : bwork'[b].pc = "update" => bwork'[b].seen # "none"
        /\ bask'.pc = "update" => bask'.seen # "none"
      BY <1>0, <1>1, <1>2, <1>3, ActorFacts DEF Places
  <2> QED
      BY <2>1, <2>2, <2>3, <2>4, <2>5, <2>6 DEF Places, Busy, B!Job
<1>6. \A j \in Jobs : B!Watched(j)' <=> B!Watched(j)
    BY <1>2, ActorFacts DEF B!Watched
<1>7. (Resuming' <=> Resuming) /\ (\A j : Late(j)' <=> Late(j))
    BY <1>0, <1>2, ActorFacts DEF Resuming, Late
<1>l. \A j \in Jobs : Left(j)' => Left(j) /\ brow'[j] = brow[j]
    BY <1>6 DEF Left, B!Present, KeptFor
<1>8. Seen'
  <2>1. \A j \in Jobs : JobFinished(brow'[j].status) => JobFinished(bremote'[j])
      BY <1>0 DEF RowsTold
  <2>2. \A b \in B!Tasks : bwork'[b].pc = "update" /\ JobFinished(bwork'[b].seen) => JobFinished(bremote'[b[1]])
      BY <1>0, <1>1, <1>2, <1>3, ActorFacts DEF Seen
  <2>3. bask'.pc = "update" /\ JobFinished(bask'.seen) => JobFinished(bremote'[bask'.job])
      BY <1>0, <1>1 DEF Seen
  <2>4. bopen' => \A b \in B!Tasks : bwork'[b].stop /\ bwork'[b].pc = "update" /\ JobFinished(bwork'[b].seen) => ~Late(b[1])'
      BY <1>0, <1>1, <1>2, <1>3, <1>7, ActorFacts DEF Seen
  <2>5. \A j \in Jobs : (bopen' \/ (Resuming' /\ j \in bdue')) /\ JobFinished(brow'[j].status) /\ Left(j)' => ~Late(j)'
      BY <1>0, <1>1, <1>7, <1>l DEF Seen
  <2> QED
      BY <2>1, <2>2, <2>3, <2>4, <2>5 DEF Seen, JobFinished
<1>9. Dues'
  <2> SUFFICES ASSUME Resuming', NEW j \in bdue' PROVE DueOf(j)'
      BY DEF Dues
  <2>1. DueOf(j) /\ j \in Jobs
      BY <1>0, <1>1, <1>7 DEF Dues, JobsInv, Types, JobTypes
  <2>2. \A b \in B!Tasks : b[1] = j => ~bwork'[b].stop
      BY <1>2, <2>1, ActorFacts DEF DueOf
  <2>3. \/ bwork'[B!Resume].pc = bwork[B!Resume].pc
        \/ bwork[B!Resume].pc \in B!Processing /\ bwork'[B!Resume].pc \in B!Processing
        \/ bwork[B!Resume].pc \in B!Processing /\ bwork'[B!Resume].pc = "next" /\ ~Left(B!Job(B!Resume))'
      BY <1>2, <1>3, ActorFacts
  <2>4. bwork'[B!Resume].job = bwork[B!Resume].job
      BY <1>2, ActorFacts
  <2> QED
      BY <1>0, <1>l, <2>1, <2>2, <2>3, <2>4 DEF DueOf, B!Job, B!Processing
<1> QED
    BY <1>4, <1>5, <1>8, <1>9

LEMMA WorkTyped ==
    ASSUME WorkTypes, NEW a \in B!Actors, NEW w \in WorkRecord, bwork' = [bwork EXCEPT ![a] = w]
    PROVE  WorkTypes' /\ bwork'[a] = w /\ Others(a)
BY DEF WorkTypes, Others

\* A monitor or resume_all goes on with its job, and no row changes.
LEMMA QuietMove ==
    ASSUME B!BatchAssumption, JobsInv, NEW a \in B!Actors, NEW p, Moves(a, p), Busy(a),
           a \in B!Tasks => p \in B!Processing \cup B!MonitorOnly,
           a = B!Resume => p \in B!Processing /\ bwork[a].pc \in B!Processing,
           p = "update" => /\ ~bwork[a].stop /\ bwork'[a].seen # "none"
                           /\ (JobFinished(bwork'[a].seen) => JobFinished(bremote[a[1]])),
           WorkTypes', HandedOut(a)', Grows, Unmarked, JobTypes',
           UNCHANGED <<bopen, bremote, brow, bcreating, bentry, btodo, bask, bdue>>
    PROVE  JobsInv'
<1>0. RowsTold /\ \A j \in Jobs : KeptFor(j)
    BY DEF RowsTold, KeptFor, JobsInv, Seen
<1>1. Births' /\ Places' /\ Seen' /\ Dues'
  <2>1. p # "next" /\ (a = B!Resume => p \in B!Processing \cup {"next"})
      BY ActorFacts DEF B!Processing, B!MonitorOnly
  <2> QED
      BY <1>0, <2>1, MoveFrame
<1>2. Types'
    BY DEF JobsInv, Types
<1>3. Marks'
  <2> SUFFICES ASSUME NEW b \in B!Actors PROVE HandedOut(b)'
      BY DEF Marks
  <2>1. CASE b = a
      BY <2>1
  <2>2. CASE b # a
      BY <2>2, MarksFrame DEF JobsInv, Marks, Moves, Others
  <2> QED
      BY <2>1, <2>2
<1>4. B!NothingMarkedUnhandled'
    BY UnmarkedFrame DEF JobsInv, B!BatchAssumption, Grows
<1> QED
    BY <1>1, <1>2, <1>3, <1>4 DEF JobsInv

LEMMA PollStep ==
    ASSUME B!BatchAssumption, JobsInv, NEW a \in B!Actors, B!Poll(a)
    PROVE  JobsInv'
<1>1. bwork[a].pc = "get" /\ ~bwork[a].stop
    BY DEF B!Poll, B!At
<1>2. a \in B!Tasks /\ B!Job(a) = a[1] /\ a[1] \in Jobs /\ Busy(a)
    BY <1>1, ActorFacts DEF JobsInv, Places, Busy, B!Processing, B!ResumeOnly
<1>3. [bwork[a] EXCEPT !.pc = "update", !.seen = bremote[B!Job(a)]] \in WorkRecord
    BY <1>2 DEF JobsInv, Types, JobTypes, WorkTypes, WorkRecord, PCs, B!MonitorOnly
<1>4. bwork' = [bwork EXCEPT ![a] = [bwork[a] EXCEPT !.pc = "update", !.seen = bremote[B!Job(a)]]]
    BY DEF B!Poll
<1>5. WorkTypes' /\ Others(a) /\ bwork'[a] = [bwork[a] EXCEPT !.pc = "update", !.seen = bremote[B!Job(a)]]
    BY <1>3, <1>4, WorkTyped DEF JobsInv, Types
<1>6. /\ Moves(a, "update") /\ bwork'[a].seen = bremote[a[1]] /\ bwork'[a].got = bwork[a].got
    BY <1>2, <1>5 DEF Moves, JobsInv, Types, WorkTypes, WorkRecord
<1>7. UNCHANGED <<bopen, bremote, berrors, brow, bsaved, bknown, bcreating, bentry, btodo, bask, bhanded,
                  bskipped, bdue, basks, bfaults, brestarts>>
    BY DEF B!Poll, B!history
<1>8. HandedOut(a)'
    BY <1>1, <1>2, <1>6, <1>7 DEF HandedOut, JobsInv, Marks, B!Job, B!Present, B!Processing, B!MonitorOnly, Moves
<1>9. Grows /\ Unmarked /\ JobTypes'
    BY <1>7 DEF Grows, Unmarked, JobTypes, JobsInv, Types
<1>10. bremote[a[1]] # "none"
    BY <1>2 DEF JobsInv, Births, Unborn
<1> QED
    BY <1>1, <1>2, <1>5, <1>6, <1>7, <1>8, <1>9, <1>10, QuietMove, ActorFacts DEF B!MonitorOnly

LEMMA GoFacts ==
    ASSUME WorkTypes, NEW a \in B!Actors, NEW p \in PCs, B!Go(a, p)
    PROVE  WorkTypes' /\ Moves(a, p) /\ bwork'[a].seen = bwork[a].seen /\ bwork'[a].got = bwork[a].got
<1>1. [bwork[a] EXCEPT !.pc = p] \in WorkRecord /\ bwork[a] \in WorkRecord
    BY DEF WorkTypes, WorkRecord
<1>2. bwork' = [bwork EXCEPT ![a] = [bwork[a] EXCEPT !.pc = p]]
    BY DEF B!Go
<1>3. WorkTypes' /\ bwork'[a] = [bwork[a] EXCEPT !.pc = p] /\ Others(a)
    BY <1>1, <1>2, WorkTyped
<1> QED
    BY <1>1, <1>3 DEF Moves, WorkRecord

LEMMA WorkingOn ==
    ASSUME B!BatchAssumption, JobsInv, NEW a \in B!Actors, bwork[a].pc \in B!Processing \cup B!MonitorOnly
    PROVE  /\ B!Job(a) \in Jobs /\ bwork[a].job \in Jobs /\ Busy(a) /\ bwork[a].pc \in PCs
           /\ a = B!Resume => bwork[a].pc \in B!Processing
           /\ a \in B!Tasks => B!Job(a) = a[1]
<1>1. B!Job(a) \in Jobs /\ (a \in B!Tasks => B!Job(a) = a[1])
    BY JobOfActor DEF JobsInv
<1>2. a = B!Resume => bwork[a].pc \in B!Processing
    BY DEF JobsInv, Places, B!Processing, B!ResumeOnly, B!MonitorOnly
<1> QED
    BY <1>1, <1>2 DEF Busy, B!Job, B!Processing, B!MonitorOnly, PCs

LEMMA WakeStep ==
    ASSUME B!BatchAssumption, JobsInv, NEW a \in B!Actors, B!Wake(a)
    PROVE  JobsInv'
<1>1. bwork[a].pc = "sleep" /\ ~bwork[a].stop
    BY DEF B!Wake, B!At
<1>2. a \in B!Tasks /\ Busy(a)
    BY <1>1, WorkingOn, ActorFacts DEF B!MonitorOnly, B!Processing
<1>3. UNCHANGED <<bopen, bremote, berrors, brow, bsaved, bknown, bcreating, bentry, btodo, bask, bhanded,
                  bskipped, bdue, basks, bfaults, brestarts>>
    BY DEF B!Wake, B!history
<1>4. WorkTypes' /\ Moves(a, "get") /\ bwork'[a].got = bwork[a].got
    BY GoFacts DEF B!Wake, JobsInv, Types, PCs, B!MonitorOnly
<1>5. HandedOut(a)'
    BY <1>1, <1>3, <1>4, WorkingOn DEF HandedOut, JobsInv, Marks, B!Job, B!Present, B!Processing, B!MonitorOnly, Moves
<1>6. Grows /\ Unmarked /\ JobTypes'
    BY <1>3 DEF Grows, Unmarked, JobTypes, JobsInv, Types
<1> QED
    BY <1>1, <1>2, <1>3, <1>4, <1>5, <1>6, QuietMove, ActorFacts DEF B!MonitorOnly

LEMMA LookStep ==
    ASSUME B!BatchAssumption, JobsInv, NEW a \in B!Actors, B!Look(a)
    PROVE  JobsInv'
<1>1. bwork[a].pc = "look" /\ ~bwork[a].stop
    BY DEF B!Look, B!At
<1>2. B!Job(a) \in Jobs /\ Busy(a) /\ bwork[a].pc \in B!Processing
    BY <1>1, WorkingOn DEF B!Processing
<1>3. UNCHANGED <<bopen, bremote, berrors, brow, bsaved, bknown, bcreating, bentry, btodo, bask, bhanded,
                  bdue, basks, bfaults, brestarts>>
    BY DEF B!Look
<1>4. CASE B!Job(a) \in bknown /\ B!Present(B!Job(a))
  <2>1. bskipped' = bskipped /\ B!Go(a, "check")
      BY <1>4 DEF B!Look
  <2>2. WorkTypes' /\ Moves(a, "check") /\ bwork'[a].got = bwork[a].got
      BY <2>1, GoFacts DEF JobsInv, Types, PCs, B!Processing
  <2>3. HandedOut(a)'
      BY <1>1, <1>2, <1>3, <2>1, <2>2 DEF HandedOut, JobsInv, Marks, B!Job, B!Present, B!Processing, B!MonitorOnly, Moves
  <2>4. Grows /\ Unmarked /\ JobTypes'
      BY <1>3, <2>1 DEF Grows, Unmarked, JobTypes, JobsInv, Types
  <2> QED
      BY <1>1, <1>2, <1>3, <2>2, <2>3, <2>4, QuietMove DEF B!Processing
<1>5. CASE ~(B!Job(a) \in bknown /\ B!Present(B!Job(a)))
  <2>1. bskipped' = bskipped \cup {B!Job(a)} /\ B!Go(a, "mark")
      BY <1>5 DEF B!Look
  <2>2. WorkTypes' /\ Moves(a, "mark") /\ bwork'[a].got = bwork[a].got
      BY <2>1, GoFacts DEF JobsInv, Types, PCs, B!Processing
  <2>3. HandedOut(a)'
      BY <1>1, <1>2, <1>3, <2>1, <2>2 DEF HandedOut, JobsInv, Marks, B!Job, B!Present, B!Processing, B!MonitorOnly, Moves
  <2>4. Grows /\ Unmarked /\ JobTypes'
      BY <1>2, <1>3, <2>1 DEF Grows, Unmarked, JobTypes, JobsInv, Types
  <2> QED
      BY <1>1, <1>2, <1>3, <2>2, <2>3, <2>4, QuietMove DEF B!Processing
<1> QED
    BY <1>4, <1>5

\* A monitor that meets an exception sleeps.
LEMMA FailMonitor ==
    ASSUME B!BatchAssumption, JobsInv, NEW a \in B!Tasks, B!Fail(a), bwork[a].pc \in B!Processing \cup B!MonitorOnly,
           UNCHANGED <<bopen, bremote, berrors, brow, bsaved, bknown, bcreating, bentry, bask, bhanded,
                       bskipped, bdue, basks, brestarts>>,
           bfaults' \in 0 .. MaxFaults
    PROVE  JobsInv'
<1>0. a \in B!Actors /\ a # B!Resume /\ Busy(a)
    BY ActorFacts, WorkingOn
<1>1. bwork' = [bwork EXCEPT ![a].pc = "sleep", ![a].got = {}] /\ btodo' = btodo
    BY <1>0 DEF B!Fail
<1>2. bwork' = [bwork EXCEPT ![a] = [bwork[a] EXCEPT !.pc = "sleep", !.got = {}]]
    BY <1>0, <1>1 DEF JobsInv, Types, WorkTypes, WorkRecord
<1>3. [bwork[a] EXCEPT !.pc = "sleep", !.got = {}] \in WorkRecord /\ bwork[a] \in WorkRecord
    BY <1>0 DEF JobsInv, Types, WorkTypes, WorkRecord, PCs, B!MonitorOnly
<1>4. WorkTypes' /\ Moves(a, "sleep") /\ bwork'[a].got = {}
  <2>1. WorkTypes' /\ Others(a) /\ bwork'[a] = [bwork[a] EXCEPT !.pc = "sleep", !.got = {}]
      BY <1>0, <1>2, <1>3, WorkTyped DEF JobsInv, Types
  <2> QED
      BY <1>0, <1>3, <2>1 DEF Moves, WorkRecord
<1>5. HandedOut(a)'
    BY <1>4 DEF HandedOut, Moves
<1>6. Grows /\ Unmarked /\ JobTypes'
    BY <1>1 DEF Grows, Unmarked, JobTypes, JobsInv, Types
<1> QED
    BY <1>0, <1>1, <1>4, <1>5, <1>6, QuietMove DEF B!MonitorOnly

LEMMA FetchStep ==
    ASSUME B!BatchAssumption, JobsInv, NEW a \in B!Actors, B!Fetch(a)
    PROVE  JobsInv'
<1>1. bwork[a].pc = "fetch" /\ ~bwork[a].stop
    BY DEF B!Fetch, B!At
<1>2. B!Job(a) \in Jobs /\ Busy(a) /\ bwork[a].pc \in B!Processing
    BY <1>1, WorkingOn DEF B!Processing
<1>3. UNCHANGED <<bopen, bremote, berrors, brow, bknown, bcreating, bentry, btodo, bask, bhanded, bskipped,
                  bdue, basks, bfaults, brestarts>>
    BY DEF B!Fetch, B!history
<1>4. PICK q \in B!Stream(B!Job(a)) : B!SaveResult(B!Job(a), q) /\ bwork' = [bwork EXCEPT ![a].got = @ \cup {q}]
    BY DEF B!Fetch
<1>5. q \in Requests
    BY <1>2 DEF B!Stream
<1>6. bwork' = [bwork EXCEPT ![a] = [bwork[a] EXCEPT !.got = bwork[a].got \cup {q}]]
    BY <1>4 DEF JobsInv, Types, WorkTypes, WorkRecord
<1>7. [bwork[a] EXCEPT !.got = bwork[a].got \cup {q}] \in WorkRecord /\ bwork[a] \in WorkRecord
    BY <1>5 DEF JobsInv, Types, WorkTypes, WorkRecord
<1>8. WorkTypes' /\ Moves(a, "fetch") /\ bwork'[a].got = bwork[a].got \cup {q}
  <2>1. WorkTypes' /\ Others(a) /\ bwork'[a] = [bwork[a] EXCEPT !.got = bwork[a].got \cup {q}]
      BY <1>1, <1>6, <1>7, WorkTyped DEF JobsInv, Types
  <2> QED
      BY <1>1, <1>7, <2>1 DEF Moves, WorkRecord
<1>9. /\ bsaved' \in [Jobs -> SUBSET Requests] /\ \A j \in Jobs : bsaved[j] \subseteq bsaved'[j]
      /\ B!Present(B!Job(a)) => q \in bsaved'[B!Job(a)]
    BY <1>2, <1>4, <1>5 DEF B!SaveResult, JobsInv, Types, JobTypes
<1>10. HandedOut(a)'
    BY <1>1, <1>2, <1>3, <1>8, <1>9 DEF HandedOut, JobsInv, Marks, B!Job, B!Present, B!Processing, B!MonitorOnly, Moves
<1>11. Grows /\ Unmarked /\ JobTypes'
    BY <1>3, <1>9 DEF Grows, Unmarked, JobTypes, JobsInv, Types
<1> QED
    BY <1>1, <1>2, <1>3, <1>8, <1>10, <1>11, QuietMove DEF B!Processing

LEMMA FetchEndsStep ==
    ASSUME B!BatchAssumption, JobsInv, NEW a \in B!Actors, B!FetchEnds(a)
    PROVE  JobsInv'
<1>1. bwork[a].pc = "fetch" /\ ~bwork[a].stop /\ bwork[a].got = B!Stream(B!Job(a))
    BY DEF B!FetchEnds, B!At
<1>2. B!Job(a) \in Jobs /\ Busy(a) /\ bwork[a].pc \in B!Processing
    BY <1>1, WorkingOn DEF B!Processing
<1>3. UNCHANGED <<bopen, bremote, berrors, brow, bsaved, bknown, bcreating, bentry, btodo, bask, bhanded,
                  bskipped, bdue, basks, bfaults, brestarts>>
    BY DEF B!FetchEnds, B!history
<1>4. WorkTypes' /\ Moves(a, "call") /\ bwork'[a].got = bwork[a].got
    BY GoFacts DEF B!FetchEnds, JobsInv, Types, PCs, B!Processing
<1>5. OnRecord(B!Job(a)) /\ bwork'[a].job = B!Job(a)
    BY <1>1, <1>2, <1>4 DEF JobsInv, Marks, HandedOut, OnRecord, Moves, B!Job
<1>6. \A j : OnRecord(j)' <=> OnRecord(j)
    BY <1>3 DEF OnRecord, B!Present, B!Stream
<1>7. HandedOut(a)'
    BY <1>1, <1>2, <1>3, <1>4, <1>5, <1>6 DEF HandedOut, JobsInv, Marks, B!Job, B!Present, B!Processing, B!MonitorOnly, Moves
<1>8. Grows /\ Unmarked /\ JobTypes'
    BY <1>3 DEF Grows, Unmarked, JobTypes, JobsInv, Types
<1> QED
    BY <1>1, <1>2, <1>3, <1>4, <1>7, <1>8, QuietMove DEF B!Processing

LEMMA CallStep ==
    ASSUME B!BatchAssumption, JobsInv, NEW a \in B!Actors, B!Call(a)
    PROVE  JobsInv'
<1>1. bwork[a].pc = "call" /\ ~bwork[a].stop
    BY DEF B!Call, B!At
<1>2. B!Job(a) \in Jobs /\ Busy(a) /\ bwork[a].pc \in B!Processing
    BY <1>1, WorkingOn DEF B!Processing
<1>3. UNCHANGED <<bopen, bremote, berrors, brow, bsaved, bknown, bcreating, bentry, btodo, bask, bskipped,
                  bdue, basks, bfaults, brestarts>>
      /\ bhanded' = bhanded \cup {B!Job(a)}
    BY DEF B!Call
<1>4. WorkTypes' /\ Moves(a, "mark") /\ bwork'[a].got = bwork[a].got
    BY GoFacts DEF B!Call, JobsInv, Types, PCs, B!Processing
<1>5. OnRecord(B!Job(a)) /\ bwork'[a].job = B!Job(a)
    BY <1>1, <1>2, <1>4 DEF JobsInv, Marks, HandedOut, Moves, B!Job
<1>6. \A j : OnRecord(j)' <=> OnRecord(j)
    BY <1>3 DEF OnRecord, B!Present, B!Stream
<1>7. HandedOut(a)'
    BY <1>1, <1>2, <1>3, <1>4, <1>5, <1>6 DEF HandedOut, JobsInv, Marks, B!Job, B!Present, B!Processing, B!MonitorOnly, Moves
<1>8. Grows /\ Unmarked /\ JobTypes'
    BY <1>2, <1>3 DEF Grows, Unmarked, JobTypes, JobsInv, Types
<1> QED
    BY <1>1, <1>2, <1>3, <1>4, <1>7, <1>8, QuietMove DEF B!Processing

LEMMA SetStatusFacts ==
    ASSUME Types, NEW j \in Jobs, NEW s \in B!Statuses \ {"none"}, B!SetStatus(j, s)
    PROVE  /\ brow' \in [Jobs -> RowRecord]
           /\ \A i \in Jobs : i # j => brow'[i] = brow[i]
           /\ \A i \in Jobs : brow'[i].processed = brow[i].processed /\ (brow'[i].status # "none" <=> brow[i].status # "none")
           /\ brow'[j].status \in {s, "none"}
<1>1. brow \in [Jobs -> RowRecord]
    BY DEF Types, JobTypes
<1>2. CASE ~B!Present(j)
    BY <1>1, <1>2 DEF B!SetStatus, B!Present
<1>3. CASE B!Present(j)
  <2>1. brow' = [brow EXCEPT ![j] = [brow[j] EXCEPT !.status = s]]
      BY <1>1, <1>3 DEF B!SetStatus, RowRecord
  <2>2. [brow[j] EXCEPT !.status = s] \in RowRecord /\ brow[j] \in RowRecord
      BY <1>1 DEF RowRecord
  <2>3. brow' \in [Jobs -> RowRecord] /\ brow'[j] = [brow[j] EXCEPT !.status = s] /\ \A i \in Jobs : i # j => brow'[i] = brow[i]
      BY <1>1, <2>1, <2>2
  <2> QED
      BY <1>3, <2>2, <2>3 DEF RowRecord, B!Present
<1> QED
    BY <1>2, <1>3

LEMMA SetProcessedFacts ==
    ASSUME Types, NEW j \in Jobs, B!SetProcessed(j)
    PROVE  /\ brow' \in [Jobs -> RowRecord]
           /\ \A i \in Jobs : i # j => brow'[i] = brow[i]
           /\ \A i \in Jobs : brow'[i].status = brow[i].status /\ (brow[i].processed => brow'[i].processed)
           /\ brow'[j].status # "none" => brow'[j].processed
           /\ brow'[j].processed => brow[j].processed \/ B!Present(j)
<1>1. brow \in [Jobs -> RowRecord]
    BY DEF Types, JobTypes
<1>2. CASE ~B!Present(j)
    BY <1>1, <1>2 DEF B!SetProcessed, B!Present
<1>3. CASE B!Present(j)
  <2>1. brow' = [brow EXCEPT ![j] = [brow[j] EXCEPT !.processed = TRUE]]
      BY <1>1, <1>3 DEF B!SetProcessed, RowRecord
  <2>2. [brow[j] EXCEPT !.processed = TRUE] \in RowRecord /\ brow[j] \in RowRecord
      BY <1>1 DEF RowRecord
  <2>3. brow' \in [Jobs -> RowRecord] /\ brow'[j] = [brow[j] EXCEPT !.processed = TRUE] /\ \A i \in Jobs : i # j => brow'[i] = brow[i]
      BY <1>1, <2>1, <2>2
  <2> QED
      BY <1>3, <2>2, <2>3 DEF RowRecord, B!Present
<1> QED
    BY <1>2, <1>3

\* A job is marked only by an actor that found it handled.
LEMMA MarkedFrame ==
    ASSUME B!BatchAssumption, JobsInv, NEW a \in B!Actors, bwork[a].pc = "mark", B!SetProcessed(B!Job(a)),
           UNCHANGED <<bremote, berrors, bsaved, bhanded, bskipped>>
    PROVE  B!NothingMarkedUnhandled'
<1>1. PICK j \in Jobs : j = B!Job(a)
    BY WorkingOn DEF B!Processing
<1> SUFFICES ASSUME NEW i \in Named, i \notin bskipped', brow'[i].processed
             PROVE  i \in bhanded' /\ bremote'[i] = "done" /\ B!Stream(i)' \subseteq bsaved'[i]
    BY DEF B!NothingMarkedUnhandled
<1>2. i \in Jobs /\ B!Stream(i)' = B!Stream(i)
    BY DEF B!BatchAssumption, B!Stream
<1>3. CASE brow[i].processed
    BY <1>2, <1>3 DEF JobsInv, B!NothingMarkedUnhandled
<1>4. CASE ~brow[i].processed
  <2>1. i = j /\ B!Present(j)
      BY <1>1, <1>2, <1>4, SetProcessedFacts DEF JobsInv
  <2> QED
      BY <1>1, <1>2, <2>1 DEF JobsInv, Marks, HandedOut, OnRecord
<1> QED
    BY <1>3, <1>4

LEMMA UpdateStep ==
    ASSUME B!BatchAssumption, JobsInv, NEW a \in B!Actors, B!Update(a)
    PROVE  JobsInv'
<1>1. bwork[a].pc = "update" /\ ~bwork[a].stop
    BY DEF B!Update, B!At
<1>2. a \in B!Tasks /\ Busy(a) /\ B!Job(a) = a[1] /\ a[1] \in Jobs /\ bwork[a].job = a[1]
    BY <1>1, WorkingOn, ActorFacts DEF B!MonitorOnly, B!Processing, B!Job
<1>3. UNCHANGED <<bopen, bremote, berrors, bsaved, bknown, bcreating, bentry, btodo, bask, bhanded,
                  bskipped, bdue, basks, bfaults, brestarts>>
    BY DEF B!Update, B!history
<1>4. PICK p \in {"sleep", "look"} : B!Go(a, p)
    BY DEF B!Update
<1>5. WorkTypes' /\ Moves(a, p) /\ bwork'[a].got = bwork[a].got
    BY <1>4, GoFacts DEF JobsInv, Types, PCs, B!MonitorOnly, B!Processing
<1>6. B!SetStatus(a[1], bwork[a].seen) /\ bwork[a].seen \in B!Statuses
    BY <1>2 DEF B!Update, JobsInv, Types, WorkTypes, WorkRecord
<1>7. bwork[a].seen # "none" /\ (JobFinished(bwork[a].seen) => JobFinished(bremote[a[1]]))
    BY <1>1, <1>2 DEF JobsInv, Places, Seen
<1>8. /\ brow' \in [Jobs -> RowRecord]
      /\ \A i \in Jobs : i # a[1] => brow'[i] = brow[i]
      /\ \A i \in Jobs : brow'[i].processed = brow[i].processed /\ (brow'[i].status # "none" <=> brow[i].status # "none")
      /\ brow'[a[1]].status \in {bwork[a].seen, "none"}
    BY <1>2, <1>6, <1>7, SetStatusFacts DEF JobsInv
<1>9. B!Watched(a[1])'
    BY <1>1, <1>2, <1>5 DEF B!Watched, Moves
<1>10. RowsTold /\ \A j \in Jobs : KeptFor(j)
    BY <1>2, <1>7, <1>8, <1>9 DEF RowsTold, KeptFor, Left, JobsInv, Seen, JobFinished
<1>11. Births' /\ Places' /\ Seen' /\ Dues'
    BY <1>1, <1>2, <1>3, <1>5, <1>10, ActorFacts, MoveFrame DEF B!Processing, B!MonitorOnly
<1>12. Grows /\ Unmarked /\ JobTypes'
    BY <1>3, <1>8 DEF Grows, Unmarked, JobTypes, JobsInv, Types
<1>13. HandedOut(a)'
    BY <1>1, <1>2, <1>3, <1>5, <1>8 DEF HandedOut, JobsInv, Marks, B!Job, B!Present, B!Processing, B!MonitorOnly, Moves
<1>14. Marks'
    BY <1>5, <1>12, <1>13, MarksFrame DEF JobsInv, Marks, Moves, Others
<1>15. B!NothingMarkedUnhandled'
    BY <1>12, UnmarkedFrame DEF JobsInv, B!BatchAssumption, Grows
<1>16. Types'
    BY <1>3, <1>5, <1>12 DEF JobsInv, Types
<1> QED
    BY <1>11, <1>14, <1>15, <1>16 DEF JobsInv

LEMMA MarkStep ==
    ASSUME B!BatchAssumption, JobsInv, NEW a \in B!Actors, B!Mark(a)
    PROVE  JobsInv'
<1>1. bwork[a].pc = "mark" /\ ~bwork[a].stop
    BY DEF B!Mark, B!At
<1>2. PICK j \in Jobs : j = B!Job(a) /\ bwork[a].job = j
    BY <1>1, WorkingOn DEF B!Processing, B!Job
<1>3. Busy(a) /\ bwork[a].pc \in B!Processing
    BY <1>1 DEF B!Processing, Busy
<1>4. UNCHANGED <<bopen, bremote, berrors, bsaved, bknown, bcreating, bentry, btodo, bask, bhanded,
                  bskipped, bdue, basks, bfaults, brestarts>>
    BY DEF B!Mark, B!history
<1>5. PICK p : p = (IF a = B!Resume THEN "next" ELSE "leave") /\ B!Go(a, p)
    BY DEF B!Mark
<1>6. WorkTypes' /\ Moves(a, p) /\ bwork'[a].got = bwork[a].got
    BY <1>5, GoFacts DEF JobsInv, Types, PCs, B!MonitorOnly, B!ResumeOnly
<1>7. /\ brow' \in [Jobs -> RowRecord]
      /\ \A i \in Jobs : i # j => brow'[i] = brow[i]
      /\ \A i \in Jobs : brow'[i].status = brow[i].status /\ (brow[i].processed => brow'[i].processed)
      /\ brow'[j].status # "none" => brow'[j].processed
      /\ brow'[j].processed => brow[j].processed \/ B!Present(j)
    BY <1>2, SetProcessedFacts DEF JobsInv, B!Mark
<1>8. ~Left(j)'
    BY <1>7 DEF Left, B!Present
<1>9. RowsTold /\ \A i \in Jobs : KeptFor(i)
    BY <1>7, <1>8 DEF RowsTold, KeptFor, JobsInv, Seen
<1>10. B!Job(a)' = j
    BY <1>2, <1>6 DEF B!Job, Moves
<1>11. Births' /\ Places' /\ Seen' /\ Dues'
  <2>1. a \in B!Tasks => p \in B!Processing \cup B!MonitorOnly
      BY <1>5, ActorFacts DEF B!MonitorOnly
  <2>2. p # "update" /\ (a = B!Resume => p \in B!Processing \cup {"next"} /\ bwork[a].pc \in B!Processing)
      BY <1>3, <1>5
  <2>3. ~Left(B!Job(a))'
      BY <1>8, <1>10 DEF Left, B!Present, B!Watched
  <2> QED
      BY <1>3, <1>4, <1>6, <1>9, <2>1, <2>2, <2>3, MoveFrame
<1>12. Grows /\ JobTypes'
    BY <1>4, <1>7 DEF Grows, JobTypes, JobsInv, Types
<1>13. HandedOut(a)'
    BY <1>2, <1>3, <1>4, <1>5, <1>6, <1>7, <1>10 DEF HandedOut, JobsInv, Marks, B!Job, B!Present, B!Processing, B!MonitorOnly, Moves
<1>14. Marks'
    BY <1>6, <1>12, <1>13, MarksFrame DEF JobsInv, Marks, Moves, Others
<1>15. B!NothingMarkedUnhandled'
    BY <1>1, <1>4, MarkedFrame DEF B!Mark
<1>16. Types'
    BY <1>4, <1>6, <1>12 DEF JobsInv, Types
<1> QED
    BY <1>11, <1>14, <1>15, <1>16 DEF JobsInv

\* An actor that ends is taken off, if it is a monitor.
Ends(a) == bwork'[a] = B!Idle /\ Others(a)
TakenOff(a) == IF a = B!Resume THEN bentry' = bentry ELSE bentry' = [bentry EXCEPT ![a[1]] = B!NoTask]

\* What is left of a job by a stopped monitor that had a write to make.
LeftBy(a, j) ==
    bwork[a].stop /\ a[1] = j /\ (bopen /\ JobFinished(brow'[j].status) => ~Late(j))

LEMMA EndFrame ==
    ASSUME B!BatchAssumption, JobsInv, NEW a \in B!Actors, Ends(a), TakenOff(a), btodo' \subseteq btodo,
           RowsTold, \A j \in Jobs : Left(j)' => (brow'[j] = brow[j] /\ Left(j)) \/ LeftBy(a, j),
           UNCHANGED <<bopen, bremote, bcreating, bask, bdue>>, btodo' = btodo \/ a = B!Resume
    PROVE  Births' /\ Places' /\ Seen' /\ Dues'
<1>0. bopen' = bopen /\ bremote' = bremote /\ bcreating' = bcreating /\ bask' = bask /\ bdue' = bdue
    OBVIOUS
<1>1. Births /\ Places /\ Seen /\ Dues
    BY DEF JobsInv
<1>2. /\ bwork'[a].pc = "none" /\ ~bwork'[a].stop /\ \A b \in B!Actors : b # a => bwork'[b] = bwork[b]
      /\ bwork'[a].job = 0
    BY DEF Ends, Others, B!Idle
<1>r. \A j \in Jobs : (brow'[j].status = "none" <=> brow[j].status = "none")
    BY DEF RowsTold
<1>4. Births'
  <2>1. \A b \in B!Actors : Busy(b)' => Busy(b) /\ B!Job(b)' = B!Job(b)
      BY <1>2 DEF Busy, B!Job
  <2>2. \A j : Unborn(j)' <=> Unborn(j)
      BY <1>0 DEF Unborn
  <2>3. \A j \in Jobs : Unborn(j) => ~B!Present(j)' /\ j \notin btodo' /\ \A b \in B!Actors : Busy(b)' => B!Job(b)' # j
      BY <1>1, <1>r, <2>1 DEF Births, B!Present
  <2> QED
      BY <1>0, <1>1, <2>2, <2>3 DEF Births
<1>5. Places'
  <2>1. \A b \in B!Tasks : Busy(b)' => bwork'[b].job = b[1] /\ bwork'[b].pc \in B!Processing \cup B!MonitorOnly
      BY <1>1, <1>2, ActorFacts DEF Places, Busy, B!Job
  <2>2. /\ bwork'[B!Resume].pc \in {"none"} \cup B!Processing \cup B!ResumeOnly /\ ~bwork'[B!Resume].stop
        /\ bwork'[B!Resume].pc \in B!Processing => bwork'[B!Resume].job \in Jobs
      BY <1>1, <1>2, ActorFacts DEF Places, B!Job, B!Processing
  <2>3. \A b \in B!Actors : (bwork'[b].stop => Busy(b)') /\ (~Busy(b)' => bwork'[b].job = 0)
      BY <1>1, <1>2 DEF Places, Busy, B!Job
  <2>4. \A j \in Jobs : bentry'[j] # B!NoTask => bentry'[j] = bentry[j] /\ bentry[j] # a
    <3> SUFFICES ASSUME NEW j \in Jobs, bentry'[j] # B!NoTask PROVE bentry'[j] = bentry[j] /\ bentry[j] # a
        OBVIOUS
    <3>1. bentry \in [Jobs -> B!Tasks \cup {B!NoTask}]
        BY DEF JobsInv, Types
    <3>2. CASE a = B!Resume
        BY <3>1, <3>2, ActorFacts DEF TakenOff
    <3>3. CASE a # B!Resume
      <4>1. bentry'[j] = bentry[j] /\ j # a[1]
          BY <3>1, <3>3 DEF TakenOff
      <4> QED
          BY <1>1, <4>1 DEF Places
    <3> QED
        BY <3>2, <3>3
  <2>5. \A j \in Jobs : bentry'[j] # B!NoTask =>
          bentry'[j] \in B!Tasks /\ bentry'[j][1] = j /\ bwork'[bentry'[j]].pc # "none" /\ ~bwork'[bentry'[j]].stop
      BY <1>1, <1>2, <2>4, ActorFacts DEF Places, Busy
  <2>6. bask'.pc # "none" => bask'.job \in Jobs
      BY <1>0, <1>1 DEF Places
  <2>7. /\ \A b \in B!Tasks : bwork'[b].pc = "update" => bwork'[b].seen # "none"
        /\ bask'.pc = "update" => bask'.seen # "none"
      BY <1>0, <1>1, <1>2, ActorFacts DEF Places
  <2> QED
      BY <2>1, <2>2, <2>3, <2>5, <2>6, <2>7 DEF Places, Busy, B!Job
<1>7. (Resuming' => Resuming) /\ (\A j : Late(j)' <=> Late(j))
    BY <1>0, <1>2, ActorFacts DEF Resuming, Late
<1>l. \A j \in Jobs : Left(j)' => (brow'[j] = brow[j] /\ Left(j)) \/ LeftBy(a, j)
    OBVIOUS
<1>d. ASSUME NEW j \in bdue, Resuming' PROVE DueOf(j) /\ j \in Jobs /\ ~(bwork[a].stop /\ a[1] = j)
  <2>1. DueOf(j) /\ j \in Jobs
      BY <1>1, <1>7, <1>d DEF Dues, JobsInv, Types, JobTypes
  <2>2. bwork[a].stop => a \in B!Tasks
      BY <1>1, ActorFacts DEF Places
  <2> QED
      BY <2>1, <2>2 DEF DueOf
<1>8. Seen'
  <2>1. \A j \in Jobs : JobFinished(brow'[j].status) => JobFinished(bremote'[j])
      BY <1>0 DEF RowsTold
  <2>2. \A b \in B!Tasks : bwork'[b].pc = "update" /\ JobFinished(bwork'[b].seen) => JobFinished(bremote'[b[1]])
      BY <1>0, <1>1, <1>2, ActorFacts DEF Seen
  <2>3. bask'.pc = "update" /\ JobFinished(bask'.seen) => JobFinished(bremote'[bask'.job])
      BY <1>0, <1>1 DEF Seen
  <2>4. bopen' => \A b \in B!Tasks : bwork'[b].stop /\ bwork'[b].pc = "update" /\ JobFinished(bwork'[b].seen) => ~Late(b[1])'
      BY <1>0, <1>1, <1>2, <1>7, ActorFacts DEF Seen
  <2>5. \A j \in Jobs : (bopen' \/ (Resuming' /\ j \in bdue')) /\ JobFinished(brow'[j].status) /\ Left(j)' => ~Late(j)'
    <3> SUFFICES ASSUME NEW j \in Jobs, bopen' \/ (Resuming' /\ j \in bdue'), JobFinished(brow'[j].status), Left(j)'
                 PROVE  ~Late(j)
        BY <1>7
    <3>1. CASE brow'[j] = brow[j] /\ Left(j)
        BY <1>0, <1>1, <1>7, <3>1 DEF Seen
    <3>2. CASE LeftBy(a, j)
      <4>1. bopen
          BY <1>0, <1>d, <3>2 DEF LeftBy
      <4> QED
          BY <3>2, <4>1 DEF LeftBy
    <3> QED
        BY <1>l, <3>1, <3>2
  <2> QED
      BY <2>1, <2>2, <2>3, <2>4, <2>5 DEF Seen, JobFinished
<1>9. Dues'
  <2> SUFFICES ASSUME Resuming', NEW j \in bdue' PROVE DueOf(j)'
      BY DEF Dues
  <2>1. DueOf(j) /\ j \in Jobs /\ ~LeftBy(a, j)
      BY <1>0, <1>d DEF LeftBy
  <2>2. \A b \in B!Tasks : b[1] = j => ~bwork'[b].stop
      BY <1>2, <2>1, ActorFacts DEF DueOf
  <2>3. a # B!Resume /\ bwork'[B!Resume] = bwork[B!Resume] /\ btodo' = btodo
      BY <1>2, ActorFacts DEF Resuming
  <2> QED
      BY <1>l, <2>1, <2>2, <2>3 DEF DueOf, B!Job
<1> QED
    BY <1>4, <1>5, <1>8, <1>9

LEMMA EndTypes ==
    ASSUME WorkTypes, NEW a \in B!Actors, bwork' = [bwork EXCEPT ![a] = B!Idle]
    PROVE  WorkTypes' /\ Ends(a)
<1>1. B!Idle \in WorkRecord
    BY DEF B!Idle, WorkRecord, PCs, B!Statuses
<1> QED
    BY <1>1, WorkTyped DEF Ends

LEMMA EndMarks ==
    ASSUME B!BatchAssumption, JobsInv, NEW a \in B!Actors, Ends(a), Grows
    PROVE  Marks'
<1>1. HandedOut(a)'
    BY DEF HandedOut, Ends, B!Idle, B!Processing, B!MonitorOnly
<1> QED
    BY <1>1, MarksFrame DEF JobsInv, Marks, Ends, Others

\* resume_all ends, by itself or by an exception.
LEMMA ResumeEnds ==
    ASSUME B!BatchAssumption, JobsInv, bwork' = [bwork EXCEPT ![B!Resume] = B!Idle], btodo' \subseteq btodo,
           UNCHANGED <<bopen, bremote, berrors, brow, bsaved, bknown, bcreating, bentry, bask, bhanded,
                       bskipped, bdue, basks, brestarts>>,
           bfaults' \in 0 .. MaxFaults
    PROVE  JobsInv'
<1>1. B!Resume \in B!Actors /\ WorkTypes' /\ Ends(B!Resume)
    BY ActorFacts, EndTypes DEF JobsInv, Types
<1>2. RowsTold
    BY DEF RowsTold, JobsInv, Seen
<1>3. \A j \in Jobs : B!Watched(j)' <=> B!Watched(j)
    BY <1>1, ActorFacts DEF B!Watched, Ends, Others
<1>4. \A j \in Jobs : Left(j)' => brow'[j] = brow[j] /\ Left(j)
    BY <1>3 DEF Left, B!Present
<1>5. Births' /\ Places' /\ Seen' /\ Dues'
    BY <1>1, <1>2, <1>4, EndFrame DEF TakenOff
<1>6. Grows /\ Unmarked /\ JobTypes'
    BY DEF Grows, Unmarked, JobTypes, JobsInv, Types
<1>7. Marks' /\ B!NothingMarkedUnhandled'
    BY <1>1, <1>6, EndMarks, UnmarkedFrame DEF JobsInv, B!BatchAssumption, Grows
<1> QED
    BY <1>1, <1>5, <1>6, <1>7 DEF JobsInv, Types

LEMMA FaultStep ==
    ASSUME B!BatchAssumption, JobsInv, NEW a \in B!Actors, B!Fault(a)
    PROVE  JobsInv'
<1>1. B!Fail(a) /\ bwork[a].pc \in B!Processing \cup B!MonitorOnly /\ bfaults' \in 0 .. MaxFaults
    BY DEF B!Fault, B!MonitorOnly, JobsInv, Types, JobTypes, B!BatchAssumption
<1>2. UNCHANGED <<bopen, bremote, berrors, brow, bsaved, bknown, bcreating, bentry, bask, bhanded, bskipped,
                  bdue, basks, brestarts>>
    BY DEF B!Fault, B!history
<1>3. CASE a = B!Resume
    BY <1>1, <1>2, <1>3, ResumeEnds DEF B!Fail
<1>4. CASE a \in B!Tasks
    BY <1>1, <1>2, <1>4, FailMonitor
<1> QED
    BY <1>3, <1>4, ActorFacts

LEMMA CheckStep ==
    ASSUME B!BatchAssumption, JobsInv, NEW a \in B!Actors, B!Check(a)
    PROVE  JobsInv'
<1>1. bwork[a].pc = "check" /\ ~bwork[a].stop
    BY DEF B!Check, B!At
<1>2. B!Job(a) \in Jobs /\ Busy(a) /\ bwork[a].pc \in B!Processing
    BY <1>1, WorkingOn DEF B!Processing
<1>3. UNCHANGED <<bopen, bremote, berrors, brow, bsaved, bknown, bcreating, bentry, bask, bhanded, bskipped,
                  bdue, basks, bfaults, brestarts>>
    BY DEF B!Check, B!history
<1>4. CASE bremote[B!Job(a)] = "done"
  <2>1. btodo' = btodo /\ B!Go(a, "fetch")
      BY <1>4 DEF B!Check
  <2>2. WorkTypes' /\ Moves(a, "fetch") /\ bwork'[a].got = bwork[a].got
      BY <2>1, GoFacts DEF JobsInv, Types, PCs, B!Processing
  <2>3. HandedOut(a)'
      BY <1>1, <1>2, <1>3, <1>4, <2>2 DEF HandedOut, JobsInv, Marks, B!Job, B!Present, B!Processing, B!MonitorOnly, Moves
  <2>4. Grows /\ Unmarked /\ JobTypes'
      BY <1>3, <2>1 DEF Grows, Unmarked, JobTypes, JobsInv, Types
  <2> QED
      BY <1>1, <1>2, <1>3, <2>1, <2>2, <2>3, <2>4, QuietMove DEF B!Processing
<1>5. CASE bremote[B!Job(a)] # "done"
  <2>1. B!Fail(a) /\ bfaults' \in 0 .. MaxFaults
      BY <1>3, <1>5 DEF B!Check, JobsInv, Types, JobTypes
  <2>2. CASE a = B!Resume
      BY <1>3, <2>1, <2>2, ResumeEnds DEF B!Fail
  <2>3. CASE a \in B!Tasks
      BY <1>2, <1>3, <2>1, <2>3, FailMonitor
  <2> QED
      BY <2>2, <2>3, ActorFacts
<1> QED
    BY <1>4, <1>5

LEMMA LeaveStep ==
    ASSUME B!BatchAssumption, JobsInv, NEW a \in B!Actors, B!Leave(a)
    PROVE  JobsInv'
<1>1. bwork[a].pc = "leave" /\ ~bwork[a].stop
    BY DEF B!Leave, B!At
<1>2. a \in B!Tasks /\ Busy(a) /\ B!Job(a) = a[1] /\ a[1] \in Jobs /\ a # B!Resume
    BY <1>1, WorkingOn, ActorFacts DEF B!MonitorOnly, B!Processing
<1>3. UNCHANGED <<bopen, bremote, berrors, brow, bsaved, bknown, bcreating, btodo, bask, bhanded, bskipped,
                  bdue, basks, bfaults, brestarts>>
    BY DEF B!Leave, B!history
<1>4. WorkTypes' /\ Ends(a)
    BY EndTypes DEF B!Leave, JobsInv, Types
<1>5. TakenOff(a) /\ bentry' \in [Jobs -> B!Tasks \cup {B!NoTask}]
    BY <1>2 DEF B!Leave, TakenOff, JobsInv, Types
<1>6. RowsTold
    BY <1>3 DEF RowsTold, JobsInv, Seen
<1>7. \A j \in Jobs : j # a[1] => (B!Watched(j)' <=> B!Watched(j))
    BY <1>4, ActorFacts DEF B!Watched, Ends, Others
<1>8. \A j \in Jobs : Left(j)' => brow'[j] = brow[j] /\ Left(j)
  <2>1. ~Left(a[1])'
      BY <1>1, <1>2, <1>3 DEF JobsInv, Marks, HandedOut, Left, B!Present
  <2> QED
      BY <1>3, <1>7, <2>1 DEF Left, B!Present
<1>9. Births' /\ Places' /\ Seen' /\ Dues'
    BY <1>3, <1>4, <1>5, <1>6, <1>8, EndFrame
<1>10. Grows /\ Unmarked /\ JobTypes'
    BY <1>3 DEF Grows, Unmarked, JobTypes, JobsInv, Types
<1>11. Marks' /\ B!NothingMarkedUnhandled'
    BY <1>4, <1>10, EndMarks, UnmarkedFrame DEF JobsInv, B!BatchAssumption, Grows
<1> QED
    BY <1>3, <1>4, <1>5, <1>9, <1>10, <1>11 DEF JobsInv, Types

LEMMA UnwindStep ==
    ASSUME B!BatchAssumption, JobsInv, NEW a \in B!Actors, B!Unwind(a)
    PROVE  JobsInv'
<1>1. bwork[a].stop
    BY DEF B!Unwind
<1>2. a \in B!Tasks /\ a # B!Resume /\ bwork[a].pc \in B!Processing \cup B!MonitorOnly
    BY <1>1, ActorFacts DEF JobsInv, Places
<1>3. PICK j \in Jobs : j = B!Job(a) /\ a[1] = j /\ bwork[a].job = j
    BY <1>2, WorkingOn DEF B!Job
<1>4. UNCHANGED <<bopen, bremote, berrors, bknown, bcreating, btodo, bask, bhanded, bskipped, bdue, basks,
                  bfaults, brestarts>>
    BY DEF B!Unwind, B!history
<1>5. WorkTypes' /\ Ends(a)
    BY EndTypes DEF B!Unwind, JobsInv, Types
<1>6. TakenOff(a) /\ bentry' \in [Jobs -> B!Tasks \cup {B!NoTask}]
    BY <1>2, <1>3 DEF B!Unwind, TakenOff, JobsInv, Types
<1>7. \A i \in Jobs : B!Watched(i)' <=> B!Watched(i)
    BY <1>1, <1>5, ActorFacts DEF B!Watched, Ends, Others, B!Idle
<1>8. ASSUME brow' \in [Jobs -> RowRecord], bsaved' \in [Jobs -> SUBSET Requests],
             RowsTold, \A i \in Jobs : i # j => brow'[i] = brow[i],
             brow'[j] = brow[j] \/ ~Left(j)' \/ LeftBy(a, j),
             \A i \in Jobs : (brow[i].processed => brow'[i].processed) /\ bsaved[i] \subseteq bsaved'[i],
             B!NothingMarkedUnhandled'
      PROVE  JobsInv'
  <2>1. \A i \in Jobs : Left(i)' => (brow'[i] = brow[i] /\ Left(i)) \/ LeftBy(a, i)
      BY <1>7, <1>8 DEF Left, B!Present
  <2>2. Births' /\ Places' /\ Seen' /\ Dues'
      BY <1>4, <1>5, <1>6, <1>8, <2>1, EndFrame
  <2>3. Grows /\ JobTypes'
      BY <1>4, <1>8 DEF Grows, JobTypes, JobsInv, Types, RowsTold
  <2>4. Marks'
      BY <1>5, <2>3, EndMarks
  <2> QED
      BY <1>4, <1>5, <1>6, <1>8, <2>2, <2>3, <2>4 DEF JobsInv, Types
<1>9. CASE UNCHANGED <<brow, bsaved>>
  <2>1. RowsTold /\ Unmarked
      BY <1>9 DEF RowsTold, Unmarked, JobsInv, Seen
  <2>2. B!NothingMarkedUnhandled'
      BY <1>4, <2>1, UnmarkedFrame DEF JobsInv, B!BatchAssumption
  <2> QED
      BY <1>8, <1>9, <2>1, <2>2 DEF JobsInv, Types, JobTypes
<1>10. CASE bwork[a].pc = "update" /\ B!SetStatus(B!Job(a), bwork[a].seen) /\ UNCHANGED bsaved
  <2>1. /\ bwork[a].seen \in B!Statuses \ {"none"}
        /\ JobFinished(bwork[a].seen) => JobFinished(bremote[j]) /\ (bopen => ~Late(j))
      BY <1>1, <1>2, <1>3, <1>10, WorkFields DEF JobsInv, Types, Places, Seen
  <2>2. /\ brow' \in [Jobs -> RowRecord]
        /\ \A i \in Jobs : i # j => brow'[i] = brow[i]
        /\ \A i \in Jobs : brow'[i].processed = brow[i].processed /\ (brow'[i].status # "none" <=> brow[i].status # "none")
        /\ brow'[j].status \in {bwork[a].seen, "none"}
      BY <1>3, <1>10, <2>1, SetStatusFacts DEF JobsInv
  <2>3. RowsTold
      BY <2>1, <2>2 DEF RowsTold, JobsInv, Seen, JobFinished
  <2>4. LeftBy(a, j)
      BY <1>1, <1>3, <2>1, <2>2 DEF LeftBy, JobFinished
  <2>5. Unmarked
      BY <1>10, <2>2 DEF Unmarked
  <2>6. B!NothingMarkedUnhandled'
      BY <1>4, <2>5, UnmarkedFrame DEF JobsInv, B!BatchAssumption
  <2> QED
      BY <1>8, <1>10, <2>2, <2>3, <2>4, <2>6 DEF JobsInv, Types, JobTypes
<1>11. CASE bwork[a].pc = "mark" /\ B!SetProcessed(B!Job(a)) /\ UNCHANGED bsaved
  <2>1. /\ brow' \in [Jobs -> RowRecord]
        /\ \A i \in Jobs : i # j => brow'[i] = brow[i]
        /\ \A i \in Jobs : brow'[i].status = brow[i].status /\ (brow[i].processed => brow'[i].processed)
        /\ brow'[j].status # "none" => brow'[j].processed
      BY <1>3, <1>11, SetProcessedFacts DEF JobsInv
  <2>2. RowsTold /\ ~Left(j)'
      BY <2>1 DEF RowsTold, Left, B!Present, JobsInv, Seen
  <2>3. B!NothingMarkedUnhandled'
      BY <1>4, <1>11, MarkedFrame
  <2> QED
      BY <1>8, <1>11, <2>1, <2>2, <2>3 DEF JobsInv, Types, JobTypes
<1>12. CASE /\ bwork[a].pc = "fetch" /\ UNCHANGED brow
            /\ \E q \in B!Stream(B!Job(a)) \ bwork[a].got : B!SaveResult(B!Job(a), q)
  <2>1. PICK q \in B!Stream(j) : B!SaveResult(j, q)
      BY <1>3, <1>12
  <2>2. bsaved' \in [Jobs -> SUBSET Requests] /\ \A i \in Jobs : bsaved[i] \subseteq bsaved'[i]
      BY <1>3, <2>1 DEF B!SaveResult, B!Stream, JobsInv, Types, JobTypes
  <2>3. RowsTold /\ Unmarked
      BY <1>12, <2>2 DEF RowsTold, Unmarked, JobsInv, Seen
  <2>4. B!NothingMarkedUnhandled'
      BY <1>4, <2>3, UnmarkedFrame DEF JobsInv, B!BatchAssumption
  <2> QED
      BY <1>8, <1>12, <2>2, <2>3, <2>4 DEF JobsInv, Types, JobTypes
<1> QED
    BY <1>9, <1>10, <1>11, <1>12 DEF B!Unwind

\* Steps that leave the actors alone, and the rows of jobs that are left.
LEMMA StillCore ==
    ASSUME B!BatchAssumption, JobsInv, UNCHANGED <<bwork, bentry, btodo, bdue, bopen>>, Grows, Unmarked, JobTypes',
           \A p, q \in bcreating' : p = q, \A p \in bcreating' : bremote'[p[1]] # "none",
           bask' \in AskRecord, bask'.pc # "none" => bask'.job \in Jobs /\ ~Unborn(bask'.job),
           bask'.pc = "update" => bask'.seen # "none" /\ (JobFinished(bask'.seen) => JobFinished(bremote'[bask'.job])),
           \A j \in Jobs : /\ Unborn(j)' => Unborn(j) /\ brow'[j].status = "none"
                           /\ JobFinished(bremote[j]) => JobFinished(bremote'[j])
                           /\ Late(j)' => Late(j) \/ ~JobFinished(bremote[j])
                           /\ \/ brow'[j] = brow[j]
                              \/ brow'[j].status = "none"
                              \/ Unborn(j) /\ ~JobFinished(brow'[j].status)
    PROVE  JobsInv'
<1>0. bwork' = bwork /\ bentry' = bentry /\ btodo' = btodo /\ bdue' = bdue /\ bopen' = bopen
    OBVIOUS
<1>1. Births /\ Places /\ Seen /\ Dues /\ JobTypes
    BY DEF JobsInv, Types
<1>d. bdue \subseteq Jobs /\ \A j \in bdue : ~Unborn(j)
    BY <1>1 DEF Births, JobTypes
<1>3. Births'
  <2>1. \A j \in Jobs : Unborn(j)' => ~B!Present(j)' /\ j \notin btodo' /\ \A a \in B!Actors : Busy(a)' => B!Job(a)' # j
      BY <1>0, <1>1 DEF Births, B!Present, Busy, B!Job
  <2>2. (bask.pc # "none" => ~Unborn(bask.job))'
    <3>1. SUFFICES ASSUME bask'.pc # "none" PROVE ~Unborn(bask.job)'
        OBVIOUS
    <3>2. PICK j \in Jobs : bask'.job = j
        BY <3>1
    <3>3. ~Unborn(j) /\ ~Unborn(j)'
        BY <3>1, <3>2
    <3> QED
        BY <3>2, <3>3 DEF Unborn
  <2>3. \A j \in bdue' : ~Unborn(j)'
      BY <1>0, <1>d
  <2> QED
      BY <2>1, <2>2, <2>3 DEF Births
<1>4. Places'
    BY <1>0, <1>1 DEF Places, Busy, B!Job
<1>5. \A j \in Jobs : /\ B!Watched(j)' <=> B!Watched(j)
                      /\ Left(j)' => (Left(j) /\ brow'[j] = brow[j]) \/ (Unborn(j) /\ ~JobFinished(brow'[j].status))
    BY <1>0 DEF B!Watched, Left, B!Present
<1>6. Seen'
  <2>1. \A j \in Jobs : JobFinished(brow'[j].status) => JobFinished(bremote'[j])
      BY <1>1 DEF Seen, JobFinished
  <2>2. \A b \in B!Tasks : bwork'[b].pc = "update" /\ JobFinished(bwork'[b].seen) => JobFinished(bremote'[b[1]])
      BY <1>0, <1>1, ActorFacts DEF Seen
  <2>4. bopen' => \A b \in B!Tasks : bwork'[b].stop /\ bwork'[b].pc = "update" /\ JobFinished(bwork'[b].seen) => ~Late(b[1])'
      BY <1>0, <1>1, ActorFacts DEF Seen
  <2>5. \A j \in Jobs : (bopen' \/ (Resuming' /\ j \in bdue')) /\ JobFinished(brow'[j].status) /\ Left(j)' => ~Late(j)'
      BY <1>0, <1>1, <1>5 DEF Seen, Resuming
  <2> QED
      BY <2>1, <2>2, <2>4, <2>5 DEF Seen, JobFinished
<1>7. Dues'
    BY <1>0, <1>1, <1>5, <1>d DEF Dues, DueOf, Resuming, B!Job
<1>8. Marks'
    BY <1>0, MarksFrame DEF JobsInv, Marks
<1>9. B!NothingMarkedUnhandled'
    BY UnmarkedFrame DEF JobsInv, B!BatchAssumption, Grows
<1>10. Types'
    BY <1>0 DEF JobsInv, Types, WorkTypes
<1> QED
    BY <1>3, <1>4, <1>6, <1>7, <1>8, <1>9, <1>10 DEF JobsInv

LEMMA StillFrame ==
    ASSUME B!BatchAssumption, JobsInv, UNCHANGED <<bwork, bentry, bcreating, btodo>>, Grows, Unmarked, JobTypes',
           bask' \in AskRecord, bask'.pc # "none" => bask'.job \in Jobs /\ ~Unborn(bask'.job),
           bask'.pc = "update" => bask'.seen # "none" /\ (JobFinished(bask'.seen) => JobFinished(bremote'[bask'.job])),
           bdue' = bdue, bopen' = bopen,
           \A j \in Jobs : /\ bremote'[j] = "none" <=> bremote[j] = "none"
                           /\ JobFinished(bremote[j]) => JobFinished(bremote'[j])
                           /\ brow'[j] = brow[j] \/ brow'[j].status = "none"
                           /\ Late(j)' => Late(j) \/ ~JobFinished(bremote[j])
    PROVE  JobsInv'
<1>1. Births /\ bcreating' = bcreating /\ \A p \in bcreating : p[1] \in Jobs
    BY DEF JobsInv, Types, JobTypes
<1>2. (\A p, q \in bcreating' : p = q) /\ (\A p \in bcreating' : bremote'[p[1]] # "none")
    BY <1>1 DEF Births
<1>3. \A j \in Jobs : Unborn(j)' => Unborn(j) /\ brow'[j].status = "none"
    BY <1>1 DEF Births, Unborn, B!Present
<1> QED
    BY <1>2, <1>3, StillCore

\* A call of get_batch or cancel_batch that does not move.
LEMMA AskKept ==
    ASSUME B!BatchAssumption, JobsInv, bask' = bask, \A j \in Jobs : JobFinished(bremote[j]) => JobFinished(bremote'[j])
    PROVE  /\ bask' \in AskRecord /\ (bask'.pc # "none" => bask'.job \in Jobs /\ ~Unborn(bask'.job))
           /\ bask'.pc = "update" => bask'.seen # "none" /\ (JobFinished(bask'.seen) => JobFinished(bremote'[bask'.job]))
           /\ \A j : Late(j)' <=> Late(j)
<1>1. bask \in AskRecord /\ Births /\ Places /\ Seen
    BY DEF JobsInv, Types
<1>2. bask.pc # "none" => bask.job \in Jobs /\ ~Unborn(bask.job)
    BY <1>1 DEF Births, Places
<1>3. bask.pc = "update" => bask.seen # "none" /\ (JobFinished(bask.seen) => JobFinished(bremote[bask.job]))
    BY <1>1 DEF Places, Seen
<1>4. \A j : Late(j)' <=> Late(j)
    BY DEF Late
<1> QED
    BY <1>1, <1>2, <1>3, <1>4

LEMMA ProviderEndsStep ==
    ASSUME B!BatchAssumption, JobsInv, NEW j \in Jobs, B!ProviderEnds(j)
    PROVE  JobsInv'
<1>1. UNCHANGED <<bopen, brow, bsaved, bknown, bcreating, bentry, bwork, btodo, bask, bhanded, bskipped,
                  bdue, basks, bfaults, brestarts>>
    BY DEF B!ProviderEnds, B!history
<1>2. /\ bremote[j] \in {"active", "cancelling"} /\ bremote \in [Jobs -> B!Statuses] /\ berrors \in [Jobs -> SUBSET Requests]
    BY DEF B!ProviderEnds, B!Unfinished, JobsInv, Types, JobTypes
<1>3. PICK s \in {"done", "failed"} : bremote' = [bremote EXCEPT ![j] = s]
    BY DEF B!ProviderEnds
<1>4. berrors' \in [Jobs -> SUBSET Requests] /\ \A i \in Jobs : i # j => berrors'[i] = berrors[i]
    BY <1>2 DEF B!ProviderEnds
<1>5. /\ bremote' \in [Jobs -> B!Statuses]
      /\ \A i \in Jobs : i # j => bremote'[i] = bremote[i]
      /\ bremote'[j] = s
    BY <1>2, <1>3 DEF B!Statuses
<1>6. \A i \in Jobs : /\ bremote'[i] = "none" <=> bremote[i] = "none"
                      /\ JobFinished(bremote[i]) => JobFinished(bremote'[i])
                      /\ bremote[i] = "done" => bremote'[i] = "done" /\ berrors'[i] = berrors[i]
    BY <1>2, <1>4, <1>5 DEF JobFinished
<1>7. Grows /\ Unmarked
    BY <1>1, <1>6 DEF Grows, Unmarked
<1>8. JobTypes'
    BY <1>1, <1>4, <1>5 DEF JobTypes, JobsInv, Types
<1>9. /\ bask' \in AskRecord /\ (bask'.pc # "none" => bask'.job \in Jobs /\ ~Unborn(bask'.job))
      /\ bask'.pc = "update" => bask'.seen # "none" /\ (JobFinished(bask'.seen) => JobFinished(bremote'[bask'.job]))
      /\ \A i : Late(i)' <=> Late(i)
    BY <1>1, <1>6, AskKept
<1> QED
    BY <1>1, <1>6, <1>7, <1>8, <1>9, StillFrame

LEMMA CleanupStep ==
    ASSUME B!BatchAssumption, JobsInv, NEW j \in Jobs, B!Cleanup(j)
    PROVE  JobsInv'
<1>1. UNCHANGED <<bopen, bremote, berrors, bknown, bcreating, bentry, bwork, btodo, bask, bhanded, bskipped,
                  bdue, basks, bfaults, brestarts>>
    BY DEF B!Cleanup, B!history
<1>2. brow \in [Jobs -> RowRecord] /\ bsaved \in [Jobs -> SUBSET Requests]
    BY DEF JobsInv, Types, JobTypes
<1>3. [status |-> "none", processed |-> FALSE] \in RowRecord
    BY DEF RowRecord, B!Statuses
<1>4. /\ brow' \in [Jobs -> RowRecord] /\ bsaved' \in [Jobs -> SUBSET Requests]
      /\ \A i \in Jobs : i # j => brow'[i] = brow[i] /\ bsaved'[i] = bsaved[i]
      /\ brow'[j].status = "none" /\ ~brow'[j].processed
    BY <1>2, <1>3 DEF B!Cleanup
<1>5. Grows /\ Unmarked
    BY <1>1, <1>4 DEF Grows, Unmarked
<1>6. JobTypes'
    BY <1>1, <1>4 DEF JobTypes, JobsInv, Types
<1>7. \A i \in Jobs : brow'[i] = brow[i] \/ brow'[i].status = "none"
    BY <1>4
<1> QED
    BY <1>1, <1>5, <1>6, <1>7, AskKept, StillFrame

LEMMA AddCallbacksStep ==
    ASSUME B!BatchAssumption, JobsInv, B!AddCallbacks
    PROVE  JobsInv'
<1>1. UNCHANGED <<bopen, bremote, berrors, brow, bsaved, bcreating, bentry, bwork, btodo, bask, bhanded,
                  bskipped, bdue, basks, bfaults, brestarts>>
      /\ bknown' = Named
    BY DEF B!AddCallbacks, B!history
<1>2. Grows /\ Unmarked /\ JobTypes'
    BY <1>1 DEF Grows, Unmarked, JobTypes, JobsInv, Types
<1> QED
    BY <1>1, <1>2, AskKept, StillFrame

LEMMA AskForStep ==
    ASSUME B!BatchAssumption, JobsInv, NEW j \in Jobs, NEW cancel \in BOOLEAN, B!AskFor(j, cancel)
    PROVE  JobsInv'
<1>1. UNCHANGED <<bopen, bremote, berrors, brow, bsaved, bknown, bcreating, bentry, bwork, btodo, bhanded,
                  bskipped, bdue, bfaults, brestarts>>
    BY DEF B!AskFor, B!history
<1>2. B!Present(j) /\ basks' \in 0 .. MaxAsks
    BY DEF B!AskFor, JobsInv, Types, JobTypes, B!BatchAssumption
<1>3. ~Unborn(j)
    BY <1>2 DEF JobsInv, Births
<1>4. bask' = [pc |-> "get", job |-> j, seen |-> "none", cancel |-> cancel] /\ bask' \in AskRecord
    BY DEF B!AskFor, AskRecord, B!Statuses
<1>5. Grows /\ Unmarked /\ JobTypes'
    BY <1>1, <1>2 DEF Grows, Unmarked, JobTypes, JobsInv, Types
<1>6. \A i : ~Late(i)'
    BY <1>4 DEF Late
<1> QED
    BY <1>1, <1>3, <1>4, <1>5, <1>6, StillFrame

LEMMA AskProviderStep ==
    ASSUME B!BatchAssumption, JobsInv, B!AskProvider
    PROVE  JobsInv'
<1>1. UNCHANGED <<bopen, berrors, brow, bsaved, bknown, bcreating, bentry, bwork, btodo, bhanded, bskipped,
                  bdue, basks, bfaults, brestarts>>
    BY DEF B!AskProvider, B!history
<1>2. PICK j \in Jobs : bask.job = j /\ ~Unborn(j) /\ bask.pc = "get" /\ bremote[j] # "none"
    BY DEF B!AskProvider, JobsInv, Places, Births, Unborn
<1>3. bremote \in [Jobs -> B!Statuses] /\ bask \in AskRecord
    BY DEF JobsInv, Types, JobTypes
<1>4. PICK now \in B!Statuses : now = IF bask.cancel /\ bremote[j] = "active" THEN "cancelling" ELSE bremote[j]
    BY <1>2, <1>3 DEF B!Statuses
<1>5. /\ bremote' = [bremote EXCEPT ![j] = now]
      /\ bask' = [bask EXCEPT !.pc = "update", !.seen = now]
    BY <1>2, <1>4 DEF B!AskProvider
<1>6. now # "none" /\ (now = bremote[j] \/ (bremote[j] = "active" /\ now = "cancelling"))
    BY <1>2, <1>4
<1>7. /\ bremote' \in [Jobs -> B!Statuses] /\ bremote'[j] = now
      /\ \A i \in Jobs : i # j => bremote'[i] = bremote[i]
    BY <1>3, <1>5
<1>8. /\ bask' \in AskRecord /\ bask'.pc = "update" /\ bask'.seen = now /\ bask'.job = j
    BY <1>2, <1>3, <1>5 DEF AskRecord
<1>9. \A i \in Jobs : /\ bremote'[i] = "none" <=> bremote[i] = "none"
                      /\ JobFinished(bremote[i]) => JobFinished(bremote'[i])
                      /\ bremote[i] = "done" => bremote'[i] = "done"
    BY <1>6, <1>7 DEF JobFinished
<1>10. \A i \in Jobs : Late(i)' => ~JobFinished(bremote[i])
    BY <1>6, <1>8 DEF Late, JobFinished
<1>11. Grows /\ Unmarked
    BY <1>1, <1>9 DEF Grows, Unmarked
<1>12. JobTypes'
    BY <1>1, <1>7 DEF JobTypes, JobsInv, Types
<1> QED
    BY <1>1, <1>2, <1>6, <1>7, <1>8, <1>9, <1>10, <1>11, <1>12, StillFrame

LEMMA AskFailsStep ==
    ASSUME B!BatchAssumption, JobsInv, B!AskFails
    PROVE  JobsInv'
<1>1. UNCHANGED <<bopen, bremote, berrors, brow, bsaved, bknown, bcreating, bentry, bwork, btodo, bhanded,
                  bskipped, bdue, basks, brestarts>>
      /\ bask' = B!NoAsk
    BY DEF B!AskFails, B!history
<1>2. bfaults' \in 0 .. MaxFaults
    BY DEF B!AskFails, JobsInv, Types, JobTypes, B!BatchAssumption
<1>3. bask' \in AskRecord /\ bask'.pc = "none" /\ \A j : ~Late(j)'
    BY <1>1 DEF B!NoAsk, AskRecord, B!Statuses, Late
<1>4. Grows /\ Unmarked /\ JobTypes'
    BY <1>1, <1>2 DEF Grows, Unmarked, JobTypes, JobsInv, Types
<1> QED
    BY <1>1, <1>3, <1>4, StillFrame

LEMMA SubmitStep ==
    ASSUME B!BatchAssumption, JobsInv, NEW j \in Jobs, B!Submit(j)
    PROVE  JobsInv'
<1>1. UNCHANGED <<bopen, berrors, brow, bsaved, bknown, bentry, bwork, btodo, bask, bhanded, bskipped, bdue,
                  basks, bfaults, brestarts>>
    BY DEF B!Submit, B!history
<1>2. bremote[j] = "none" /\ bcreating = {} /\ bcreating' = {<<j, FALSE>>} /\ bremote' = [bremote EXCEPT ![j] = "active"]
    BY DEF B!Submit
<1>3. bremote \in [Jobs -> B!Statuses] /\ Births
    BY DEF JobsInv, Types, JobTypes
<1>4. /\ bremote' \in [Jobs -> B!Statuses] /\ bremote'[j] = "active"
      /\ \A i \in Jobs : i # j => bremote'[i] = bremote[i]
    BY <1>2, <1>3 DEF B!Statuses
<1>5. (\A p, q \in bcreating' : p = q) /\ (\A p \in bcreating' : bremote'[p[1]] # "none")
    BY <1>2, <1>4
<1>6. \A i \in Jobs : Unborn(i)' => Unborn(i) /\ brow'[i].status = "none"
  <2>1. \A i \in Jobs : Unborn(i)' => Unborn(i)
      BY <1>2, <1>4 DEF Unborn
  <2> QED
      BY <1>1, <1>3, <2>1 DEF Births, B!Present
<1>7. \A i \in Jobs : JobFinished(bremote[i]) => JobFinished(bremote'[i])
    BY <1>2, <1>4 DEF JobFinished
<1>8. Grows /\ Unmarked
    BY <1>1, <1>2, <1>4 DEF Grows, Unmarked
<1>9. JobTypes'
  <2>1. bcreating' \in SUBSET (Jobs \X BOOLEAN)
    <3>1. <<j, FALSE>> \in Jobs \X BOOLEAN
        OBVIOUS
    <3> QED
        BY <1>2, <3>1
  <2> QED
      BY <1>1, <1>4, <2>1 DEF JobTypes, JobsInv, Types
<1>10. /\ bask' \in AskRecord /\ (bask'.pc # "none" => bask'.job \in Jobs /\ ~Unborn(bask'.job))
       /\ bask'.pc = "update" => bask'.seen # "none" /\ (JobFinished(bask'.seen) => JobFinished(bremote'[bask'.job]))
       /\ \A i : Late(i)' <=> Late(i)
    BY <1>1, <1>7, AskKept
<1> QED
    BY <1>1, <1>5, <1>6, <1>7, <1>8, <1>9, <1>10, StillCore

LEMMA SaveBatchStep ==
    ASSUME B!BatchAssumption, JobsInv, NEW j \in Jobs, B!SaveBatch(j)
    PROVE  JobsInv'
<1>1. UNCHANGED <<bopen, bremote, berrors, bsaved, bknown, bentry, bwork, btodo, bask, bhanded, bskipped,
                  bdue, basks, bfaults, brestarts>>
    BY DEF B!SaveBatch, B!history
<1>2. <<j, FALSE>> \in bcreating /\ bcreating' = {<<j, TRUE>>} /\ brow' = [brow EXCEPT ![j].status = "active"]
    BY DEF B!SaveBatch
<1>3. brow \in [Jobs -> RowRecord] /\ Births /\ bcreating \subseteq Jobs \X BOOLEAN
    BY DEF JobsInv, Types, JobTypes
<1>4. bcreating = {<<j, FALSE>>} /\ bremote[j] # "none" /\ Unborn(j)
    BY <1>2, <1>3 DEF Births, Unborn
<1>5. brow' = [brow EXCEPT ![j] = [brow[j] EXCEPT !.status = "active"]]
    BY <1>2, <1>3 DEF RowRecord
<1>6. brow[j] \in RowRecord /\ [brow[j] EXCEPT !.status = "active"] \in RowRecord
    BY <1>3 DEF RowRecord, B!Statuses
<1>7. /\ brow' \in [Jobs -> RowRecord] /\ brow'[j] = [brow[j] EXCEPT !.status = "active"]
      /\ \A i \in Jobs : i # j => brow'[i] = brow[i]
    BY <1>3, <1>5, <1>6
<1>8. brow'[j].status = "active" /\ brow'[j].processed = brow[j].processed
    BY <1>6, <1>7 DEF RowRecord
<1>9. (\A p, q \in bcreating' : p = q) /\ (\A p \in bcreating' : bremote'[p[1]] # "none")
    BY <1>1, <1>2, <1>4
<1>10. \A i \in Jobs : Unborn(i)' => Unborn(i) /\ brow'[i].status = "none"
  <2>1. \A i \in Jobs : Unborn(i)' => Unborn(i) /\ i # j
      BY <1>1, <1>2, <1>4 DEF Unborn
  <2> QED
      BY <1>3, <1>7, <2>1 DEF Births, B!Present
<1>11. Grows /\ Unmarked
    BY <1>1, <1>4, <1>7, <1>8 DEF Grows, Unmarked
<1>12. JobTypes'
  <2>1. bcreating' \in SUBSET (Jobs \X BOOLEAN)
    <3>1. <<j, TRUE>> \in Jobs \X BOOLEAN
        OBVIOUS
    <3> QED
        BY <1>2, <3>1
  <2> QED
      BY <1>1, <1>7, <2>1 DEF JobTypes, JobsInv, Types
<1>13. /\ bask' \in AskRecord /\ (bask'.pc # "none" => bask'.job \in Jobs /\ ~Unborn(bask'.job))
       /\ bask'.pc = "update" => bask'.seen # "none" /\ (JobFinished(bask'.seen) => JobFinished(bremote'[bask'.job]))
       /\ \A i : Late(i)' <=> Late(i)
    BY <1>1, AskKept
<1>14. \A i \in Jobs : brow'[i] = brow[i] \/ (Unborn(i) /\ ~JobFinished(brow'[i].status))
    BY <1>4, <1>7, <1>8 DEF JobFinished
<1> QED
    BY <1>1, <1>9, <1>10, <1>11, <1>12, <1>13, <1>14, StillCore

LEMMA AskUpdateStep ==
    ASSUME B!BatchAssumption, JobsInv, B!AskUpdate
    PROVE  JobsInv'
<1>1. UNCHANGED <<bopen, bremote, berrors, bsaved, bknown, bcreating, bentry, bwork, btodo, bhanded,
                  bskipped, bdue, basks, bfaults, brestarts>>
    BY DEF B!AskUpdate, B!history
<1>2. Births /\ Places /\ Seen /\ Dues /\ bask \in AskRecord
    BY DEF JobsInv, Types
<1>3. PICK j \in Jobs : bask.job = j /\ bask.pc = "update" /\ ~Unborn(j)
    BY <1>2 DEF B!AskUpdate, Places, Births
<1>4. bask.seen \in B!Statuses \ {"none"} /\ (JobFinished(bask.seen) => JobFinished(bremote[j]))
    BY <1>2, <1>3 DEF Places, Seen, AskRecord
<1>5. /\ brow' \in [Jobs -> RowRecord]
      /\ \A i \in Jobs : i # j => brow'[i] = brow[i]
      /\ \A i \in Jobs : brow'[i].processed = brow[i].processed /\ (brow'[i].status # "none" <=> brow[i].status # "none")
      /\ brow'[j].status \in {bask.seen, "none"}
    BY <1>3, <1>4, SetStatusFacts DEF B!AskUpdate, JobsInv
<1>6. bask' \in AskRecord /\ bask'.pc \in {"none", "drop"} /\ (bask'.pc = "drop" => bask'.job = j)
    BY <1>2, <1>3 DEF B!AskUpdate, AskRecord, B!NoAsk, B!Statuses
<1>7. \A i \in Jobs : /\ brow'[i].status = "none" <=> brow[i].status = "none"
                      /\ JobFinished(brow'[i].status) => JobFinished(bremote[i])
    BY <1>2, <1>4, <1>5 DEF Seen, JobFinished
<1>8. \A i \in Jobs : (B!Watched(i)' <=> B!Watched(i)) /\ (Left(i)' <=> Left(i))
    BY <1>1, <1>5 DEF B!Watched, Left, B!Present
<1>9. \A i : ~Late(i)'
    BY <1>6 DEF Late
<1>10. Births'
  <2>1. \A i \in Jobs : Unborn(i)' => ~B!Present(i)' /\ i \notin btodo' /\ \A a \in B!Actors : Busy(a)' => B!Job(a)' # i
      BY <1>1, <1>2, <1>7 DEF Births, Unborn, B!Present, Busy, B!Job
  <2>2. (bask.pc # "none" => ~Unborn(bask.job))'
      BY <1>1, <1>3, <1>6 DEF Unborn
  <2> QED
      BY <1>1, <1>2, <2>1, <2>2 DEF Births, Unborn
<1>11. Places'
  <2>1. (bask'.pc # "none" => bask'.job \in Jobs) /\ bask'.pc # "update"
      BY <1>6
  <2> QED
      BY <1>1, <1>2, <2>1 DEF Places, Busy, B!Job
<1>12. Seen'
  <2>1. \A i \in Jobs : JobFinished(brow'[i].status) => JobFinished(bremote'[i])
      BY <1>1, <1>7
  <2>2. \A b \in B!Tasks : bwork'[b].pc = "update" /\ JobFinished(bwork'[b].seen) => JobFinished(bremote'[b[1]])
      BY <1>1, <1>2 DEF Seen
  <2> QED
      BY <1>6, <1>9, <2>1, <2>2 DEF Seen, JobFinished
<1>13. Dues'
  <2> SUFFICES ASSUME Resuming', NEW i \in bdue' PROVE DueOf(i)'
      BY DEF Dues
  <2>1. Resuming /\ i \in bdue /\ DueOf(i) /\ i \in Jobs
      BY <1>1, <1>2 DEF Dues, Resuming, JobsInv, Types, JobTypes
  <2>2. Left(i) /\ JobFinished(brow[i].status) => JobFinished(brow'[i].status)
    <3>1. CASE i # j
        BY <1>5, <2>1, <3>1
    <3>2. CASE i = j
      <4> SUFFICES ASSUME Left(j), JobFinished(brow[j].status) PROVE JobFinished(brow'[j].status)
          BY <3>2
      <4>1. ~Late(j)
          BY <1>2, <2>1, <3>2 DEF Seen
      <4>2. JobFinished(bask.seen) /\ brow'[j].status # "none"
          BY <1>3, <1>7, <4>1 DEF Late, Left, B!Present
      <4> QED
          BY <1>5, <4>2
    <3> QED
        BY <3>1, <3>2
  <2>3. \A b \in B!Tasks : b[1] = i => ~bwork'[b].stop
      BY <1>1, <2>1 DEF DueOf
  <2> QED
      BY <1>1, <1>8, <2>1, <2>2, <2>3 DEF DueOf, B!Job
<1>14. Grows /\ Unmarked
    BY <1>1, <1>5 DEF Grows, Unmarked
<1>15. JobTypes'
    BY <1>1, <1>5 DEF JobTypes, JobsInv, Types
<1>16. Marks'
    BY <1>1, <1>14, MarksFrame DEF JobsInv, Marks
<1>17. B!NothingMarkedUnhandled'
    BY <1>14, UnmarkedFrame DEF JobsInv, B!BatchAssumption, Grows
<1>18. Types'
    BY <1>1, <1>6, <1>15 DEF JobsInv, Types, WorkTypes
<1> QED
    BY <1>10, <1>11, <1>12, <1>13, <1>16, <1>17, <1>18 DEF JobsInv

\* Some monitors are told to stop, and taken off; nobody waits for their jobs then.
LEMMA StopFrame ==
    ASSUME B!BatchAssumption, JobsInv, WorkTypes', NEW X \in SUBSET B!Tasks, \A b \in X : Busy(b),
           \A b \in B!Actors : /\ bwork'[b].pc = bwork[b].pc /\ bwork'[b].job = bwork[b].job
                               /\ bwork'[b].seen = bwork[b].seen /\ bwork'[b].got = bwork[b].got
                               /\ b \notin X => bwork'[b] = bwork[b],
           bentry' \in [Jobs -> B!Tasks \cup {B!NoTask}],
           \A j \in Jobs : bentry'[j] # B!NoTask => bentry'[j] = bentry[j] /\ bentry[j] \notin X,
           bdue' \subseteq bdue, \A j \in bdue', b \in X : b[1] # j,
           bopen' \in BOOLEAN, bopen' => bopen, bask' = B!NoAsk \/ (bask' = bask /\ ~bopen'),
           UNCHANGED <<bremote, berrors, brow, bsaved, bknown, bcreating, btodo, bhanded, bskipped, basks,
                       bfaults, brestarts>>
    PROVE  JobsInv'
<1>0. bremote' = bremote /\ brow' = brow /\ bcreating' = bcreating /\ btodo' = btodo
    OBVIOUS
<1>1. Births /\ Places /\ Seen /\ Dues
    BY DEF JobsInv
<1>2. bask' = bask \/ (bask'.pc = "none" /\ \A j : ~Late(j)')
    BY DEF B!NoAsk, Late
<1>3. Births'
  <2>1. \A b \in B!Actors : (Busy(b)' <=> Busy(b)) /\ B!Job(b)' = B!Job(b)
      BY DEF Busy, B!Job
  <2>2. \A j : Unborn(j)' <=> Unborn(j)
      BY DEF Unborn
  <2>3. \A j \in Jobs : Unborn(j) => ~B!Present(j)' /\ j \notin btodo' /\ \A b \in B!Actors : Busy(b)' => B!Job(b)' # j
      BY <1>0, <1>1, <2>1 DEF Births, B!Present
  <2>4. (bask.pc # "none" => ~Unborn(bask.job))'
      BY <1>0, <1>1, <1>2 DEF Births, Unborn
  <2>5. \A j \in bdue' : ~Unborn(j)'
      BY <1>1, <2>2 DEF Births
  <2> QED
      BY <1>0, <1>1, <2>2, <2>3, <2>4, <2>5 DEF Births
<1>4. Places'
  <2>1. \A b \in B!Tasks : Busy(b)' => bwork'[b].job = b[1] /\ bwork'[b].pc \in B!Processing \cup B!MonitorOnly
      BY <1>1, ActorFacts DEF Places, Busy, B!Job
  <2>2. bwork'[B!Resume] = bwork[B!Resume]
      BY ActorFacts
  <2>3. \A b \in B!Actors : (bwork'[b].stop => Busy(b)') /\ (~Busy(b)' => bwork'[b].job = 0)
      BY <1>1 DEF Places, Busy, B!Job
  <2>4. \A j \in Jobs : bentry'[j] # B!NoTask =>
          bentry'[j] \in B!Tasks /\ bentry'[j][1] = j /\ bwork'[bentry'[j]].pc # "none" /\ ~bwork'[bentry'[j]].stop
    <3> SUFFICES ASSUME NEW j \in Jobs, bentry'[j] # B!NoTask
                 PROVE  bentry'[j] \in B!Tasks /\ bentry'[j][1] = j /\ bwork'[bentry'[j]].pc # "none" /\ ~bwork'[bentry'[j]].stop
        OBVIOUS
    <3>1. bentry'[j] = bentry[j] /\ bentry[j] \notin X
        OBVIOUS
    <3>2. bentry[j] \in B!Tasks /\ bentry[j][1] = j /\ bwork[bentry[j]].pc # "none" /\ ~bwork[bentry[j]].stop
        BY <1>1, <3>1 DEF Places, Busy
    <3>3. bwork'[bentry[j]] = bwork[bentry[j]]
        BY <3>1, <3>2, ActorFacts
    <3> QED
        BY <3>1, <3>2, <3>3
  <2>5. /\ bask'.pc # "none" => bask'.job \in Jobs
        /\ bask'.pc = "update" => bask'.seen # "none"
      BY <1>1, <1>2 DEF Places
  <2>6. \A b \in B!Tasks : bwork'[b].pc = "update" => bwork'[b].seen # "none"
      BY <1>1, ActorFacts DEF Places
  <2> QED
      BY <1>1, <2>1, <2>2, <2>3, <2>4, <2>5, <2>6 DEF Places, Busy, B!Job
<1>5. \A j \in bdue' : (Left(j)' <=> Left(j)) /\ \A b \in B!Tasks : b[1] = j => bwork'[b] = bwork[b]
  <2> SUFFICES ASSUME NEW j \in bdue' PROVE (Left(j)' <=> Left(j)) /\ \A b \in B!Tasks : b[1] = j => bwork'[b] = bwork[b]
      OBVIOUS
  <2>1. \A b \in B!Tasks : b[1] = j => bwork'[b] = bwork[b]
      BY ActorFacts
  <2>2. B!Watched(j)' <=> B!Watched(j)
      BY <2>1 DEF B!Watched
  <2> QED
      BY <1>0, <2>1, <2>2 DEF Left, B!Present
<1>6. Resuming' <=> Resuming
    BY ActorFacts DEF Resuming
<1>7. Seen'
  <2>1. \A j \in Jobs : JobFinished(brow'[j].status) => JobFinished(bremote'[j])
      BY <1>0, <1>1 DEF Seen
  <2>2. \A b \in B!Tasks : bwork'[b].pc = "update" /\ JobFinished(bwork'[b].seen) => JobFinished(bremote'[b[1]])
      BY <1>0, <1>1, ActorFacts DEF Seen
  <2>3. bask'.pc = "update" /\ JobFinished(bask'.seen) => JobFinished(bremote'[bask'.job])
      BY <1>0, <1>1, <1>2 DEF Seen
  <2>4. bopen' => \A b \in B!Tasks : bwork'[b].stop /\ bwork'[b].pc = "update" /\ JobFinished(bwork'[b].seen) => ~Late(b[1])'
      BY <1>2 DEF B!NoAsk, Late
  <2>5. \A j \in Jobs : (bopen' \/ (Resuming' /\ j \in bdue')) /\ JobFinished(brow'[j].status) /\ Left(j)' => ~Late(j)'
    <3>1. CASE bask' = B!NoAsk
        BY <3>1 DEF B!NoAsk, Late
    <3>2. CASE bask' = bask /\ ~bopen'
        BY <1>0, <1>1, <1>5, <1>6, <3>2 DEF Seen, Late
    <3> QED
        BY <3>1, <3>2
  <2> QED
      BY <2>1, <2>2, <2>3, <2>4, <2>5 DEF Seen, JobFinished
<1>8. Dues'
  <2> SUFFICES ASSUME Resuming', NEW j \in bdue' PROVE DueOf(j)'
      BY DEF Dues
  <2>1. DueOf(j)
      BY <1>1, <1>6 DEF Dues
  <2>2. bwork'[B!Resume] = bwork[B!Resume]
      BY ActorFacts
  <2>3. \A b \in B!Tasks : b[1] = j => ~bwork'[b].stop
      BY <1>5, <2>1 DEF DueOf
  <2> QED
      BY <1>0, <1>5, <2>1, <2>2, <2>3 DEF DueOf, B!Job
<1>9. Grows /\ Unmarked
    BY DEF Grows, Unmarked
<1>10. bask' \in AskRecord
  <2>1. B!NoAsk \in AskRecord
      BY DEF B!NoAsk, AskRecord, B!Statuses
  <2>2. bask \in AskRecord
      BY DEF JobsInv, Types
  <2> QED
      BY <2>1, <2>2
<1>11. JobTypes'
    BY DEF JobTypes, JobsInv, Types
<1>12. Marks'
    BY <1>1, <1>9, MarksFrame DEF JobsInv, Marks
<1>13. B!NothingMarkedUnhandled'
    BY <1>9, UnmarkedFrame DEF JobsInv, B!BatchAssumption, Grows
<1> QED
    BY <1>3, <1>4, <1>7, <1>8, <1>10, <1>11, <1>12, <1>13 DEF JobsInv, Types

\* Tasks that are told to stop keep their place.
LEMMA StopWork ==
    ASSUME WorkTypes, NEW X \in SUBSET B!Tasks, B!Tasks \subseteq B!Actors,
           bwork' = [a \in B!Actors |-> IF a \in X THEN [bwork[a] EXCEPT !.stop = TRUE] ELSE bwork[a]]
    PROVE  /\ WorkTypes'
           /\ \A b \in B!Actors : /\ bwork'[b].pc = bwork[b].pc /\ bwork'[b].job = bwork[b].job
                                  /\ bwork'[b].seen = bwork[b].seen /\ bwork'[b].got = bwork[b].got
                                  /\ b \notin X => bwork'[b] = bwork[b]
<1>1. \A b \in B!Actors : [bwork[b] EXCEPT !.stop = TRUE] \in WorkRecord /\ bwork[b] \in WorkRecord
    BY DEF WorkTypes, WorkRecord
<1>2. \A b \in B!Actors : bwork'[b] = bwork[b] \/ bwork'[b] = [bwork[b] EXCEPT !.stop = TRUE]
    OBVIOUS
<1>3. WorkTypes'
    BY <1>1 DEF WorkTypes
<1>4. ASSUME NEW b \in B!Actors
      PROVE  /\ bwork'[b].pc = bwork[b].pc /\ bwork'[b].job = bwork[b].job
             /\ bwork'[b].seen = bwork[b].seen /\ bwork'[b].got = bwork[b].got
    BY <1>1, <1>2 DEF WorkRecord
<1> QED
    BY <1>3, <1>4

LEMMA AskDropStep ==
    ASSUME B!BatchAssumption, JobsInv, B!AskDrop
    PROVE  JobsInv'
<1>1. UNCHANGED <<bopen, bremote, berrors, brow, bsaved, bknown, bcreating, btodo, bhanded, bskipped, basks,
                  bfaults, brestarts>>
      /\ bask' = B!NoAsk
    BY DEF B!AskDrop
<1>2. PICK j \in Jobs : bask.job = j /\ bdue' = bdue \ {j}
    BY DEF B!AskDrop, JobsInv, Places
<1>3. Places /\ bentry \in [Jobs -> B!Tasks \cup {B!NoTask}] /\ WorkTypes
    BY DEF JobsInv, Types
<1>4. bdue' \subseteq bdue /\ bopen' \in BOOLEAN
    BY <1>1, <1>2 DEF JobsInv, Types, JobTypes
<1>5. CASE bentry[j] = B!NoTask
  <2>1. bwork' = bwork /\ bentry' = bentry
      BY <1>2, <1>5 DEF B!AskDrop
  <2>2. WorkTypes'
      BY <1>3, <2>1 DEF WorkTypes
  <2>3. PICK X \in SUBSET B!Tasks : X = {}
      OBVIOUS
  <2>4. \A b \in B!Actors : /\ bwork'[b].pc = bwork[b].pc /\ bwork'[b].job = bwork[b].job
                             /\ bwork'[b].seen = bwork[b].seen /\ bwork'[b].got = bwork[b].got
                             /\ b \notin X => bwork'[b] = bwork[b]
      BY <2>1
  <2>5. (\A b \in X : Busy(b)) /\ \A i \in bdue', b \in X : b[1] # i
      BY <2>3
  <2>6. \A i \in Jobs : bentry'[i] # B!NoTask => bentry'[i] = bentry[i] /\ bentry[i] \notin X
      BY <2>1, <2>3
  <2> QED
      BY <1>1, <1>3, <1>4, <2>1, <2>2, <2>4, <2>5, <2>6, StopFrame
<1>6. CASE bentry[j] # B!NoTask
  <2> DEFINE t == bentry[j]
  <2>1. t \in B!Tasks /\ t[1] = j /\ Busy(t)
      BY <1>3, <1>6 DEF Places
  <2>2. bwork' = [bwork EXCEPT ![t].stop = TRUE] /\ bentry' = [bentry EXCEPT ![j] = B!NoTask]
      BY <1>2, <1>6 DEF B!AskDrop
  <2>x. PICK X \in SUBSET B!Tasks : X = {t}
      BY <2>1
  <2>3. bwork' = [a \in B!Actors |-> IF a \in X THEN [bwork[a] EXCEPT !.stop = TRUE] ELSE bwork[a]]
      BY <1>3, <2>1, <2>2, <2>x, ActorFacts DEF WorkTypes
  <2>4. /\ WorkTypes'
        /\ \A b \in B!Actors : /\ bwork'[b].pc = bwork[b].pc /\ bwork'[b].job = bwork[b].job
                               /\ bwork'[b].seen = bwork[b].seen /\ bwork'[b].got = bwork[b].got
                               /\ b \notin X => bwork'[b] = bwork[b]
      BY <1>3, <2>3, StopWork, ActorFacts
  <2>5. bentry' \in [Jobs -> B!Tasks \cup {B!NoTask}]
      BY <1>3, <2>2
  <2>6. \A i \in Jobs : bentry'[i] # B!NoTask => bentry'[i] = bentry[i] /\ bentry[i] \notin X
    <3>1. \A i \in Jobs : bentry'[i] # B!NoTask => i # j /\ bentry'[i] = bentry[i]
        BY <1>3, <2>2
    <3>2. \A i \in Jobs : bentry[i] = t => i = j
        BY <1>3, <1>6, <2>1 DEF Places
    <3> QED
        BY <2>x, <3>1, <3>2
  <2>7. (\A b \in X : Busy(b)) /\ \A i \in bdue', b \in X : b[1] # i
      BY <1>2, <2>1, <2>x
  <2> HIDE DEF t
  <2> QED
      BY <1>1, <1>4, <2>4, <2>5, <2>6, <2>7, StopFrame
<1> QED
    BY <1>5, <1>6

LEMMA CloseStep ==
    ASSUME B!BatchAssumption, JobsInv, B!Close
    PROVE  JobsInv'
<1>1. UNCHANGED <<bremote, berrors, brow, bsaved, bknown, bcreating, btodo, bhanded, bskipped, basks,
                  bfaults, brestarts>>
      /\ bask' = bask /\ bopen' = FALSE /\ bopen
    BY DEF B!Close
<1>2. Places /\ bentry \in [Jobs -> B!Tasks \cup {B!NoTask}] /\ WorkTypes /\ bdue \subseteq Jobs
    BY DEF JobsInv, Types, JobTypes
<1> DEFINE X == {a \in B!Tasks : \E j \in Jobs : bentry[j] = a}
<1>3. X \in SUBSET B!Tasks /\ \A b \in X : Busy(b) /\ bentry[b[1]] = b
    BY <1>2, ActorFacts DEF Places, B!NoTask, B!Tasks
<1>4. \A a \in B!Actors : a \in X <=> \E j \in Jobs : bentry[j] = a
    BY <1>2, ActorFacts
<1>5. bwork' = [a \in B!Actors |-> IF a \in X THEN [bwork[a] EXCEPT !.stop = TRUE] ELSE bwork[a]]
    BY <1>4 DEF B!Close
<1>6. bentry' = [j \in Jobs |-> B!NoTask] /\ bdue' = {j \in bdue : bentry[j] = B!NoTask}
    BY DEF B!Close
<1>7. B!NoTask \notin B!Tasks
    BY ActorFacts
<1>8. bdue' \subseteq bdue /\ \A j \in bdue', b \in X : b[1] # j
    BY <1>3, <1>6, <1>7
<1> HIDE DEF X
<1>9. /\ WorkTypes'
      /\ \A b \in B!Actors : /\ bwork'[b].pc = bwork[b].pc /\ bwork'[b].job = bwork[b].job
                             /\ bwork'[b].seen = bwork[b].seen /\ bwork'[b].got = bwork[b].got
                             /\ b \notin X => bwork'[b] = bwork[b]
    BY <1>2, <1>3, <1>5, StopWork, ActorFacts
<1>10. /\ bentry' \in [Jobs -> B!Tasks \cup {B!NoTask}]
       /\ \A j \in Jobs : bentry'[j] # B!NoTask => bentry'[j] = bentry[j] /\ bentry[j] \notin X
    BY <1>6
<1> QED
    BY <1>1, <1>3, <1>8, <1>9, <1>10, StopFrame

LEMMA CrashStep ==
    ASSUME B!BatchAssumption, JobsInv, B!Crash
    PROVE  JobsInv'
<1>1. /\ UNCHANGED <<bremote, berrors, brow, bsaved, bhanded, bskipped, bdue, basks, bfaults>>
      /\ bknown' = {} /\ bcreating' = {} /\ btodo' = {} /\ bask' = B!NoAsk /\ bopen' = TRUE
      /\ bentry' = [j \in Jobs |-> B!NoTask] /\ bwork' = [a \in B!Actors |-> B!Idle]
    BY DEF B!Crash, B!history
<1>2. brestarts' \in 0 .. MaxRestarts
    BY DEF B!Crash, JobsInv, Types, JobTypes, B!BatchAssumption
<1>3. JobTypes /\ Births /\ Seen
    BY DEF JobsInv, Types
<1>4. JobTypes'
    BY <1>1, <1>2, <1>3 DEF JobTypes
<1>5. B!Idle \in WorkRecord /\ B!NoAsk \in AskRecord
    BY DEF B!Idle, B!NoAsk, WorkRecord, AskRecord, PCs, B!Statuses
<1>6. Types'
    BY <1>1, <1>4, <1>5 DEF Types, WorkTypes
<1>7. \A b \in B!Actors : ~Busy(b)' /\ bwork'[b].pc = "none" /\ bwork'[b].job = 0 /\ ~bwork'[b].stop
    BY <1>1 DEF B!Idle, Busy
<1>8. bask'.pc = "none"
    BY <1>1 DEF B!NoAsk
<1>9. \A j \in Jobs : (Unborn(j)' => Unborn(j)) /\ (Unborn(j) => ~B!Present(j)')
    BY <1>1, <1>3 DEF Births, Unborn, B!Present
<1>10. Births'
  <2>1. \A j \in bdue' : ~Unborn(j)'
      BY <1>1, <1>3, <1>9 DEF Births, JobTypes
  <2> QED
      BY <1>1, <1>7, <1>8, <1>9, <2>1 DEF Births
<1>11. Places'
    BY <1>1, <1>7, <1>8, ActorFacts DEF Places, B!Processing, B!MonitorOnly, B!ResumeOnly, B!Job
<1>12. Seen'
  <2>1. \A j : ~Late(j)'
      BY <1>8 DEF Late
  <2>2. \A j \in Jobs : JobFinished(brow'[j].status) => JobFinished(bremote'[j])
      BY <1>1, <1>3 DEF Seen
  <2> QED
      BY <1>7, <1>8, <2>1, <2>2, ActorFacts DEF Seen, JobFinished
<1>13. Dues'
    BY <1>7, ActorFacts DEF Dues, Resuming
<1>14. Marks'
    BY <1>7 DEF Marks, HandedOut, B!Processing, B!MonitorOnly
<1>15. Unmarked
    BY <1>1 DEF Unmarked
<1>16. B!NothingMarkedUnhandled'
    BY <1>1, <1>15, UnmarkedFrame DEF JobsInv, B!BatchAssumption
<1> QED
    BY <1>6, <1>10, <1>11, <1>12, <1>13, <1>14, <1>16 DEF JobsInv

\* resume_all goes on between two jobs.
LEMMA ResumeMove ==
    ASSUME B!BatchAssumption, JobsInv, NEW w \in WorkRecord, bwork' = [bwork EXCEPT ![B!Resume] = w], ~w.stop,
           w.pc \in B!ResumeOnly \cup {"look"}, w.pc = "look" => w.job \in Jobs /\ w.got = {},
           w.job \in Jobs => ~Unborn(w.job),
           btodo' \subseteq Jobs, \A j \in btodo' : ~Unborn(j),
           bdue' \subseteq Jobs, \A j \in bdue' : ~Unborn(j), bopen \/ (Resuming /\ bdue' = bdue),
           \A j \in bdue' : DueOf(j)',
           UNCHANGED <<bopen, bremote, berrors, brow, bsaved, bknown, bcreating, bentry, bask, bhanded, bskipped,
                       basks, bfaults, brestarts>>
    PROVE  JobsInv'
<1>0. UNCHANGED <<bopen, bremote, brow, bcreating, bentry, bask>>
    OBVIOUS
<1>1. Births /\ Places /\ Seen /\ Marks /\ JobTypes
    BY DEF JobsInv, Types
<1>2. WorkTypes' /\ bwork'[B!Resume] = w /\ \A b \in B!Actors : b # B!Resume => bwork'[b] = bwork[b]
    BY ActorFacts, WorkTyped DEF JobsInv, Types, Others
<1>3. \A b \in B!Tasks : bwork'[b] = bwork[b]
    BY <1>2, ActorFacts
<1>4. w.pc # "none" /\ w.pc # "update"
    BY DEF B!ResumeOnly
<1>5. \A j \in Jobs : (Unborn(j)' <=> Unborn(j)) /\ (Left(j)' <=> Left(j)) /\ (Late(j)' <=> Late(j))
    BY <1>0, <1>3 DEF Unborn, Left, B!Present, B!Watched, Late
<1>6. Births'
  <2>1. \A j \in Jobs : Unborn(j)' => ~B!Present(j)' /\ j \notin btodo' /\ \A b \in B!Actors : Busy(b)' => B!Job(b)' # j
    <3> SUFFICES ASSUME NEW j \in Jobs, Unborn(j) PROVE ~B!Present(j)' /\ j \notin btodo' /\ \A b \in B!Actors : Busy(b)' => B!Job(b)' # j
        BY <1>5
    <3>1. ~B!Present(j)' /\ j \notin btodo' /\ w.job # j
        BY <1>0, <1>1 DEF Births, B!Present
    <3>2. \A b \in B!Tasks : Busy(b)' => B!Job(b)' # j
        BY <1>1, <1>3, ActorFacts DEF Births, Busy, B!Job
    <3> QED
        BY <1>2, <3>1, <3>2, ActorFacts DEF B!Job
  <2>2. \A j \in bdue' : ~Unborn(j)'
      BY <1>5
  <2>3. (bask.pc # "none" => ~Unborn(bask.job))'
      BY <1>0, <1>1 DEF Births, Unborn
  <2> QED
      BY <1>0, <1>1, <2>1, <2>2, <2>3 DEF Births
<1>7. Places'
  <2>1. \A b \in B!Tasks : Busy(b)' => bwork'[b].job = b[1] /\ bwork'[b].pc \in B!Processing \cup B!MonitorOnly
      BY <1>1, <1>3 DEF Places, Busy, B!Job
  <2>2. /\ bwork'[B!Resume].pc \in {"none"} \cup B!Processing \cup B!ResumeOnly /\ ~bwork'[B!Resume].stop
        /\ bwork'[B!Resume].pc \in B!Processing => bwork'[B!Resume].job \in Jobs
      BY <1>2 DEF B!Processing, B!ResumeOnly
  <2>3. \A b \in B!Actors : (bwork'[b].stop => Busy(b)') /\ (~Busy(b)' => bwork'[b].job = 0)
    <3>1. \A b \in B!Tasks : (bwork'[b].stop => Busy(b)') /\ (~Busy(b)' => bwork'[b].job = 0)
        BY <1>1, <1>3, ActorFacts DEF Places, Busy, B!Job
    <3> QED
        BY <1>2, <1>4, <3>1, ActorFacts DEF Busy
  <2>4. \A j \in Jobs : bentry'[j] # B!NoTask =>
          bentry'[j] \in B!Tasks /\ bentry'[j][1] = j /\ bwork'[bentry'[j]].pc # "none" /\ ~bwork'[bentry'[j]].stop
      BY <1>0, <1>1, <1>3 DEF Places, Busy
  <2>5. \A b \in B!Tasks : bwork'[b].pc = "update" => bwork'[b].seen # "none"
      BY <1>1, <1>3 DEF Places
  <2>6. (bask'.pc # "none" => bask'.job \in Jobs) /\ (bask'.pc = "update" => bask'.seen # "none")
      BY <1>0, <1>1 DEF Places
  <2> QED
      BY <2>1, <2>2, <2>3, <2>4, <2>5, <2>6 DEF Places, Busy, B!Job
<1>8. Seen'
  <2>1. \A j \in Jobs : JobFinished(brow'[j].status) => JobFinished(bremote'[j])
      BY <1>0, <1>1 DEF Seen
  <2>2. \A b \in B!Tasks : bwork'[b].pc = "update" /\ JobFinished(bwork'[b].seen) => JobFinished(bremote'[b[1]])
      BY <1>0, <1>1, <1>3 DEF Seen
  <2>3. bask'.pc = "update" /\ JobFinished(bask'.seen) => JobFinished(bremote'[bask'.job])
      BY <1>0, <1>1 DEF Seen
  <2>4. bopen' => \A b \in B!Tasks : bwork'[b].stop /\ bwork'[b].pc = "update" /\ JobFinished(bwork'[b].seen) => ~Late(b[1])'
      BY <1>0, <1>1, <1>3, <1>5, ActorFacts DEF Seen
  <2>5. \A j \in Jobs : (bopen' \/ (Resuming' /\ j \in bdue')) /\ JobFinished(brow'[j].status) /\ Left(j)' => ~Late(j)'
      BY <1>0, <1>1, <1>5 DEF Seen
  <2> QED
      BY <2>1, <2>2, <2>3, <2>4, <2>5 DEF Seen, JobFinished
<1>9. Dues'
    BY DEF Dues
<1>10. Grows /\ Unmarked
    BY DEF Grows, Unmarked
<1>11. Marks'
  <2> SUFFICES ASSUME NEW b \in B!Actors PROVE HandedOut(b)'
      BY DEF Marks
  <2>1. CASE b = B!Resume
    <3>1. w.got = {} \/ w.pc \notin B!Processing \cup B!MonitorOnly
        BY DEF B!Processing, B!MonitorOnly, B!ResumeOnly
    <3>2. w.pc \notin {"fetch", "call", "mark", "leave"}
        BY DEF B!ResumeOnly
    <3> QED
        BY <1>2, <2>1, <3>1, <3>2 DEF HandedOut
  <2>2. CASE b # B!Resume
      BY <1>1, <1>2, <1>10, <2>2, MarksFrame DEF Marks
  <2> QED
      BY <2>1, <2>2
<1>12. JobTypes'
    BY <1>1 DEF JobTypes
<1>13. B!NothingMarkedUnhandled'
    BY <1>10, UnmarkedFrame DEF JobsInv, B!BatchAssumption, Grows
<1> QED
    BY <1>0, <1>2, <1>6, <1>7, <1>8, <1>9, <1>11, <1>12, <1>13 DEF JobsInv, Types

\* resume_all goes to another place, with the same job.
LEMMA GoWith ==
    ASSUME B!BatchAssumption, JobsInv, NEW p \in PCs, B!Go(B!Resume, p)
    PROVE  \E w \in WorkRecord : /\ bwork' = [bwork EXCEPT ![B!Resume] = w]
                                 /\ w.pc = p /\ w.job = bwork[B!Resume].job /\ ~w.stop
                                 /\ bwork'[B!Resume] = w
<1>1. B!Resume \in B!Actors /\ WorkTypes /\ bwork[B!Resume] \in WorkRecord /\ ~bwork[B!Resume].stop
    BY ActorFacts DEF JobsInv, Types, WorkTypes, Places
<1> DEFINE w == [bwork[B!Resume] EXCEPT !.pc = p]
<1>2. w \in WorkRecord /\ w.pc = p /\ w.job = bwork[B!Resume].job /\ ~w.stop
    BY <1>1 DEF WorkRecord
<1>3. bwork' = [bwork EXCEPT ![B!Resume] = w]
    BY DEF B!Go
<1>4. bwork'[B!Resume] = w
    BY <1>1, <1>2, <1>3, WorkTyped
<1> HIDE DEF w
<1> QED
    BY <1>2, <1>3, <1>4

LEMMA BeginResumeStep ==
    ASSUME B!BatchAssumption, JobsInv, B!BeginResume
    PROVE  JobsInv'
<1>1. /\ bopen /\ bwork[B!Resume].pc = "none" /\ bwork[B!Resume].job = 0
      /\ UNCHANGED <<bopen, bremote, berrors, brow, bsaved, bknown, bcreating, bentry, btodo, bask, bhanded,
                     bskipped, basks, bfaults, brestarts>>
    BY ActorFacts DEF B!BeginResume, JobsInv, Places, Busy, B!Job
<1>2. B!Go(B!Resume, "active")
    BY DEF B!BeginResume, B!Go
<1>3. bdue' = {j \in Jobs : B!Present(j) /\ ~brow[j].processed /\ \A a \in B!Tasks : a[1] = j => ~bwork[a].stop}
    BY DEF B!BeginResume
<1>4. PICK w \in WorkRecord : bwork' = [bwork EXCEPT ![B!Resume] = w] /\ w.pc = "active" /\ w.job = bwork[B!Resume].job /\ ~w.stop
                              /\ bwork'[B!Resume] = w
    BY <1>2, GoWith DEF PCs, B!ResumeOnly
<1>5. bdue' \subseteq Jobs /\ \A j \in bdue' : ~Unborn(j)
    BY <1>3 DEF JobsInv, Births
<1>6. btodo' \subseteq Jobs /\ \A j \in btodo' : ~Unborn(j)
    BY <1>1 DEF JobsInv, Births, Types, JobTypes
<1>7. \A b \in B!Tasks : bwork'[b] = bwork[b]
    BY <1>4, ActorFacts DEF JobsInv, Types, WorkTypes
<1>8. \A j \in bdue' : DueOf(j)'
    BY <1>3, <1>4, <1>7 DEF DueOf, B!Processing
<1>9. w.job \notin Jobs /\ w.pc \in B!ResumeOnly /\ w.pc # "look"
    BY <1>1, <1>4, ActorFacts DEF B!ResumeOnly
<1> QED
    BY <1>1, <1>4, <1>5, <1>6, <1>8, <1>9, ResumeMove

\* What is known while resume_all is under way.
LEMMA UnderWay ==
    ASSUME B!BatchAssumption, JobsInv, Resuming
    PROVE  /\ bwork[B!Resume].job \in Jobs => ~Unborn(bwork[B!Resume].job)
           /\ bdue \subseteq Jobs /\ \A j \in bdue : ~Unborn(j) /\ DueOf(j)
BY ActorFacts DEF JobsInv, Types, JobTypes, Births, Dues, Resuming, Busy, B!Job

LEMMA ReadActiveStep ==
    ASSUME B!BatchAssumption, JobsInv, B!ReadActive
    PROVE  JobsInv'
<1>1. UNCHANGED <<bopen, bremote, berrors, brow, bsaved, bknown, bcreating, bentry, bask, bhanded, bskipped,
                  bdue, basks, bfaults, brestarts>>
      /\ bwork[B!Resume].pc = "active" /\ B!Go(B!Resume, "start") /\ btodo' = {j \in Jobs : B!Unfinished(brow[j].status)}
    BY DEF B!ReadActive, B!history
<1>2. PICK w \in WorkRecord : bwork' = [bwork EXCEPT ![B!Resume] = w] /\ w.pc = "start" /\ w.job = bwork[B!Resume].job /\ ~w.stop
                              /\ bwork'[B!Resume] = w
    BY <1>1, GoWith DEF PCs, B!ResumeOnly
<1>3. Resuming /\ bdue' = bdue
    BY <1>1 DEF Resuming
<1>4. btodo' \subseteq Jobs /\ \A j \in btodo' : ~Unborn(j)
    BY <1>1 DEF JobsInv, Births, B!Present, B!Unfinished
<1>5. \A b \in B!Tasks : bwork'[b] = bwork[b]
    BY <1>2, ActorFacts DEF JobsInv, Types, WorkTypes
<1>6. \A j \in Jobs : brow[j].status \in B!Statuses
    BY DEF JobsInv, Types, JobTypes, RowRecord
<1>7. ASSUME NEW j \in bdue' PROVE DueOf(j)'
  <2>1. j \in Jobs /\ \A b \in B!Tasks : b[1] = j => ~bwork[b].stop
      BY <1>3, <1>7, UnderWay DEF DueOf
  <2>2. B!Present(j) => j \in btodo' \/ JobFinished(brow[j].status)
      BY <1>1, <1>6, <2>1 DEF B!Present, B!Unfinished, JobFinished, B!Statuses
  <2> QED
      BY <1>1, <1>2, <1>5, <2>1, <2>2 DEF DueOf, Left, B!Present, B!Processing
<1>8. w.pc \in B!ResumeOnly /\ w.pc # "look" /\ (w.job \in Jobs => ~Unborn(w.job))
    BY <1>2, <1>3, UnderWay DEF B!ResumeOnly
<1> QED
    BY <1>1, <1>2, <1>3, <1>4, <1>7, <1>8, UnderWay, ResumeMove

LEMMA ReadCompletedStep ==
    ASSUME B!BatchAssumption, JobsInv, B!ReadCompleted
    PROVE  JobsInv'
<1>1. UNCHANGED <<bopen, bremote, berrors, brow, bsaved, bknown, bcreating, bentry, bask, bhanded, bskipped,
                  bdue, basks, bfaults, brestarts>>
      /\ bwork[B!Resume].pc = "completed" /\ B!Go(B!Resume, "next")
      /\ btodo' = {j \in Jobs : brow[j].status \in {"done", "failed"} /\ ~brow[j].processed}
    BY DEF B!ReadCompleted, B!history
<1>2. PICK w \in WorkRecord : bwork' = [bwork EXCEPT ![B!Resume] = w] /\ w.pc = "next" /\ w.job = bwork[B!Resume].job /\ ~w.stop
                              /\ bwork'[B!Resume] = w
    BY <1>1, GoWith DEF PCs, B!ResumeOnly
<1>3. Resuming /\ bdue' = bdue
    BY <1>1 DEF Resuming
<1>4. btodo' \subseteq Jobs /\ \A j \in btodo' : ~Unborn(j)
    BY <1>1 DEF JobsInv, Births, B!Present
<1>5. \A b \in B!Tasks : bwork'[b] = bwork[b]
    BY <1>2, ActorFacts DEF JobsInv, Types, WorkTypes
<1>7. ASSUME NEW j \in bdue' PROVE DueOf(j)'
  <2>1. j \in Jobs /\ DueOf(j)
      BY <1>3, <1>7, UnderWay
  <2>2. Left(j) => j \in btodo'
      BY <1>1, <2>1 DEF DueOf, Left, JobFinished
  <2>3. Left(j)' => Left(j)
      BY <1>1, <1>5 DEF Left, B!Present, B!Watched
  <2> QED
      BY <1>2, <1>5, <2>1, <2>2, <2>3 DEF DueOf
<1>8. w.pc \in B!ResumeOnly /\ w.pc # "look" /\ (w.job \in Jobs => ~Unborn(w.job))
    BY <1>2, <1>3, UnderWay DEF B!ResumeOnly
<1> QED
    BY <1>1, <1>2, <1>3, <1>4, <1>7, <1>8, UnderWay, ResumeMove

\* The oldest of the jobs that are left.
LEMMA Oldest ==
    ASSUME B!BatchAssumption, NEW T \in SUBSET Jobs, T # {}
    PROVE  (CHOOSE i \in T : \A k \in T : i <= k) \in T
<1>1. T \in SUBSET Nat
    BY ActorFacts
<1> DEFINE Before == {ij \in Nat \X Nat : ij[1] < ij[2]}
<1>2. \E x \in T : \A y \in T : <<y, x>> \notin Before
  <2>1. IsWellFoundedOn(Before, Nat)
      BY NatLessThanWellFounded DEF OpToRel
  <2>2. IsWellFoundedOn(Before, T)
      BY <1>1, <2>1, IsWellFoundedOnSubset
  <2> QED
      BY <2>2, WFMin
<1>3. PICK x \in T : \A y \in T : <<y, x>> \notin Before
    BY <1>2
<1>4. \A y \in T : x <= y
  <2> SUFFICES ASSUME NEW y \in T PROVE x <= y
      OBVIOUS
  <2>1. x \in Nat /\ y \in Nat /\ <<y, x>> \in Nat \X Nat
      BY <1>1
  <2>2. ~(y < x)
      BY <1>3, <2>1
  <2> QED
      BY <2>1, <2>2
<1> QED
    BY <1>4

LEMMA NextCompletedStep ==
    ASSUME B!BatchAssumption, JobsInv, B!NextCompleted
    PROVE  JobsInv'
<1>1. UNCHANGED <<bopen, bremote, berrors, brow, bsaved, bknown, bcreating, bentry, bask, bhanded, bskipped,
                  bdue, basks, bfaults, brestarts>>
      /\ bwork[B!Resume].pc = "next" /\ btodo # {}
    BY DEF B!NextCompleted, B!history
<1>2. PICK j \in btodo : /\ bwork' = [bwork EXCEPT ![B!Resume] = [B!Idle EXCEPT !.pc = "look", !.job = j]]
                         /\ btodo' = btodo \ {j}
  <2>1. (CHOOSE i \in btodo : \A k \in btodo : i <= k) \in btodo
      BY <1>1, Oldest DEF JobsInv, Types, JobTypes
  <2> QED
      BY <2>1 DEF B!NextCompleted
<1>3. j \in Jobs /\ ~Unborn(j) /\ btodo \subseteq Jobs /\ \A i \in btodo : ~Unborn(i)
    BY DEF JobsInv, Types, JobTypes, Births
<1> DEFINE w == [B!Idle EXCEPT !.pc = "look", !.job = j]
<1>4. w \in WorkRecord /\ w.pc = "look" /\ w.job = j /\ ~w.stop /\ w.got = {}
    BY <1>3 DEF B!Idle, WorkRecord, PCs, B!Processing, B!Statuses
<1>5. bwork' = [bwork EXCEPT ![B!Resume] = w]
    BY <1>2
<1> HIDE DEF w
<1>6. Resuming /\ bdue' = bdue
    BY <1>1 DEF Resuming
<1>7. bwork'[B!Resume] = w /\ \A b \in B!Tasks : bwork'[b] = bwork[b]
    BY <1>5, ActorFacts DEF JobsInv, Types, WorkTypes
<1>8. ASSUME NEW i \in bdue' PROVE DueOf(i)'
  <2>1. i \in Jobs /\ DueOf(i)
      BY <1>6, <1>8, UnderWay
  <2>2. Left(i)' => Left(i)
      BY <1>1, <1>7 DEF Left, B!Present, B!Watched
  <2>3. Left(i)' => i \in btodo' \/ i = j
      BY <1>1, <1>2, <2>1, <2>2 DEF DueOf, B!Processing
  <2> QED
      BY <1>4, <1>7, <2>1, <2>3 DEF DueOf, B!Processing, B!Job
<1>9. btodo' \subseteq Jobs /\ \A i \in btodo' : ~Unborn(i)
    BY <1>2, <1>3
<1> QED
    BY <1>1, <1>3, <1>4, <1>5, <1>6, <1>8, <1>9, UnderWay, ResumeMove

LEMMA ResumeReturnsStep ==
    ASSUME B!BatchAssumption, JobsInv, B!ResumeReturns
    PROVE  JobsInv'
<1>1. UNCHANGED <<bopen, bremote, berrors, brow, bsaved, bknown, bcreating, bentry, btodo, bask, bhanded,
                  bskipped, bdue, basks, bfaults, brestarts>>
      /\ bwork' = [bwork EXCEPT ![B!Resume] = B!Idle]
    BY DEF B!ResumeReturns, B!history
<1>2. bfaults' \in 0 .. MaxFaults /\ btodo' \subseteq btodo
    BY <1>1 DEF JobsInv, Types, JobTypes
<1> QED
    BY <1>1, <1>2, ResumeEnds

\* The task that a monitor gets is a free one of its job.
LEMMA FreshTasks ==
    ASSUME B!BatchAssumption, NEW js \in SUBSET Jobs, B!CanStart(js)
    PROVE  /\ DOMAIN B!NewTasks(js) = {j \in js : bentry[j] = B!NoTask}
           /\ \A j \in js : bentry[j] = B!NoTask => B!NewTasks(js)[j] \in B!FreeTasks(j)
<1>1. ASSUME NEW j \in js, bentry[j] = B!NoTask
      PROVE  (CHOOSE a \in B!FreeTasks(j) : \A b \in B!FreeTasks(j) : a[2] <= b[2]) \in B!FreeTasks(j)
  <2> DEFINE N == {a[2] : a \in B!FreeTasks(j)}
  <2> DEFINE Before == {mn \in Nat \X Nat : mn[1] < mn[2]}
  <2>1. N # {} /\ N \in SUBSET Nat
    <3>1. \A a \in B!FreeTasks(j) : a[2] \in Nat
        BY DEF B!FreeTasks, B!Tasks, B!BatchAssumption
    <3> QED
        BY <1>1, <3>1 DEF B!CanStart
  <2>2. \E n \in N : \A m \in N : <<m, n>> \notin Before
    <3>1. IsWellFoundedOn(Before, Nat)
        BY NatLessThanWellFounded DEF OpToRel
    <3>2. IsWellFoundedOn(Before, N)
        BY <2>1, <3>1, IsWellFoundedOnSubset
    <3> HIDE DEF N, Before
    <3> QED
        BY <2>1, <3>2, WFMin
  <2>3. PICK n \in N : \A m \in N : <<m, n>> \notin Before
      BY <2>2
  <2>4. \A m \in N : n <= m
    <3> SUFFICES ASSUME NEW m \in N PROVE n <= m
        OBVIOUS
    <3> HIDE DEF N
    <3>1. n \in Nat /\ m \in Nat /\ <<m, n>> \in Nat \X Nat
        BY <2>1
    <3>2. ~(m < n)
        BY <2>3, <3>1
    <3> QED
        BY <3>1, <3>2
  <2>5. PICK a \in B!FreeTasks(j) : a[2] = n
      OBVIOUS
  <2>6. \A b \in B!FreeTasks(j) : a[2] <= b[2]
      BY <2>4, <2>5
  <2> QED
      BY <2>6
<1>2. DOMAIN B!NewTasks(js) = {j \in js : bentry[j] = B!NoTask}
    BY DEF B!NewTasks
<1>3. ASSUME NEW j \in js, bentry[j] = B!NoTask PROVE B!NewTasks(js)[j] \in B!FreeTasks(j)
  <2>1. B!NewTasks(js)[j] = CHOOSE a \in B!FreeTasks(j) : \A b \in B!FreeTasks(j) : a[2] <= b[2]
      BY <1>3 DEF B!NewTasks
  <2> QED
      BY <1>1, <1>3, <2>1
<1> QED
    BY <1>2, <1>3

NewMonitor(a) == [B!Idle EXCEPT !.pc = "get", !.job = a[1]]
LEMMA NewMonitorFields ==
    ASSUME B!BatchAssumption, NEW a \in B!Tasks
    PROVE  /\ NewMonitor(a) \in WorkRecord
           /\ NewMonitor(a).pc = "get" /\ NewMonitor(a).job = a[1] /\ NewMonitor(a).got = {}
           /\ ~NewMonitor(a).stop
<1>1. a[1] \in Jobs
    BY ActorFacts
<1> QED
    BY <1>1 DEF NewMonitor, B!Idle, WorkRecord, PCs, B!MonitorOnly, B!Statuses

\* Monitors are started for the jobs js.
LEMMA StartedFacts ==
    ASSUME B!BatchAssumption, JobsInv, NEW js \in SUBSET Jobs, B!CanStart(js), B!Register(B!NewTasks(js)),
           \A a \in B!Tasks : bwork'[a] = B!Started(B!NewTasks(js))[a]
    PROVE  /\ \A a \in B!Tasks : \/ bwork'[a] = bwork[a]
                                 \/ bwork[a].pc = "none" /\ a[1] \in js /\ bwork'[a] = NewMonitor(a)
           /\ bentry' \in [Jobs -> B!Tasks \cup {B!NoTask}]
           /\ \A j \in Jobs : bentry'[j] # B!NoTask =>
                 bentry'[j] \in B!Tasks /\ bentry'[j][1] = j /\ bwork'[bentry'[j]].pc # "none" /\ ~bwork'[bentry'[j]].stop
           /\ \A j \in js : bentry'[j] # B!NoTask
<1> DEFINE T == B!NewTasks(js)
<1>1. /\ DOMAIN T = {j \in js : bentry[j] = B!NoTask}
      /\ \A j \in js : bentry[j] = B!NoTask => T[j] \in B!Tasks /\ T[j][1] = j /\ bwork[T[j]].pc = "none"
    BY FreshTasks DEF B!FreeTasks
<1> HIDE DEF T
<1>2. \A a \in B!Tasks : bwork'[a] = IF \E j \in DOMAIN T : T[j] = a THEN NewMonitor(a) ELSE bwork[a]
    BY ActorFacts DEF B!Started, NewMonitor, T
<1>3. \A a \in B!Tasks : \/ bwork'[a] = bwork[a]
                         \/ bwork[a].pc = "none" /\ a[1] \in js /\ bwork'[a] = NewMonitor(a)
    BY <1>1, <1>2
<1>4. bentry' = [j \in Jobs |-> IF j \in DOMAIN T THEN T[j] ELSE bentry[j]]
    BY DEF B!Register, T
<1>5. bentry \in [Jobs -> B!Tasks \cup {B!NoTask}] /\ Places
    BY DEF JobsInv, Types
<1>6. bentry' \in [Jobs -> B!Tasks \cup {B!NoTask}]
    BY <1>1, <1>4, <1>5
<1>7. B!NoTask \notin B!Tasks
    BY ActorFacts
<1>8. ASSUME NEW j \in Jobs, j \in DOMAIN T
      PROVE  bentry'[j] \in B!Tasks /\ bentry'[j][1] = j /\ bwork'[bentry'[j]].pc # "none" /\ ~bwork'[bentry'[j]].stop
  <2>1. bentry'[j] = T[j] /\ T[j] \in B!Tasks /\ T[j][1] = j
      BY <1>1, <1>4, <1>8
  <2>2. bwork'[T[j]] = NewMonitor(T[j])
      BY <1>2, <1>8, <2>1
  <2> QED
      BY <2>1, <2>2, NewMonitorFields
<1>9. ASSUME NEW j \in Jobs, j \notin DOMAIN T, bentry'[j] # B!NoTask
      PROVE  bentry'[j] \in B!Tasks /\ bentry'[j][1] = j /\ bwork'[bentry'[j]].pc # "none" /\ ~bwork'[bentry'[j]].stop
  <2>1. bentry'[j] = bentry[j] /\ bentry[j] # B!NoTask
      BY <1>4, <1>9
  <2>2. bentry[j] \in B!Tasks /\ bentry[j][1] = j /\ bwork[bentry[j]].pc # "none" /\ ~bwork[bentry[j]].stop
      BY <1>5, <2>1 DEF Places, Busy
  <2>3. bwork'[bentry[j]] = bwork[bentry[j]]
      BY <1>3, <2>2
  <2> QED
      BY <2>1, <2>2, <2>3
<1>10. \A j \in js : bentry'[j] # B!NoTask
    BY <1>1, <1>4, <1>7
<1> QED
    BY <1>3, <1>6, <1>8, <1>9, <1>10

LEMMA StartFrame ==
    ASSUME B!BatchAssumption, JobsInv, WorkTypes', NEW js \in SUBSET Jobs, \A j \in js : ~Unborn(j),
           B!CanStart(js), B!Register(B!NewTasks(js)),
           \A a \in B!Tasks : bwork'[a] = B!Started(B!NewTasks(js))[a],
           \/ bwork'[B!Resume] = bwork[B!Resume] /\ btodo' = btodo
           \/ /\ bwork[B!Resume].pc = "start" /\ bwork'[B!Resume].pc = "completed" /\ bwork'[B!Resume].job = bwork[B!Resume].job
              /\ ~bwork'[B!Resume].stop /\ js = btodo /\ btodo' = {},
           bcreating' \subseteq bcreating, \A p \in bcreating : p \in bcreating' \/ p[2] = TRUE,
           UNCHANGED <<bopen, bremote, berrors, brow, bsaved, bknown, bask, bhanded, bskipped, bdue, basks,
                       bfaults, brestarts>>
    PROVE  JobsInv'
<1>0. UNCHANGED <<bopen, bremote, brow, bask, bdue>>
    OBVIOUS
<1>1. Births /\ Places /\ Seen /\ Marks /\ JobTypes /\ Dues
    BY DEF JobsInv, Types
<1>2. /\ \A a \in B!Tasks : \/ bwork'[a] = bwork[a]
                            \/ bwork[a].pc = "none" /\ a[1] \in js /\ bwork'[a] = NewMonitor(a)
      /\ bentry' \in [Jobs -> B!Tasks \cup {B!NoTask}]
      /\ \A j \in Jobs : bentry'[j] # B!NoTask =>
            bentry'[j] \in B!Tasks /\ bentry'[j][1] = j /\ bwork'[bentry'[j]].pc # "none" /\ ~bwork'[bentry'[j]].stop
      /\ \A j \in js : bentry'[j] # B!NoTask
    BY StartedFacts
<1>3. \A a \in B!Tasks : \/ bwork'[a] = bwork[a]
                         \/ /\ bwork[a].pc = "none" /\ a[1] \in js /\ bwork'[a].pc = "get" /\ bwork'[a].job = a[1]
                            /\ bwork'[a].got = {} /\ ~bwork'[a].stop
    BY <1>2, NewMonitorFields
<1>4. \A j \in Jobs : (B!Watched(j) => B!Watched(j)') /\ (j \in js => B!Watched(j)')
  <2> SUFFICES ASSUME NEW j \in Jobs PROVE (B!Watched(j) => B!Watched(j)') /\ (j \in js => B!Watched(j)')
      OBVIOUS
  <2>1. B!Watched(j) => B!Watched(j)'
      BY <1>3 DEF B!Watched
  <2>2. j \in js => B!Watched(j)'
      BY <1>2 DEF B!Watched
  <2> QED
      BY <2>1, <2>2
<1>5. \A j \in Jobs : /\ (Unborn(j)' <=> Unborn(j)) /\ (Late(j)' <=> Late(j))
                      /\ (Left(j)' => Left(j) /\ j \notin js)
    BY <1>0, <1>4 DEF Unborn, Left, B!Present, Late
<1>r. bwork'[B!Resume].job = bwork[B!Resume].job /\ (Busy(B!Resume)' <=> Busy(B!Resume))
    BY DEF Busy
<1>6. Births'
  <2>1. \A j \in Jobs : Unborn(j)' => ~B!Present(j)' /\ j \notin btodo' /\ \A b \in B!Actors : Busy(b)' => B!Job(b)' # j
    <3> SUFFICES ASSUME NEW j \in Jobs, Unborn(j) PROVE ~B!Present(j)' /\ j \notin btodo' /\ \A b \in B!Actors : Busy(b)' => B!Job(b)' # j
        BY <1>5
    <3>1. ~B!Present(j)' /\ j \notin btodo' /\ j \notin js
        BY <1>0, <1>1 DEF Births, B!Present
    <3>2. \A b \in B!Tasks : Busy(b)' => B!Job(b)' # j
        BY <1>1, <1>3, <3>1, ActorFacts DEF Births, Busy, B!Job
    <3>3. Busy(B!Resume)' => B!Job(B!Resume)' # j
        BY <1>1, <1>r, ActorFacts DEF Births, B!Job
    <3> QED
        BY <3>1, <3>2, <3>3, ActorFacts
  <2>2. \A j \in bdue' : ~Unborn(j)'
      BY <1>0, <1>1, <1>5 DEF Births, JobTypes
  <2>3. (bask.pc # "none" => ~Unborn(bask.job))'
      BY <1>0, <1>1 DEF Births, Unborn
  <2> QED
      BY <1>0, <1>1, <2>1, <2>2, <2>3 DEF Births
<1>7. Places'
  <2>1. \A b \in B!Tasks : Busy(b)' => bwork'[b].job = b[1] /\ bwork'[b].pc \in B!Processing \cup B!MonitorOnly
      BY <1>1, <1>3 DEF Places, Busy, B!Job, B!MonitorOnly
  <2>2. /\ bwork'[B!Resume].pc \in {"none"} \cup B!Processing \cup B!ResumeOnly /\ ~bwork'[B!Resume].stop
        /\ bwork'[B!Resume].pc \in B!Processing => bwork'[B!Resume].job \in Jobs
      BY <1>1 DEF Places, B!Job, B!Processing, B!ResumeOnly
  <2>3. \A b \in B!Actors : (bwork'[b].stop => Busy(b)') /\ (~Busy(b)' => bwork'[b].job = 0)
    <3>1. \A b \in B!Tasks : (bwork'[b].stop => Busy(b)') /\ (~Busy(b)' => bwork'[b].job = 0)
        BY <1>1, <1>3, ActorFacts DEF Places, Busy, B!Job
    <3>2. (bwork'[B!Resume].stop => Busy(B!Resume)') /\ (~Busy(B!Resume)' => bwork'[B!Resume].job = 0)
        BY <1>1, <1>r, <2>2, ActorFacts DEF Places, B!Job
    <3> QED
        BY <3>1, <3>2, ActorFacts
  <2>5. \A b \in B!Tasks : bwork'[b].pc = "update" => bwork'[b].seen # "none"
      BY <1>1, <1>3 DEF Places
  <2>6. (bask'.pc # "none" => bask'.job \in Jobs) /\ (bask'.pc = "update" => bask'.seen # "none")
      BY <1>0, <1>1 DEF Places
  <2> QED
      BY <1>2, <2>1, <2>2, <2>3, <2>5, <2>6 DEF Places, Busy, B!Job
<1>8. Seen'
  <2>1. \A j \in Jobs : JobFinished(brow'[j].status) => JobFinished(bremote'[j])
      BY <1>0, <1>1 DEF Seen
  <2>2. \A b \in B!Tasks : bwork'[b].pc = "update" /\ JobFinished(bwork'[b].seen) => JobFinished(bremote'[b[1]])
      BY <1>0, <1>1, <1>3 DEF Seen
  <2>3. bask'.pc = "update" /\ JobFinished(bask'.seen) => JobFinished(bremote'[bask'.job])
      BY <1>0, <1>1 DEF Seen
  <2>4. bopen' => \A b \in B!Tasks : bwork'[b].stop /\ bwork'[b].pc = "update" /\ JobFinished(bwork'[b].seen) => ~Late(b[1])'
      BY <1>0, <1>1, <1>3, <1>5, ActorFacts DEF Seen
  <2>5. \A j \in Jobs : (bopen' \/ (Resuming' /\ j \in bdue')) /\ JobFinished(brow'[j].status) /\ Left(j)' => ~Late(j)'
      BY <1>0, <1>1, <1>5, <1>r DEF Seen, Resuming, Busy
  <2> QED
      BY <2>1, <2>2, <2>3, <2>4, <2>5 DEF Seen, JobFinished
<1>9. Dues'
  <2> SUFFICES ASSUME Resuming', NEW j \in bdue' PROVE DueOf(j)'
      BY DEF Dues
  <2>1. DueOf(j) /\ j \in Jobs
      BY <1>0, <1>1, <1>r DEF Dues, Resuming, Busy, JobTypes
  <2>2. \A b \in B!Tasks : b[1] = j => ~bwork'[b].stop
      BY <1>3, <2>1 DEF DueOf
  <2>3. CASE bwork'[B!Resume] = bwork[B!Resume] /\ btodo' = btodo
      BY <1>0, <1>5, <2>1, <2>2, <2>3 DEF DueOf, B!Job
  <2>4. CASE bwork[B!Resume].pc = "start" /\ bwork'[B!Resume].pc = "completed" /\ js = btodo
    <3>1. Left(j)' => JobFinished(brow'[j].status)
        BY <1>0, <1>5, <2>1, <2>4 DEF DueOf
    <3> QED
        BY <2>2, <2>4, <3>1 DEF DueOf, B!Processing
  <2> QED
      BY <2>3, <2>4
<1>10. Grows /\ Unmarked
    BY DEF Grows, Unmarked
<1>11. Marks'
  <2> SUFFICES ASSUME NEW b \in B!Actors PROVE HandedOut(b)'
      BY DEF Marks
  <2>1. CASE bwork'[b] = bwork[b]
      BY <1>1, <1>10, <2>1, MarksFrame DEF Marks
  <2>2. CASE b \in B!Tasks /\ bwork'[b] # bwork[b]
      BY <1>3, <2>2 DEF HandedOut
  <2>3. CASE b = B!Resume /\ bwork'[b].pc = "completed"
      BY <2>3 DEF HandedOut, B!Processing, B!MonitorOnly
  <2> QED
      BY <2>1, <2>2, <2>3, ActorFacts
<1>12. JobTypes'
    BY <1>1 DEF JobTypes
<1>13. B!NothingMarkedUnhandled'
    BY <1>10, UnmarkedFrame DEF JobsInv, B!BatchAssumption, Grows
<1> QED
    BY <1>0, <1>2, <1>6, <1>7, <1>8, <1>9, <1>11, <1>12, <1>13 DEF JobsInv, Types

\* Nothing but free tasks of monitors changes.
LEMMA StartedTypes ==
    ASSUME B!BatchAssumption, JobsInv, NEW js \in SUBSET Jobs, B!CanStart(js)
    PROVE  B!Started(B!NewTasks(js)) \in [B!Actors -> WorkRecord] /\ B!Started(B!NewTasks(js))[B!Resume] = bwork[B!Resume]
<1>1. ASSUME NEW j \in DOMAIN B!NewTasks(js) PROVE B!NewTasks(js)[j] \in B!Tasks
  <2>1. j \in js /\ bentry[j] = B!NoTask
      BY FreshTasks
  <2>2. B!NewTasks(js)[j] \in B!FreeTasks(j)
      BY <2>1, FreshTasks
  <2> QED
      BY <2>2 DEF B!FreeTasks
<1>2. bwork \in [B!Actors -> WorkRecord]
    BY DEF JobsInv, Types, WorkTypes
<1>3. ASSUME NEW a \in B!Actors, \E j \in DOMAIN B!NewTasks(js) : B!NewTasks(js)[j] = a
      PROVE  a \in B!Tasks /\ [B!Idle EXCEPT !.pc = "get", !.job = a[1]] \in WorkRecord
    BY <1>1, <1>3, NewMonitorFields DEF NewMonitor
<1>4. B!Started(B!NewTasks(js)) \in [B!Actors -> WorkRecord]
    BY <1>2, <1>3 DEF B!Started
<1>5. B!Started(B!NewTasks(js))[B!Resume] = bwork[B!Resume]
    BY <1>3, ActorFacts DEF B!Started
<1> QED
    BY <1>4, <1>5

LEMMA CreatedStep ==
    ASSUME B!BatchAssumption, JobsInv, NEW j \in Jobs, B!Created(j)
    PROVE  JobsInv'
<1>1. UNCHANGED <<bopen, bremote, berrors, brow, bsaved, bknown, btodo, bask, bhanded, bskipped, bdue, basks,
                  bfaults, brestarts>>
      /\ <<j, TRUE>> \in bcreating /\ bcreating' = {}
    BY DEF B!Created, B!history
<1>2. Births
    BY DEF JobsInv
<1>3. bcreating = {<<j, TRUE>>} /\ ~Unborn(j)
  <2>1. bcreating = {<<j, TRUE>>} /\ bremote[j] # "none"
      BY <1>1, <1>2 DEF Births
  <2> QED
      BY <2>1 DEF Unborn
<1>4. PICK js \in {{}, {j}} : B!CanStart(js) /\ B!Register(B!NewTasks(js)) /\ bwork' = B!Started(B!NewTasks(js))
    BY DEF B!Created
<1>5. js \in SUBSET Jobs /\ \A i \in js : ~Unborn(i)
    BY <1>3
<1>6. WorkTypes' /\ bwork'[B!Resume] = bwork[B!Resume] /\ \A a \in B!Tasks : bwork'[a] = B!Started(B!NewTasks(js))[a]
    BY <1>4, <1>5, StartedTypes DEF WorkTypes
<1>7. bcreating' \subseteq bcreating /\ \A p \in bcreating : p \in bcreating' \/ p[2] = TRUE
    BY <1>1, <1>3
<1> QED
    BY <1>1, <1>4, <1>5, <1>6, <1>7, StartFrame

LEMMA StartMonitorsStep ==
    ASSUME B!BatchAssumption, JobsInv, B!StartMonitors
    PROVE  JobsInv'
<1>1. /\ UNCHANGED <<bopen, bremote, berrors, brow, bsaved, bknown, bcreating, bask, bhanded, bskipped,
                     bdue, basks, bfaults, brestarts>>
      /\ bwork[B!Resume].pc = "start" /\ B!CanStart(btodo) /\ btodo' = {} /\ B!Register(B!NewTasks(btodo))
    BY DEF B!StartMonitors, B!history
<1>2. btodo \in SUBSET Jobs /\ \A i \in btodo : ~Unborn(i)
    BY DEF JobsInv, Births, Types, JobTypes
<1>3. PICK f \in [B!Actors -> WorkRecord] : f = B!Started(B!NewTasks(btodo)) /\ f[B!Resume] = bwork[B!Resume]
    BY <1>1, <1>2, StartedTypes
<1>4. bwork' = [f EXCEPT ![B!Resume].pc = "completed"]
    BY <1>3 DEF B!StartMonitors
<1>5. [f[B!Resume] EXCEPT !.pc = "completed"] \in WorkRecord /\ f[B!Resume] \in WorkRecord
    BY <1>3, ActorFacts DEF WorkRecord, PCs, B!ResumeOnly
<1>6. /\ WorkTypes' /\ bwork'[B!Resume] = [f[B!Resume] EXCEPT !.pc = "completed"]
      /\ \A a \in B!Tasks : bwork'[a] = f[a]
    BY <1>4, <1>5, ActorFacts DEF WorkTypes
<1>7. /\ bwork'[B!Resume].pc = "completed" /\ bwork'[B!Resume].job = bwork[B!Resume].job
      /\ bwork'[B!Resume].stop = bwork[B!Resume].stop /\ ~bwork[B!Resume].stop
    BY <1>3, <1>5, <1>6 DEF WorkRecord, JobsInv, Places
<1>8. \A a \in B!Tasks : bwork'[a] = B!Started(B!NewTasks(btodo))[a]
    BY <1>3, <1>6
<1>9. WorkTypes' /\ \A p \in bcreating : p \in bcreating'
    BY <1>1, <1>6
<1> QED
    BY <1>1, <1>2, <1>7, <1>8, <1>9, StartFrame

LEMMA InitIInv ==
    ASSUME B!BatchAssumption, B!Init
    PROVE  JobsInv
<1>1. Named \subseteq Jobs /\ 0 \in 0 .. MaxAsks /\ 0 \in 0 .. MaxFaults /\ 0 \in 0 .. MaxRestarts
    BY DEF B!BatchAssumption
<1>2. [status |-> "none", processed |-> FALSE] \in RowRecord /\ B!Idle \in WorkRecord /\ B!NoAsk \in AskRecord
    BY DEF RowRecord, B!Idle, B!NoAsk, WorkRecord, AskRecord, PCs, B!Statuses
<1>3. Types
    BY <1>1, <1>2 DEF B!Init, Types, JobTypes, WorkTypes, B!Statuses
<1>4. \A b \in B!Actors : ~Busy(b) /\ bwork[b].pc = "none" /\ bwork[b].job = 0 /\ ~bwork[b].stop
    BY DEF B!Init, B!Idle, Busy
<1>5. bask.pc = "none" /\ \A j \in Jobs : brow[j].status = "none" /\ ~brow[j].processed
    BY DEF B!Init, B!NoAsk
<1>6. Births
    BY <1>4, <1>5 DEF Births, B!Init, B!Present
<1>7. Places
  <2>1. \A j \in Jobs : bentry[j] = B!NoTask
      BY DEF B!Init
  <2>2. B!Resume \in B!Actors /\ B!Tasks \subseteq B!Actors
      BY ActorFacts
  <2>3. \A a \in B!Actors : (bwork[a].stop => Busy(a)) /\ (~Busy(a) => B!Job(a) = 0)
      BY <1>4 DEF B!Job
  <2>4. bwork[B!Resume].pc = "none" /\ ~bwork[B!Resume].stop /\ bwork[B!Resume].pc \notin B!Processing
      BY <1>4, <2>2 DEF B!Processing
  <2>5. \A a \in B!Tasks : ~Busy(a) /\ bwork[a].pc = "none"
      BY <1>4, <2>2
  <2> QED
      BY <1>5, <2>1, <2>3, <2>4, <2>5 DEF Places
<1>8. Seen
    BY <1>4, <1>5, ActorFacts DEF Seen, JobFinished
<1>9. Dues
    BY <1>4, ActorFacts DEF Dues, Resuming
<1>10. Marks
    BY <1>4 DEF Marks, HandedOut, B!Processing, B!MonitorOnly
<1>11. B!NothingMarkedUnhandled
    BY <1>1, <1>5 DEF B!NothingMarkedUnhandled
<1> QED
    BY <1>3, <1>6, <1>7, <1>8, <1>9, <1>10, <1>11 DEF JobsInv

LEMMA StutterIInv ==
    ASSUME JobsInv, UNCHANGED B!vars
    PROVE  JobsInv'
<1>1. UNCHANGED <<bremote, berrors, brow, bsaved, bknown, bcreating, bentry, bwork, btodo, bask,
                  bhanded, bskipped, bdue, bopen, basks, bfaults, brestarts>>
    BY DEF B!vars
<1>2. Types' /\ Births' /\ Places'
    BY <1>1 DEF JobsInv, Types, JobTypes, WorkTypes, Births, Unborn, B!Present, Busy, B!Job, Places
<1>3. Seen' /\ Dues'
    BY <1>1 DEF JobsInv, Seen, Dues, DueOf, Resuming, Late, Left, B!Watched, B!Present, B!Job, JobFinished
<1>4. Marks' /\ B!NothingMarkedUnhandled'
    BY <1>1 DEF JobsInv, Marks, HandedOut, OnRecord, B!Stream, B!Present, B!Job, B!NothingMarkedUnhandled
<1> QED
    BY <1>2, <1>3, <1>4 DEF JobsInv

\* resume_all returns: what it was called for is processed or watched.
LEMMA ReturnMisses ==
    ASSUME B!BatchAssumption, JobsInv, B!ResumeReturns
    PROVE  B!ResumeMissesNone
<1>1. UNCHANGED <<brow, bdue>> /\ bwork[B!Resume].pc = "next" /\ btodo = {} /\ bwork' = [bwork EXCEPT ![B!Resume] = B!Idle]
    BY DEF B!ResumeReturns, B!history
<1>2. \A j \in bdue : DueOf(j)
    BY <1>1 DEF JobsInv, Dues, Resuming
<1>3. \A j \in bdue : ~Left(j)
    BY <1>1, <1>2 DEF DueOf, B!Processing
<1> QED
    BY <1>3 DEF B!ResumeMissesNone, Left

LEMMA ActorStepIInv ==
    ASSUME B!BatchAssumption, JobsInv, NEW a \in B!Actors, B!ActorStep(a) \/ B!Fault(a)
    PROVE  JobsInv'
BY PollStep, UpdateStep, WakeStep, LookStep, CheckStep, FetchStep, FetchEndsStep, CallStep,
   MarkStep, LeaveStep, UnwindStep, FaultStep DEF B!ActorStep

LEMMA NextIInv ==
    ASSUME B!BatchAssumption, JobsInv, B!Next
    PROVE  JobsInv'
<1>1. CASE \E a \in B!Actors : B!ActorStep(a) \/ B!Fault(a)
    BY <1>1, ActorStepIInv
<1>2. CASE \E j \in Jobs : B!ProviderEnds(j) \/ B!Submit(j) \/ B!SaveBatch(j) \/ B!Created(j) \/ B!Cleanup(j)
    BY <1>2, ProviderEndsStep, SubmitStep, SaveBatchStep, CreatedStep, CleanupStep
<1>3. CASE \E j \in Jobs, cancel \in BOOLEAN : B!AskFor(j, cancel)
    BY <1>3, AskForStep
<1>4. CASE B!AskStep \/ B!AskFails
    BY <1>4, AskProviderStep, AskUpdateStep, AskDropStep, AskFailsStep DEF B!AskStep
<1>5. CASE B!BeginResume \/ B!ResumeStep
    BY <1>5, BeginResumeStep, ReadActiveStep, StartMonitorsStep, ReadCompletedStep, NextCompletedStep,
       ResumeReturnsStep DEF B!ResumeStep
<1>6. CASE B!Close \/ B!Crash \/ B!AddCallbacks
    BY <1>6, CloseStep, CrashStep, AddCallbacksStep
<1> QED
    BY <1>1, <1>2, <1>3, <1>4, <1>5, <1>6 DEF B!Next

(* The inductive invariant holds throughout. *)
THEOREM JobsInvariance == ASSUME B!BatchAssumption PROVE B!Spec => []JobsInv
<1>1. B!Init => JobsInv
    BY InitIInv
<1>2. JobsInv /\ [B!Next]_(B!vars) => JobsInv'
    BY NextIInv, StutterIInv
<1> QED
    BY <1>1, <1>2, PTL DEF B!Spec

\* No other step ends resume_all in the place from which it returns.
LEMMA ActorAlone ==
    ASSUME WorkTypes, NEW a \in B!Actors, NEW b \in B!Actors, b # a, B!ActorStep(a) \/ B!Fault(a)
    PROVE  bwork'[b] = bwork[b]
<1>1. CASE B!Poll(a) \/ B!Update(a) \/ B!Wake(a) \/ B!Look(a)
    BY <1>1 DEF WorkTypes, B!Poll, B!Update, B!Wake, B!Look, B!Go
<1>2. CASE B!Check(a) \/ B!Fault(a)
    BY <1>2 DEF WorkTypes, B!Check, B!Fault, B!Fail, B!Go
<1>3. CASE B!Fetch(a) \/ B!FetchEnds(a) \/ B!Call(a)
    BY <1>3 DEF WorkTypes, B!Fetch, B!FetchEnds, B!Call, B!Go
<1>4. CASE B!Mark(a) \/ B!Leave(a) \/ B!Unwind(a)
    BY <1>4 DEF WorkTypes, B!Mark, B!Leave, B!Unwind, B!Go
<1> QED
    BY <1>1, <1>2, <1>3, <1>4 DEF B!ActorStep

LEMMA ReturnIsIt ==
    ASSUME B!BatchAssumption, JobsInv, B!Next, bwork[B!Resume].pc = "next", bwork'[B!Resume].pc = "none", brestarts' = brestarts
    PROVE  B!ResumeReturns
<1>1. B!Resume \in B!Actors /\ B!Resume \notin B!Tasks /\ WorkTypes /\ ~bwork[B!Resume].stop
    BY ActorFacts DEF JobsInv, Types, Places
<1>2. bwork'[B!Resume] # bwork[B!Resume]
    OBVIOUS
<1>3. ASSUME NEW a \in B!Actors, B!ActorStep(a) \/ B!Fault(a) PROVE FALSE
  <2>1. a = B!Resume
      BY <1>1, <1>2, <1>3, ActorAlone
  <2>2. ~B!Fault(B!Resume)
      BY DEF B!Fault, B!Processing
  <2>3. ~B!Poll(B!Resume) /\ ~B!Update(B!Resume) /\ ~B!Wake(B!Resume) /\ ~B!Look(B!Resume) /\ ~B!Check(B!Resume)
      BY DEF B!Poll, B!Update, B!Wake, B!Look, B!Check, B!At
  <2>4. ~B!Fetch(B!Resume) /\ ~B!FetchEnds(B!Resume) /\ ~B!Call(B!Resume) /\ ~B!Mark(B!Resume) /\ ~B!Leave(B!Resume) /\ ~B!Unwind(B!Resume)
      BY <1>1 DEF B!Fetch, B!FetchEnds, B!Call, B!Mark, B!Leave, B!Unwind, B!At
  <2> QED
      BY <1>3, <2>1, <2>2, <2>3, <2>4 DEF B!ActorStep
<1>4. ASSUME NEW j \in Jobs PROVE ~B!ProviderEnds(j) /\ ~B!Submit(j) /\ ~B!SaveBatch(j) /\ ~B!Cleanup(j)
    BY <1>2 DEF B!ProviderEnds, B!Submit, B!SaveBatch, B!Cleanup
<1>5. ASSUME NEW j \in Jobs, B!Created(j) PROVE FALSE
  <2>1. PICK js \in {{}, {j}} : B!CanStart(js) /\ bwork' = B!Started(B!NewTasks(js))
      BY <1>5 DEF B!Created
  <2>2. js \in SUBSET Jobs
      OBVIOUS
  <2> QED
      BY <1>2, <2>1, <2>2, StartedTypes
<1>6. ~B!AskProvider /\ ~B!AskUpdate /\ ~B!AskFails /\ \A j \in Jobs, cancel \in BOOLEAN : ~B!AskFor(j, cancel)
    BY <1>2 DEF B!AskProvider, B!AskUpdate, B!AskFails, B!AskFor
<1>7. \A j \in Jobs : bentry[j] # B!Resume
    BY <1>1, ActorFacts DEF JobsInv, Types, B!Resume, B!NoTask
<1>8. ~B!AskDrop
  <2> SUFFICES ASSUME B!AskDrop PROVE FALSE
      OBVIOUS
  <2>1. PICK j \in Jobs : bask.job = j
      BY DEF B!AskDrop, JobsInv, Places
  <2>2. bwork' = bwork \/ bwork' = [bwork EXCEPT ![bentry[j]].stop = TRUE]
      BY <2>1 DEF B!AskDrop
  <2> QED
      BY <1>1, <1>2, <1>7, <2>1, <2>2 DEF WorkTypes
<1>9. ~B!Close
    BY <1>1, <1>2, <1>7 DEF B!Close
<1>10. ~B!BeginResume /\ ~B!ReadActive /\ ~B!StartMonitors /\ ~B!ReadCompleted
    BY DEF B!BeginResume, B!ReadActive, B!StartMonitors, B!ReadCompleted
<1>11. ~B!NextCompleted
    BY <1>1 DEF B!NextCompleted, WorkTypes, B!Idle
<1>12. ~B!Crash
    BY DEF B!Crash, JobsInv, Types, JobTypes, B!BatchAssumption
<1>13. ~B!AddCallbacks
    BY <1>2 DEF B!AddCallbacks
<1> QED
    BY <1>3, <1>4, <1>5, <1>6, <1>8, <1>9, <1>10, <1>11, <1>12, <1>13 DEF B!Next, B!AskStep, B!ResumeStep

LEMMA LostStep ==
    ASSUME B!BatchAssumption, JobsInv, JobsInv', [B!Next]_(B!vars)
    PROVE  [B!NothingMarkedUnhandled' /\ B!ResumeMissesNone]_(B!vars)
<1>1. B!NothingMarkedUnhandled'
    BY DEF JobsInv
<1>2. ASSUME B!Next PROVE B!ResumeMissesNone
  <2>1. CASE bwork[B!Resume].pc = "next" /\ bwork'[B!Resume].pc = "none" /\ brestarts' = brestarts
      BY <1>2, <2>1, ReturnIsIt, ReturnMisses
  <2> QED
      BY <2>1 DEF B!ResumeMissesNone
<1> QED
    BY <1>1, <1>2

(* Every variable keeps its type. *)
THEOREM JobsTyped == ASSUME B!BatchAssumption PROVE B!Spec => []B!TypeOK
<1>1. JobsInv => B!TypeOK
    BY DEF JobsInv, Types, JobTypes, WorkTypes, B!TypeOK, RowRecord, WorkRecord, AskRecord, PCs
<1> QED
    BY <1>1, JobsInvariance, PTL

(* No job is lost, whatever fails, is cancelled, stopped or dies, and       *)
(* however its status changes between the two queries of resume_all: its    *)
(* row is marked only when its results are on record and its callback has   *)
(* returned with them, and when resume_all returns, what it was called for  *)
(* is processed or watched.                                                 *)
THEOREM JobsAreKept == ASSUME B!BatchAssumption PROVE B!Spec => JobsAreNotLost
<1>1. B!Init => JobsInv
    BY InitIInv
<1>2. JobsInv /\ [B!Next]_(B!vars) => JobsInv'
    BY NextIInv, StutterIInv
<1>3. JobsInv /\ JobsInv' /\ [B!Next]_(B!vars) => [B!NothingMarkedUnhandled' /\ B!ResumeMissesNone]_(B!vars)
    BY LostStep
<1> QED
    BY <1>1, <1>2, <1>3, PTL DEF B!Spec, JobsAreNotLost, B!JobsAreNotLost

-----------------------------------------------------------------------------
(* The two of them, of which one rests while the other one runs *)

LEMMA EachByItself == ListenerSpec => Spec /\ B!Spec
<1>1. ListenerInit => Init /\ B!Init
    BY DEF ListenerInit
<1>2. [ListenerNext]_<<which, vars, batch>> => [Next]_vars /\ [B!Next]_(B!vars)
    BY DEF ListenerNext, batch, B!vars
<1> QED
    BY <1>1, <1>2, PTL DEF ListenerSpec, Spec, B!Spec

(* What is promised of the rows holds where the batch jobs rest or run.     *)
THEOREM AccountedAmongBoth == ListenerSpec => [](RowsAreAccounted /\ AckedIsDurable)
BY EachByItself, Accounted, Durable, PTL

(* And no job is lost where the listener rests or runs.                     *)
THEOREM JobsAreKeptAmongBoth == ListenerSpec => JobsAreNotLost
BY EachByItself, JobsAreKept, JobsAssumption, PTL
==============================================================================
