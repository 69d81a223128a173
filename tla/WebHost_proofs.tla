--------------------------- MODULE WebHost_proofs ---------------------------
(* Accepted messages are accounted for, for any rows, roots and numbers of *)
(* runs and events: no bound of the runs of TLC is used.                   *)
EXTENDS WebHost, FiniteSetTheorems, TLAPS

\* Where a row may be held; that of its own root is meant.
WorkerHas(m) == worker.row = m
TaskHas(m) == task[RootOf[m]].row = m
PullHas(m) == pull[RootOf[m]].row = m
RunHas(m) == m \in claimed[RootOf[m]]

\* A row is running exactly while somebody holds it, and nobody else does.
Accounted(m) ==
    /\ status[m] = "running" <=> WorkerHas(m) \/ TaskHas(m) \/ PullHas(m) \/ RunHas(m)
    /\ WorkerHas(m) => ~TaskHas(m) /\ ~PullHas(m) /\ ~RunHas(m)
    /\ TaskHas(m) => ~PullHas(m) /\ ~RunHas(m)
    /\ PullHas(m) => ~RunHas(m)

\* How far whoever holds a row has got tells whether a model was given it.
Read(m) ==
    /\ read[m] \in {0, 1}
    /\ status[m] \in {"absent", "queued"} \/ WorkerHas(m) \/ PullHas(m) => read[m] = 0
    /\ status[m] = "completed" /\ KindOf[m] \in {"input", "skill"} => read[m] = 1

TaskRead(m) ==
    TaskHas(m) =>
        LET t == task[RootOf[m]]
            u == run[RootOf[m]]
        IN  /\ t.stage \in {"created", "validating"} => read[m] = 0
            /\ t.stage = "joining" /\ u.stage = "launched" => read[m] = 0
            /\ t.stage = "joining" /\ u.stage # "launched" /\ KindOf[m] # "compact" => read[m] = 1
            /\ t.stage = "finishing" /\ t.status = "queued" => read[m] = 0
            /\ t.stage = "finishing" /\ t.status = "completed" /\ KindOf[m] \in {"input", "skill"} => read[m] = 1

RunRead(m) ==
    RunHas(m) =>
        /\ pending[RootOf[m]] = m => read[m] = 0
        /\ pending[RootOf[m]] # m /\ run[RootOf[m]].outcome = "completed" => read[m] = 1

\* A root's task and its run are about the same row, and agree on how far it is.
Lane(r) ==
    /\ run[r].kind = "none" => run[r] = NoRun
    /\ run[r].kind # "none" => run[r].stage # "none"
    /\ run[r].kind = "inbox" => run[r].row = task[r].row /\ task[r].stage # "none"
    /\ run[r].kind \in {"wake", "task"} => run[r].row = NoRow /\ task[r].stage = "none"
    /\ run[r].cancel => run[r].outcome = "cancelled"
    /\ task[r].stage = "none" <=> task[r].row = NoRow
    /\ task[r].row # NoRow => RootOf[task[r].row] = r
    /\ task[r].stage \in {"created", "validating"} => run[r].kind = "inbox" /\ run[r].stage = "reserved"
    /\ task[r].stage = "joining" => run[r].kind = "inbox" /\ run[r].stage \in {"launched", "producing", "draining"}
    /\ task[r].stage = "finishing" /\ run[r].kind = "inbox" => run[r].stage = "reserved"

\* What a run has pulled is of its root, and only a run that takes turns pulls.
Pulls(r) ==
    /\ pull[r].at = "holding" <=> pull[r].row # NoRow
    /\ pull[r].row # NoRow => RootOf[pull[r].row] = r
    /\ pull[r].at # "off" => Turning(r) /\ pending[r] = NoRow
    /\ pending[r] # NoRow => pending[r] \in claimed[r] /\ Turning(r)
    /\ \A m \in claimed[r] : RootOf[m] = r
    /\ claimed[r] # {} => run[r].stage \in {"producing", "draining"} /\ ~Compacts(r)

\* The worker admits to no root that has a task, and no run outlives the stop.
Host ==
    /\ worker.at = "holding" <=> worker.row # NoRow
    /\ worker.at \in {"claiming", "holding"} => Tasked \subseteq worker.excluded
    /\ worker.at = "holding" => RootOf[worker.row] \notin worker.excluded
    /\ closing \in {"joining", "closed"} => Runs = {}

\* The inductive invariant.
IInv ==
    /\ TypeOK /\ Host
    /\ \A r \in Roots : Lane(r) /\ Pulls(r)
    /\ \A m \in Rows : Accounted(m) /\ Read(m) /\ TaskRead(m) /\ RunRead(m)
-----------------------------------------------------------------------------

Status == {"absent", "queued", "running", "completed", "failed", "interrupted"}
WorkerType == [at : {"idle", "claiming", "holding", "stopped"}, row : Rows \cup {NoRow}, excluded : SUBSET Roots]
TaskType == [stage : {"none", "created", "validating", "joining", "finishing"}, row : Rows \cup {NoRow},
             status : {"queued", "completed", "failed", "interrupted"}]
RunType == [kind : {"none", "inbox", "wake", "task"}, row : Rows \cup {NoRow},
            stage : {"none", "reserved", "launched", "producing", "draining"},
            outcome : {"completed", "failed", "cancelled"}, cancel : BOOLEAN]
PullType == [at : {"off", "claiming", "holding", "empty"}, row : Rows \cup {NoRow}]

\* Nothing of a root changes, nothing of a row but what its root says of it.
SameRoot(r) ==
    /\ task'[r] = task[r] /\ run'[r] = run[r] /\ pull'[r] = pull[r]
    /\ claimed'[r] = claimed[r] /\ pending'[r] = pending[r]
SameRow(m) == status'[m] = status[m] /\ read'[m] = read[m] /\ (worker'.row = m <=> worker.row = m)

LEMMA Types == ASSUME IInv PROVE
    /\ status \in [Rows -> Status] /\ worker \in WorkerType
    /\ task \in [Roots -> TaskType] /\ run \in [Roots -> RunType] /\ pull \in [Roots -> PullType]
    /\ claimed \in [Roots -> SUBSET Rows] /\ pending \in [Roots -> Rows \cup {NoRow}]
    /\ read \in [Rows -> Nat]
    BY DEF IInv, TypeOK, Status, WorkerType, TaskType, RunType, PullType

LEMMA EmptyTypes == NoRun \in RunType /\ NoTask \in TaskType /\ NoPull \in PullType /\ Resting \in WorkerType
    BY DEF NoRun, NoTask, NoPull, Resting, RunType, TaskType, PullType, WorkerType

LEMMA TypesKept ==
    ASSUME IInv, inbox' \in Seq(Rows), status' \in [Rows -> Status], notify' \subseteq Rows,
           worker' \in WorkerType, mutating' \in {"free", "worker", "settings"},
           closing' \in {"open", "closing", "stopping", "joining", "closed"},
           task' \in [Roots -> TaskType], run' \in [Roots -> RunType], pull' \in [Roots -> PullType],
           claimed' \in [Roots -> SUBSET Rows], pending' \in [Roots -> Rows \cup {NoRow}],
           changed' \in [Roots -> BOOLEAN], read' \in [Rows -> Nat], events' \in Nat
    PROVE  TypeOK'
    BY DEF TypeOK, Status, WorkerType, TaskType, RunType, PullType

LEMMA OtherRoots == ASSUME IInv, NEW r \in Roots, SameRoot(r) PROVE (Lane(r) /\ Pulls(r))'
<1>1. Lane(r) /\ Pulls(r)
    BY DEF IInv
<1>2. Lane(r)'
    BY <1>1 DEF Lane, SameRoot
<1>3. Pulls(r)'
    BY <1>1 DEF Pulls, SameRoot, Turning, Compacts
<1> QED
    BY <1>2, <1>3

LEMMA OtherRows ==
    ASSUME IInv, NEW m \in Rows, SameRow(m), SameRoot(RootOf[m])
    PROVE  (Accounted(m) /\ Read(m) /\ TaskRead(m) /\ RunRead(m))'
<1>1. Accounted(m) /\ Read(m) /\ TaskRead(m) /\ RunRead(m)
    BY DEF IInv
<1>2. (WorkerHas(m)' <=> WorkerHas(m)) /\ (TaskHas(m)' <=> TaskHas(m)) /\ (PullHas(m)' <=> PullHas(m)) /\ (RunHas(m)' <=> RunHas(m))
    BY DEF SameRow, SameRoot, WorkerHas, TaskHas, PullHas, RunHas
<1>3. Accounted(m)' /\ Read(m)'
    BY <1>1, <1>2 DEF Accounted, Read, SameRow
<1>4. TaskRead(m)'
    BY <1>1, <1>2 DEF TaskRead, SameRow, SameRoot
<1>5. RunRead(m)'
    BY <1>1, <1>2 DEF RunRead, SameRow, SameRoot
<1> QED
    BY <1>3, <1>4, <1>5

\* A step of one root: what is left to show is about that root and its rows.
LEMMA Frame ==
    ASSUME IInv, NEW r \in Roots, TypeOK', Host',
           \A q \in Roots \ {r} : SameRoot(q),
           \A m \in Rows : RootOf[m] # r => SameRow(m),
           (Lane(r) /\ Pulls(r))',
           \A m \in Rows : RootOf[m] = r => (Accounted(m) /\ Read(m) /\ TaskRead(m) /\ RunRead(m))'
    PROVE  IInv'
<1>1. \A q \in Roots : (Lane(q) /\ Pulls(q))'
    BY OtherRoots
<1>2. ASSUME NEW m \in Rows PROVE (Accounted(m) /\ Read(m) /\ TaskRead(m) /\ RunRead(m))'
  <2>1. CASE RootOf[m] = r
      BY <2>1
  <2>2. CASE RootOf[m] # r
      BY <2>2, OtherRows, RoutingAssumption
  <2> QED
      BY <2>1, <2>2
<1> QED
    BY <1>1, <1>2 DEF IInv

LEMMA StageSet ==
    ASSUME IInv, NEW r \in Roots, NEW s \in {"launched", "producing", "draining"}, StageTo(r, s)
    PROVE  /\ run' \in [Roots -> RunType]
           /\ \A q \in Roots \ {r} : run'[q] = run[q]
           /\ run'[r] = [run[r] EXCEPT !.stage = s]
           /\ run'[r].stage = s /\ run'[r].kind = run[r].kind /\ run'[r].row = run[r].row
           /\ run'[r].outcome = run[r].outcome /\ run'[r].cancel = run[r].cancel
<1>1. [run[r] EXCEPT !.stage = s] \in RunType
    BY Types DEF RunType
<1>2. run' = [run EXCEPT ![r] = [run[r] EXCEPT !.stage = s]]
    BY DEF StageTo
<1> QED
    BY <1>1, <1>2, Types DEF RunType

\* The facts of a step of root r about its rows, as they were.
LEMMA Formerly == ASSUME IInv, NEW r \in Roots PROVE
    /\ Lane(r) /\ Pulls(r) /\ Host
    /\ \A m \in Rows : Accounted(m) /\ Read(m) /\ TaskRead(m) /\ RunRead(m)
    BY DEF IInv

LEMMA SameHolders ==
    ASSUME IInv, NEW m \in Rows, SameRow(m),
           task'[RootOf[m]].row = task[RootOf[m]].row, pull'[RootOf[m]].row = pull[RootOf[m]].row,
           claimed'[RootOf[m]] = claimed[RootOf[m]]
    PROVE  (Accounted(m) /\ Read(m))'
<1>1. Accounted(m) /\ Read(m)
    BY DEF IInv
<1> QED
    BY <1>1 DEF Accounted, Read, SameRow, WorkerHas, TaskHas, PullHas, RunHas

LEMMA RunSet ==
    ASSUME IInv, NEW r \in Roots, NEW u \in RunType, run' = [run EXCEPT ![r] = u]
    PROVE  run' \in [Roots -> RunType] /\ run'[r] = u /\ \A q \in Roots \ {r} : run'[q] = run[q]
    BY Types

LEMMA TaskSet ==
    ASSUME IInv, NEW r \in Roots, NEW t \in TaskType, task' = [task EXCEPT ![r] = t]
    PROVE  task' \in [Roots -> TaskType] /\ task'[r] = t /\ \A q \in Roots \ {r} : task'[q] = task[q]
    BY Types

LEMMA PullSet ==
    ASSUME IInv, NEW r \in Roots, NEW p \in PullType, pull' = [pull EXCEPT ![r] = p]
    PROVE  pull' \in [Roots -> PullType] /\ pull'[r] = p /\ \A q \in Roots \ {r} : pull'[q] = pull[q]
    BY Types

\* finish_work on a row that is running, which every holder's row is.
LEMMA Finished ==
    ASSUME IInv, NEW m \in Rows, NEW st \in Status, status[m] = "running", FinishWork(m, st)
    PROVE  status' \in [Rows -> Status] /\ status'[m] = st /\ \A n \in Rows \ {m} : status'[n] = status[n]
    BY Types DEF FinishWork

LEMMA Claimed ==
    ASSUME IInv, NEW m \in Rows, ClaimWork(m)
    PROVE  status' \in [Rows -> Status] /\ status'[m] = "running" /\ \A n \in Rows \ {m} : status'[n] = status[n]
    BY Types DEF ClaimWork, Status

\* A step of one root that moves no row.
LEMMA QuietFrame ==
    ASSUME IInv, NEW r \in Roots, TypeOK', Host',
           \A q \in Roots \ {r} : SameRoot(q), \A m \in Rows : SameRow(m),
           task'[r].row = task[r].row, pull'[r].row = pull[r].row, claimed'[r] = claimed[r],
           (Lane(r) /\ Pulls(r))',
           \A m \in Rows : RootOf[m] = r => (TaskRead(m) /\ RunRead(m))'
    PROVE  IInv'
<1>1. \A m \in Rows : RootOf[m] = r => (Accounted(m) /\ Read(m))'
    BY SameHolders
<1> QED
    BY <1>1, Frame

\* What a root's rows are to it does not change, except for one of them.
SameHold(n) ==
    /\ WorkerHas(n)' <=> WorkerHas(n)
    /\ TaskHas(n)' <=> TaskHas(n)
    /\ PullHas(n)' <=> PullHas(n)
    /\ RunHas(n)' <=> RunHas(n)

\* A step of one root that moves one of its rows.
LEMMA RowFrame ==
    ASSUME IInv, NEW r \in Roots, NEW m \in Rows, RootOf[m] = r, TypeOK', Host',
           \A q \in Roots \ {r} : SameRoot(q),
           \A n \in Rows \ {m} : status'[n] = status[n] /\ read'[n] = read[n] /\ SameHold(n),
           (Lane(r) /\ Pulls(r))', (Accounted(m) /\ Read(m))',
           \A n \in Rows : RootOf[n] = r => (TaskRead(n) /\ RunRead(n))'
    PROVE  IInv'
<1>1. ASSUME NEW n \in Rows, n # m PROVE (Accounted(n) /\ Read(n))'
  <2>1. Accounted(n) /\ Read(n)
      BY Formerly DEF IInv
  <2>2. status'[n] = status[n] /\ read'[n] = read[n] /\ SameHold(n)
      BY <1>1
  <2> QED
      BY <2>1, <2>2 DEF Accounted, Read, SameHold
<1>2. \A n \in Rows : RootOf[n] # r => SameRow(n)
    BY DEF SameRow, SameHold, WorkerHas
<1> QED
    BY <1>1, <1>2, Frame
-----------------------------------------------------------------------------
(* Steps that stop a run. *)

LEMMA CancelledRun == ASSUME IInv, NEW r \in Roots PROVE
    /\ Cancelled(run[r]) \in RunType
    /\ Cancelled(run[r]).kind = run[r].kind /\ Cancelled(run[r]).row = run[r].row
    /\ Cancelled(run[r]).stage = run[r].stage
    /\ run[r].kind = "none" => Cancelled(run[r]) = run[r]
    /\ run[r].kind # "none" => Cancelled(run[r]).outcome = "cancelled"
    BY Types DEF Cancelled, RunType

LEMMA CancelKeepsRoot ==
    ASSUME IInv, NEW r \in Roots, run'[r] = Cancelled(run[r]), task'[r] = task[r], pull'[r] = pull[r],
           claimed'[r] = claimed[r], pending'[r] = pending[r]
    PROVE  (Lane(r) /\ Pulls(r))'
<1>1. Lane(r) /\ Pulls(r)
    BY Formerly
<1>2. Lane(r)'
    BY <1>1, CancelledRun DEF Lane
<1>3. Pulls(r)'
    BY <1>1, CancelledRun DEF Pulls, Turning, Compacts
<1> QED
    BY <1>2, <1>3

LEMMA CancelKeepsRow ==
    ASSUME IInv, NEW m \in Rows, SameRow(m), run'[RootOf[m]] = Cancelled(run[RootOf[m]]),
           task'[RootOf[m]] = task[RootOf[m]], claimed'[RootOf[m]] = claimed[RootOf[m]],
           pending'[RootOf[m]] = pending[RootOf[m]]
    PROVE  (TaskRead(m) /\ RunRead(m))'
<1>1. TaskRead(m) /\ RunRead(m) /\ RootOf[m] \in Roots
    BY Formerly, RoutingAssumption DEF IInv
<1>2. TaskRead(m)'
    BY <1>1, CancelledRun DEF TaskRead, TaskHas, SameRow
<1>3. RunRead(m)'
  <2>1. run'[RootOf[m]].outcome = "completed" => run[RootOf[m]].outcome = "completed"
      BY <1>1, CancelledRun
  <2> QED
      BY <1>1, <2>1 DEF RunRead, RunHas, SameRow
<1> QED
    BY <1>2, <1>3

LEMMA RequestStopKeeps ==
    ASSUME IInv, NEW r \in Roots, RequestStop(r), events' \in Nat, notify' \subseteq Rows,
           UNCHANGED <<inbox, status, host, task, followups, read>>
    PROVE  IInv'
<1> USE DEF host, followups
<1>1. /\ run' \in [Roots -> RunType] /\ run'[r] = Cancelled(run[r])
      /\ \A q \in Roots \ {r} : run'[q] = run[q]
    BY RunSet, CancelledRun DEF RequestStop
<1>2. TypeOK'
    BY <1>1, TypesKept, Types DEF IInv, TypeOK
<1>3. Host'
    BY <1>1, Formerly, CancelledRun DEF Host, Runs, Running, Tasked
<1>4. \A m \in Rows : SameRow(m)
    BY DEF SameRow
<1>5. (Lane(r) /\ Pulls(r))'
    BY <1>1, CancelKeepsRoot
<1>6. \A m \in Rows : RootOf[m] = r => (TaskRead(m) /\ RunRead(m))'
    BY <1>1, <1>4, CancelKeepsRow
<1>7. \A q \in Roots \ {r} : SameRoot(q)
    BY <1>1 DEF SameRoot
<1> QED
    BY <1>2, <1>3, <1>4, <1>5, <1>6, <1>7, QuietFrame

LEMMA StopStep == ASSUME IInv, NEW r \in Roots, Stop(r) PROVE IInv'
    BY RequestStopKeeps DEF Stop, Event, IInv, TypeOK

LEMMA StopAllStep == ASSUME IInv, StopAll PROVE IInv'
<1> USE DEF StopAll, CloseTo, followups
<1>1. run' \in [Roots -> RunType] /\ \A r \in Roots : run'[r] = Cancelled(run[r])
    BY CancelledRun
<1>2. TypeOK'
    BY <1>1, TypesKept, Types DEF IInv, TypeOK
<1>3. Host'
    BY <1>1, Formerly DEF Host, Tasked, IInv
<1>4. \A m \in Rows : SameRow(m)
    BY DEF SameRow
<1>5. \A r \in Roots : (Lane(r) /\ Pulls(r))'
    BY <1>1, CancelKeepsRoot
<1>6. ASSUME NEW m \in Rows PROVE (Accounted(m) /\ Read(m) /\ TaskRead(m) /\ RunRead(m))'
  <2>1. (TaskRead(m) /\ RunRead(m))'
      BY <1>1, <1>4, CancelKeepsRow, RoutingAssumption
  <2>2. (Accounted(m) /\ Read(m))'
      BY <1>4, SameHolders
  <2> QED
      BY <2>1, <2>2
<1> QED
    BY <1>2, <1>3, <1>5, <1>6 DEF IInv
-----------------------------------------------------------------------------
(* Steps of one root. *)

LEMMA BeginStep == ASSUME IInv, NEW r \in Roots, Begin(r) PROVE IInv'
<1> USE DEF host, followups
<1>0. /\ Lane(r) /\ Pulls(r) /\ Host
      /\ \A m \in Rows : Accounted(m) /\ Read(m) /\ TaskRead(m) /\ RunRead(m)
    BY Formerly
<1>1. /\ run' \in [Roots -> RunType]
      /\ \A q \in Roots \ {r} : run'[q] = run[q]
      /\ run'[r].stage = "producing" /\ run'[r].kind = run[r].kind /\ run'[r].row = run[r].row
      /\ run'[r].outcome = run[r].outcome /\ run'[r].cancel = run[r].cancel
    BY StageSet DEF Begin
<1>2. Lane(r)'
    BY <1>0, <1>1 DEF Lane, Begin, NoRun
<1>3. Pulls(r)'
    BY <1>0, <1>1 DEF Pulls, Begin, Turning, Compacts
<1>4. Host'
    BY <1>0, <1>1 DEF Host, Begin, Runs, Running, Tasked
<1>5. \A q \in Roots \ {r} : SameRoot(q)
    BY <1>1 DEF SameRoot, Begin
<1>6. CASE run[r].kind = "inbox" /\ ~Compacts(r)
  <2>1. task[r].row = run[r].row /\ task[r].stage = "joining" /\ run[r].row \in Rows /\ RootOf[run[r].row] = r
      BY <1>0, <1>6, Types DEF Lane, Begin, TaskType
  <2>2. TaskHas(run[r].row) /\ read[run[r].row] = 0 /\ status[run[r].row] = "running"
      BY <1>0, <2>1 DEF TaskHas, TaskRead, Begin, Accounted
  <2>3. read' \in [Rows -> Nat] /\ read'[run[r].row] = 1 /\ \A m \in Rows \ {run[r].row} : read'[m] = read[m]
      BY <1>6, <2>1, <2>2, Types DEF Begin, ReadRow
  <2>4. TypeOK'
      BY <1>1, <2>3, TypesKept, Types DEF Begin, IInv, TypeOK
  <2>5. ASSUME NEW m \in Rows, m # run[r].row, RootOf[m] = r
        PROVE  (Accounted(m) /\ Read(m) /\ TaskRead(m) /\ RunRead(m))'
    <3>1. Accounted(m)' /\ Read(m)'
        BY <1>0, <2>3, <2>5, SameHolders DEF SameRow, Begin
    <3>2. TaskRead(m)' /\ RunRead(m)'
        BY <1>0, <1>1, <2>1, <2>5 DEF TaskRead, TaskHas, RunRead, RunHas, Begin, Pulls
    <3> QED
        BY <3>1, <3>2
  <2>6. ASSUME NEW m \in Rows, m = run[r].row
        PROVE  (Accounted(m) /\ Read(m) /\ TaskRead(m) /\ RunRead(m))'
    <3>1. Accounted(m)'
        BY <1>0, <2>6 DEF Begin, Accounted, WorkerHas, TaskHas, PullHas, RunHas
    <3>2. Read(m)'
        BY <1>0, <2>6, <2>1, <2>2, <2>3 DEF Begin, Read, WorkerHas, PullHas, Accounted
    <3>3. TaskRead(m)' /\ RunRead(m)'
        BY <1>0, <1>1, <2>1, <2>2, <2>3, <2>6 DEF TaskRead, TaskHas, RunRead, Accounted, RunHas, Begin
    <3> QED
        BY <3>1, <3>2, <3>3
  <2>7. \A m \in Rows : RootOf[m] # r => SameRow(m)
      BY <2>1, <2>3 DEF SameRow, Begin
  <2> QED
      BY <1>2, <1>3, <1>4, <1>5, <2>4, <2>5, <2>6, <2>7, Frame
<1>7. CASE ~(run[r].kind = "inbox" /\ ~Compacts(r))
  <2>1. TypeOK' /\ read' = read
      BY <1>1, <1>7, TypesKept, Types DEF Begin, IInv, TypeOK
  <2>2. \A m \in Rows : SameRow(m)
      BY <2>1 DEF SameRow, Begin
  <2>3. ASSUME NEW m \in Rows, RootOf[m] = r
        PROVE  (Accounted(m) /\ Read(m) /\ TaskRead(m) /\ RunRead(m))'
    <3>1. Accounted(m)' /\ Read(m)'
        BY <2>2, SameHolders DEF Begin
    <3>2. TaskRead(m)' /\ RunRead(m)'
        BY <1>0, <1>1, <1>7, <2>1, <2>3 DEF TaskRead, TaskHas, RunRead, RunHas, Begin, Pulls, Compacts, Lane
    <3> QED
        BY <3>1, <3>2
  <2> QED
      BY <1>2, <1>3, <1>4, <1>5, <2>1, <2>2, <2>3, Frame
<1> QED
    BY <1>6, <1>7

LEMMA TaskStage ==
    ASSUME IInv, NEW r \in Roots, NEW s \in {"validating", "joining"}, task' = [task EXCEPT ![r].stage = s]
    PROVE  /\ task' \in [Roots -> TaskType]
           /\ \A q \in Roots \ {r} : task'[q] = task[q]
           /\ task'[r].stage = s /\ task'[r].row = task[r].row /\ task'[r].status = task[r].status
<1>1. [task[r] EXCEPT !.stage = s] \in TaskType
    BY Types DEF TaskType
<1>2. task' = [task EXCEPT ![r] = [task[r] EXCEPT !.stage = s]]
    OBVIOUS
<1> QED
    BY <1>1, <1>2, Types DEF TaskType

LEMMA TaskFinishing ==
    ASSUME IInv, NEW r \in Roots, NEW st \in {"queued", "completed", "failed", "interrupted"}, Finishing(r, st)
    PROVE  /\ task' \in [Roots -> TaskType]
           /\ \A q \in Roots \ {r} : task'[q] = task[q]
           /\ task'[r].stage = "finishing" /\ task'[r].row = task[r].row /\ task'[r].status = st
<1>1. [task[r] EXCEPT !.stage = "finishing", !.status = st] \in TaskType
    BY Types DEF TaskType
<1>2. task' = [task EXCEPT ![r] = [task[r] EXCEPT !.stage = "finishing", !.status = st]]
    BY DEF Finishing
<1> QED
    BY <1>1, <1>2, Types DEF TaskType

LEMMA StartClaimStep == ASSUME IInv, NEW r \in Roots, StartClaim(r) PROVE IInv'
<1> USE DEF host, followups, StartClaim
<1>0. Lane(r) /\ Pulls(r) /\ Host /\ \A m \in Rows : TaskRead(m) /\ RunRead(m)
    BY Formerly
<1>1. /\ task' \in [Roots -> TaskType]
      /\ \A q \in Roots \ {r} : task'[q] = task[q]
      /\ task'[r].stage = "validating" /\ task'[r].row = task[r].row /\ task'[r].status = task[r].status
    BY TaskStage
<1>2. TypeOK'
    BY <1>1, TypesKept, Types DEF IInv, TypeOK
<1>3. Host'
    BY <1>0, <1>1 DEF Host, Runs, Running, Tasked
<1>4. Lane(r)'
    BY <1>0, <1>1 DEF Lane
<1>5. Pulls(r)'
    BY <1>0 DEF Pulls, Turning, Compacts
<1>6. \A m \in Rows : RootOf[m] = r => (TaskRead(m) /\ RunRead(m))'
    BY <1>0, <1>1 DEF TaskRead, TaskHas, RunRead, RunHas
<1>7. (\A q \in Roots \ {r} : SameRoot(q)) /\ \A m \in Rows : SameRow(m)
    BY <1>1 DEF SameRoot, SameRow
<1> QED
    BY <1>1, <1>2, <1>3, <1>4, <1>5, <1>6, <1>7, QuietFrame

LEMMA ValidateStep == ASSUME IInv, NEW r \in Roots, Validate(r) PROVE IInv'
<1> USE DEF host, followups
<1>0. Lane(r) /\ Pulls(r) /\ Host /\ \A m \in Rows : TaskRead(m) /\ RunRead(m)
    BY Formerly
<1>1. /\ task[r].stage = "validating" /\ task[r].row # NoRow
      /\ UNCHANGED <<inbox, status, notify, worker, mutating, closing, pull, claimed, pending, changed, read>>
      /\ events' \in Nat
    BY <1>0, Types DEF Validate, Lane, Event, IInv, TypeOK
<1>2. CASE \E st \in {"queued", "failed", "interrupted"} : Finishing(r, st) /\ UNCHANGED run
  <2>1. PICK st \in {"queued", "failed", "interrupted"} : Finishing(r, st) /\ UNCHANGED run
      BY <1>2
  <2>2. /\ task' \in [Roots -> TaskType]
        /\ \A q \in Roots \ {r} : task'[q] = task[q]
        /\ task'[r].stage = "finishing" /\ task'[r].row = task[r].row /\ task'[r].status = st
      BY <2>1, TaskFinishing
  <2>3. TypeOK'
      BY <1>1, <2>1, <2>2, TypesKept, Types DEF IInv, TypeOK
  <2>4. Host'
      BY <1>0, <1>1, <2>1, <2>2 DEF Host, Runs, Running, Tasked
  <2>5. Lane(r)'
      BY <1>0, <1>1, <2>1, <2>2 DEF Lane
  <2>6. Pulls(r)'
      BY <1>0, <1>1, <2>1 DEF Pulls, Turning, Compacts
  <2>7. \A m \in Rows : RootOf[m] = r => (TaskRead(m) /\ RunRead(m))'
      BY <1>0, <1>1, <2>1, <2>2 DEF TaskRead, TaskHas, RunRead, RunHas
  <2>8. (\A q \in Roots \ {r} : SameRoot(q)) /\ \A m \in Rows : SameRow(m)
      BY <1>1, <2>1, <2>2 DEF SameRoot, SameRow
  <2> QED
      BY <1>1, <2>2, <2>3, <2>4, <2>5, <2>6, <2>7, <2>8, QuietFrame
<1>3. CASE task' = [task EXCEPT ![r].stage = "joining"] /\ StageTo(r, "launched")
  <2>1. /\ task' \in [Roots -> TaskType]
        /\ \A q \in Roots \ {r} : task'[q] = task[q]
        /\ task'[r].stage = "joining" /\ task'[r].row = task[r].row /\ task'[r].status = task[r].status
      BY <1>3, TaskStage
  <2>2. /\ run' \in [Roots -> RunType]
        /\ \A q \in Roots \ {r} : run'[q] = run[q]
        /\ run'[r].stage = "launched" /\ run'[r].kind = run[r].kind /\ run'[r].row = run[r].row
        /\ run'[r].outcome = run[r].outcome /\ run'[r].cancel = run[r].cancel
      BY <1>3, StageSet
  <2>3. TypeOK'
      BY <1>1, <2>1, <2>2, TypesKept, Types DEF IInv, TypeOK
  <2>4. Host'
      BY <1>0, <1>1, <2>1, <2>2 DEF Host, Runs, Running, Tasked
  <2>5. Lane(r)'
      BY <1>0, <1>1, <2>1, <2>2 DEF Lane
  <2>6. Pulls(r)'
      BY <1>0, <1>1, <2>2 DEF Pulls, Turning, Compacts, Lane
  <2>7. \A m \in Rows : RootOf[m] = r => (TaskRead(m) /\ RunRead(m))'
      BY <1>0, <1>1, <2>1, <2>2 DEF TaskRead, TaskHas, RunRead, RunHas
  <2>8. (\A q \in Roots \ {r} : SameRoot(q)) /\ \A m \in Rows : SameRow(m)
      BY <1>1, <2>1, <2>2 DEF SameRoot, SameRow
  <2> QED
      BY <1>1, <2>1, <2>3, <2>4, <2>5, <2>6, <2>7, <2>8, QuietFrame
<1> QED
    BY <1>2, <1>3 DEF Validate

\* A claimed row whose task ends leaves nothing behind: its run is gone too.
LEMMA EndTaskKeeps ==
    ASSUME IInv, NEW r \in Roots, NEW st \in {"queued", "completed", "failed", "interrupted"},
           task[r].stage \in {"created", "finishing"}, EndTask(r, st),
           st = "queued" => read[task[r].row] = 0,
           st = "completed" /\ KindOf[task[r].row] \in {"input", "skill"} => read[task[r].row] = 1
    PROVE  IInv'
<1> USE DEF host, followups
<1>0. /\ Lane(r) /\ Pulls(r) /\ Host
      /\ \A n \in Rows : Accounted(n) /\ Read(n) /\ TaskRead(n) /\ RunRead(n)
    BY Formerly
<1>00. PICK m \in Rows : m = task[r].row
    BY <1>0, Types DEF Lane, TaskType
<1>1. m = task[r].row /\ RootOf[m] = r /\ TaskHas(m) /\ status[m] = "running"
    BY <1>0, <1>00 DEF Lane, TaskHas, Accounted
<1>2. /\ run' \in [Roots -> RunType]
      /\ run'[r] = NoRun /\ \A q \in Roots \ {r} : run'[q] = run[q]
  <2>1. run[r].row = m \/ run[r] = NoRun
      BY <1>0, <1>1, Types DEF Lane, RunType
  <2>2. (IF run[r].row = m THEN NoRun ELSE run[r]) = NoRun
      BY <2>1
  <2>3. run' = [run EXCEPT ![r] = NoRun]
      BY <1>1, <2>2 DEF EndTask
  <2> QED
      BY <2>3, RunSet, EmptyTypes
<1>3. /\ task' \in [Roots -> TaskType]
      /\ task'[r] = NoTask /\ \A q \in Roots \ {r} : task'[q] = task[q]
    BY TaskSet, EmptyTypes DEF EndTask
<1>4. status' \in [Rows -> Status] /\ status'[m] = st /\ \A n \in Rows \ {m} : status'[n] = status[n]
    BY <1>1, Finished DEF EndTask, Status
<1>5. claimed[r] = {} /\ pull[r].at = "off" /\ pull[r].row = NoRow /\ pending[r] = NoRow
    BY <1>0, Types DEF Lane, Pulls, Turning, RunType, NoRun
<1>6. TypeOK'
    BY <1>2, <1>3, <1>4, TypesKept, Types DEF EndTask, IInv, TypeOK
<1>7. Host'
    BY <1>0, <1>2, <1>3 DEF EndTask, Host, Runs, Running, Tasked, NoRun, NoTask
<1>8. Lane(r)'
    BY <1>2, <1>3 DEF Lane, NoRun, NoTask
<1>9. Pulls(r)'
    BY <1>5 DEF EndTask, Pulls
<1>10. \A n \in Rows \ {m} : status'[n] = status[n] /\ read'[n] = read[n] /\ SameHold(n)
  <2> SUFFICES ASSUME NEW n \in Rows \ {m} PROVE status'[n] = status[n] /\ read'[n] = read[n] /\ SameHold(n)
      OBVIOUS
  <2>1. TaskHas(n)' <=> TaskHas(n)
      BY <1>1, <1>3, RoutingAssumption, NoRowAssumption DEF TaskHas, NoTask
  <2> QED
      BY <1>4, <2>1 DEF EndTask, SameHold, WorkerHas, PullHas, RunHas
<1>11. (Accounted(m) /\ Read(m))'
  <2>1. ~WorkerHas(m) /\ ~PullHas(m) /\ ~RunHas(m)
      BY <1>0, <1>1 DEF Accounted
  <2>2. ~WorkerHas(m)' /\ ~TaskHas(m)' /\ ~PullHas(m)' /\ ~RunHas(m)'
      BY <1>1, <1>3, <2>1, NoRowAssumption DEF EndTask, WorkerHas, TaskHas, PullHas, RunHas, NoTask
  <2>3. Accounted(m)'
      BY <1>4, <2>2 DEF Accounted
  <2>4. Read(m)'
      BY <1>0, <1>1, <1>4, <2>2 DEF EndTask, Read
  <2> QED
      BY <2>3, <2>4
<1>12. \A n \in Rows : RootOf[n] = r => (TaskRead(n) /\ RunRead(n))'
    BY <1>3, <1>5, NoRowAssumption DEF EndTask, TaskRead, TaskHas, RunRead, RunHas, NoTask
<1>13. \A q \in Roots \ {r} : SameRoot(q)
    BY <1>2, <1>3 DEF EndTask, SameRoot
<1> QED
    BY <1>1, <1>6, <1>7, <1>8, <1>9, <1>10, <1>11, <1>12, <1>13, RowFrame

LEMMA CleanClaimStep == ASSUME IInv, NEW r \in Roots, CleanClaim(r) PROVE IInv'
<1>1. task[r].row \in Rows /\ RootOf[task[r].row] = r /\ task[r].stage = "created"
    BY Formerly, Types DEF CleanClaim, Lane, TaskType
<1>2. read[task[r].row] = 0
    BY <1>1, Formerly DEF TaskRead, TaskHas
<1> QED
    BY <1>1, <1>2, EndTaskKeeps DEF CleanClaim

LEMMA FinishTaskStep == ASSUME IInv, NEW r \in Roots, FinishTask(r) PROVE IInv'
<1>1. task[r].row \in Rows /\ RootOf[task[r].row] = r /\ task[r].stage = "finishing"
    BY Formerly, Types DEF FinishTask, Lane, TaskType
<1>2. task[r].status \in {"queued", "completed", "failed", "interrupted"}
    BY Types DEF TaskType
<1>3. TaskRead(task[r].row) /\ TaskHas(task[r].row)
    BY <1>1, Formerly DEF TaskHas
<1> QED
    BY <1>1, <1>2, <1>3, EndTaskKeeps DEF FinishTask, TaskRead

-----------------------------------------------------------------------------
(* Runs begin and end. *)

\* A root without a run has pulled nothing.
LEMMA NothingPulled ==
    ASSUME IInv, NEW r \in Roots, run[r].stage \notin {"producing", "draining"}
    PROVE  claimed[r] = {} /\ pull[r].at = "off" /\ pull[r].row = NoRow /\ pending[r] = NoRow
    BY Formerly, Types DEF Pulls, Turning, PullType

\* A run of its own kind is reserved, with no row: a wakeup or a task start.
LEMMA ReserveKeeps ==
    ASSUME IInv, NEW r \in Roots, NEW u \in RunType, run' = [run EXCEPT ![r] = u],
           u.kind \in {"wake", "task"}, u.row = NoRow, u.stage \in {"reserved", "launched"}, ~u.cancel,
           run[r].kind = "none", task[r].stage = "none", ~ExecutionsClosed,
           events' \in Nat, UNCHANGED <<inbox, status, notify, host, task, followups, read>>
    PROVE  IInv'
<1> USE DEF host, followups
<1>0. Lane(r) /\ Pulls(r) /\ Host /\ \A m \in Rows : TaskRead(m) /\ RunRead(m)
    BY Formerly
<1>1. run' \in [Roots -> RunType] /\ run'[r] = u /\ \A q \in Roots \ {r} : run'[q] = run[q]
    BY RunSet
<1>2. claimed[r] = {} /\ pull[r].at = "off" /\ pull[r].row = NoRow /\ pending[r] = NoRow
    BY <1>0, NothingPulled DEF Lane, NoRun
<1>3. TypeOK'
    BY <1>1, TypesKept, Types DEF IInv, TypeOK
<1>4. Host'
    BY <1>0 DEF Host, ExecutionsClosed, Tasked
<1>5. Lane(r)'
    BY <1>0, <1>1 DEF Lane
<1>6. Pulls(r)'
    BY <1>2 DEF Pulls
<1>7. \A m \in Rows : RootOf[m] = r => (TaskRead(m) /\ RunRead(m))'
    BY <1>0, <1>2, NoRowAssumption DEF TaskRead, TaskHas, RunRead, RunHas, Lane
<1>8. (\A q \in Roots \ {r} : SameRoot(q)) /\ \A m \in Rows : SameRow(m)
    BY <1>1 DEF SameRoot, SameRow
<1> QED
    BY <1>3, <1>4, <1>5, <1>6, <1>7, <1>8, QuietFrame

LEMMA ReserveWakeupStep == ASSUME IInv, NEW r \in Roots, ReserveWakeup(r) PROVE IInv'
<1> DEFINE u == [NoRun EXCEPT !.kind = "wake", !.stage = "reserved"]
<1>1. u \in RunType /\ u.kind = "wake" /\ u.row = NoRow /\ u.stage = "reserved" /\ ~u.cancel
    BY EmptyTypes DEF NoRun, RunType
<1>2. run[r].kind = "none" /\ task[r].stage = "none"
    BY DEF ReserveWakeup, Occupied, Runs, Running, Tasked
<1>3. events' \in Nat
    BY DEF ReserveWakeup, Event, IInv, TypeOK
<1> QED
    BY <1>1, <1>2, <1>3, ReserveKeeps DEF ReserveWakeup

LEMMA LaunchTaskStep == ASSUME IInv, NEW r \in Roots, LaunchTask(r) PROVE IInv'
<1> DEFINE u == [NoRun EXCEPT !.kind = "task", !.stage = "launched"]
<1>1. u \in RunType /\ u.kind = "task" /\ u.row = NoRow /\ u.stage = "launched" /\ ~u.cancel
    BY EmptyTypes DEF NoRun, RunType
<1>2. run[r].kind = "none" /\ task[r].stage = "none" /\ ~ExecutionsClosed
    BY DEF LaunchTask, CanReserve, Running, Tasked
<1>3. events' \in Nat
    BY DEF LaunchTask, Event, IInv, TypeOK
<1> QED
    BY <1>1, <1>2, <1>3, ReserveKeeps DEF LaunchTask

LEMMA StartWakeStep == ASSUME IInv, NEW r \in Roots, StartWake(r) PROVE IInv'
<1> USE DEF host, followups
<1>0. Lane(r) /\ Pulls(r) /\ Host /\ \A m \in Rows : TaskRead(m) /\ RunRead(m)
    BY Formerly
<1>1. [run[r] EXCEPT !.stage = "launched"] \in RunType
    BY Types DEF RunType
<1>2. PICK u \in RunType : /\ run' = [run EXCEPT ![r] = u]
                           /\ u = NoRun \/ (u = [run[r] EXCEPT !.stage = "launched"] /\ ~run[r].cancel)
  <2>1. CASE run[r].cancel
      BY <2>1, EmptyTypes DEF StartWake
  <2>2. CASE ~run[r].cancel
      BY <1>1, <2>2 DEF StartWake
  <2> QED
      BY <2>1, <2>2
<1>3. run' \in [Roots -> RunType] /\ run'[r] = u /\ \A q \in Roots \ {r} : run'[q] = run[q]
    BY <1>2, RunSet
<1>4. /\ u.kind = "none" => u = NoRun
      /\ u.kind # "none" => u.kind = run[r].kind /\ u.stage # "none"
      /\ u.row = NoRow /\ u.kind # "inbox" /\ ~u.cancel
    BY <1>0, <1>2, Types DEF StartWake, Lane, NoRun, RunType
<1>5. claimed[r] = {} /\ pull[r].at = "off" /\ pull[r].row = NoRow /\ pending[r] = NoRow
    BY NothingPulled DEF StartWake
<1>6. TypeOK'
    BY <1>3, TypesKept, Types DEF StartWake, IInv, TypeOK
<1>7. Host'
    BY <1>0, <1>3, <1>4 DEF StartWake, Host, Runs, Running, Tasked
<1>8. Lane(r)'
    BY <1>0, <1>3, <1>4 DEF StartWake, Lane
<1>9. Pulls(r)'
    BY <1>5 DEF StartWake, Pulls
<1>10. \A m \in Rows : RootOf[m] = r => (TaskRead(m) /\ RunRead(m))'
    BY <1>0, <1>5, NoRowAssumption DEF StartWake, TaskRead, TaskHas, RunRead, RunHas, Lane
<1>11. (\A q \in Roots \ {r} : SameRoot(q)) /\ \A m \in Rows : SameRow(m)
    BY <1>3 DEF StartWake, SameRoot, SameRow
<1> QED
    BY <1>6, <1>7, <1>8, <1>9, <1>10, <1>11, QuietFrame DEF StartWake

\* A run that has settled what it pulled ends; the task of its row settles that.
LEMMA EndRunKeeps ==
    ASSUME IInv, NEW r \in Roots, NEW outcome \in {"completed", "failed", "cancelled"}, EndRun(r, outcome),
           run[r].stage \in {"launched", "producing", "draining"},
           claimed[r] = {}, pull[r].at = "off", pending[r] = NoRow,
           outcome = "completed" => run[r].stage # "launched",
           changed' \in [Roots -> BOOLEAN], events' \in Nat,
           UNCHANGED <<inbox, status, notify, host, pull, claimed, pending, read>>
    PROVE  IInv'
<1> USE DEF host
<1>0. Lane(r) /\ Pulls(r) /\ Host /\ \A m \in Rows : TaskRead(m) /\ RunRead(m)
    BY Formerly
<1>1. run' \in [Roots -> RunType] /\ run'[r] = NoRun /\ \A q \in Roots \ {r} : run'[q] = run[q]
    BY RunSet, EmptyTypes DEF EndRun
<1>2. Result(outcome) \in {"completed", "failed", "interrupted"} /\ (Result(outcome) = "completed" => outcome = "completed")
    BY DEF Result
<1>3. /\ task' \in [Roots -> TaskType] /\ task'[r].row = task[r].row
      /\ \A q \in Roots \ {r} : task'[q] = task[q]
      /\ run[r].kind = "inbox" => task'[r].stage = "finishing" /\ task'[r].status = Result(outcome)
      /\ run[r].kind # "inbox" => task'[r] = task[r]
  <2>1. CASE run[r].kind = "inbox"
      BY <1>2, <2>1, TaskFinishing DEF EndRun
  <2>2. CASE run[r].kind # "inbox"
      BY <2>2, Types DEF EndRun
  <2> QED
      BY <2>1, <2>2
<1>4. run[r].kind = "inbox" => task[r].stage = "joining"
    BY <1>0, Types DEF Lane, TaskType
<1>5. run[r].kind # "inbox" => task[r].stage = "none"
    BY <1>0, Types DEF Lane, RunType, NoRun
<1>6. TypeOK'
    BY <1>1, <1>3, TypesKept, Types DEF IInv, TypeOK
<1>7. Host'
    BY <1>0, <1>1, <1>3, <1>4 DEF Host, Runs, Running, Tasked, NoRun
<1>8. Lane(r)'
    BY <1>0, <1>1, <1>3, <1>4, <1>5 DEF Lane, NoRun
<1>9. Pulls(r)'
    BY <1>0 DEF Pulls
<1>10. ASSUME NEW m \in Rows, RootOf[m] = r PROVE (TaskRead(m) /\ RunRead(m))'
  <2>1. RunRead(m)'
      BY <1>10 DEF RunRead, RunHas
  <2>2. CASE run[r].kind = "inbox"
    <3>1. TaskHas(m) /\ run[r].stage # "launched" /\ KindOf[m] # "compact" => read[m] = 1
        BY <1>0, <1>4, <1>10, <2>2 DEF TaskRead
    <3> QED
        BY <1>2, <1>3, <1>10, <2>1, <2>2, <3>1 DEF TaskRead, TaskHas
  <2>3. CASE run[r].kind # "inbox"
      BY <1>0, <1>3, <1>5, <1>10, <2>1, <2>3, NoRowAssumption DEF TaskRead, TaskHas, Lane
  <2> QED
      BY <2>2, <2>3
<1>11. (\A q \in Roots \ {r} : SameRoot(q)) /\ \A m \in Rows : SameRow(m)
    BY <1>1, <1>3 DEF SameRoot, SameRow
<1> QED
    BY <1>3, <1>6, <1>7, <1>8, <1>9, <1>10, <1>11, QuietFrame

LEMMA BeginFailsStep == ASSUME IInv, NEW r \in Roots, BeginFails(r) PROVE IInv'
<1>1. PICK outcome \in {"failed", "cancelled"} : EndRun(r, outcome)
    BY DEF BeginFails
<1>2. claimed[r] = {} /\ pull[r].at = "off" /\ pending[r] = NoRow
    BY NothingPulled DEF BeginFails
<1>3. events' \in Nat /\ changed' \in [Roots -> BOOLEAN]
    BY DEF BeginFails, Event, followups, IInv, TypeOK
<1> QED
    BY <1>1, <1>2, <1>3, EndRunKeeps DEF BeginFails, followups

LEMMA CompactStep == ASSUME IInv, NEW r \in Roots, Compact(r) PROVE IInv'
<1>1. PICK outcome \in {"completed", "failed", "cancelled"} : EndRun(r, outcome)
    BY Types DEF Compact, RunType
<1>2. claimed[r] = {} /\ pull[r].at = "off" /\ pending[r] = NoRow
    BY Formerly, Types DEF Compact, Pulls, Turning, PullType
<1>3. events' \in Nat /\ changed' \in [Roots -> BOOLEAN]
    BY DEF Compact, Event, followups, IInv, TypeOK
<1> QED
    BY <1>1, <1>2, <1>3, EndRunKeeps DEF Compact, followups

LEMMA DrainedStep == ASSUME IInv, NEW r \in Roots, Drained(r) PROVE IInv'
<1>1. pull[r].at = "off" /\ pending[r] = NoRow /\ run[r].outcome \in {"completed", "failed", "cancelled"}
    BY Formerly, Types DEF Drained, Pulls, Turning, RunType
<1>2. events' \in Nat /\ changed' \in [Roots -> BOOLEAN]
    BY DEF Drained, IInv, TypeOK
<1> QED
    BY <1>1, <1>2, EndRunKeeps DEF Drained

-----------------------------------------------------------------------------
(* The pulls of a run. *)

LEMMA PullAt ==
    ASSUME IInv, NEW r \in Roots, NEW a \in {"off", "claiming", "empty"}, pull[r].row = NoRow,
           pull' = [pull EXCEPT ![r].at = a]
    PROVE  /\ pull' \in [Roots -> PullType] /\ pull'[r].at = a /\ pull'[r].row = NoRow
           /\ \A q \in Roots \ {r} : pull'[q] = pull[q]
<1>1. [pull[r] EXCEPT !.at = a] \in PullType
    BY Types DEF PullType
<1>2. pull' = [pull EXCEPT ![r] = [pull[r] EXCEPT !.at = a]]
    OBVIOUS
<1> QED
    BY <1>1, <1>2, PullSet, Types DEF PullType

LEMMA PullBeginStep == ASSUME IInv, NEW r \in Roots, PullBegin(r) PROVE IInv'
<1> USE DEF host, lane
<1>0. Lane(r) /\ Pulls(r) /\ Host /\ \A m \in Rows : TaskRead(m) /\ RunRead(m)
    BY Formerly
<1>1. PICK a \in {"claiming", "empty"} : pull' = [pull EXCEPT ![r].at = a]
    BY DEF PullBegin
<1>2. pull[r].row = NoRow
    BY <1>0 DEF PullBegin, Pulls
<1>3. /\ pull' \in [Roots -> PullType] /\ pull'[r].at = a /\ pull'[r].row = NoRow
      /\ \A q \in Roots \ {r} : pull'[q] = pull[q]
    BY <1>1, <1>2, PullAt
<1>4. changed' \in [Roots -> BOOLEAN]
    BY DEF PullBegin, IInv, TypeOK
<1>5. TypeOK'
    BY <1>3, <1>4, TypesKept, Types DEF PullBegin, IInv, TypeOK
<1>6. Host' /\ Lane(r)'
    BY <1>0 DEF PullBegin, Host, Lane, Tasked, Runs, Running
<1>7. Pulls(r)'
    BY <1>0, <1>3 DEF PullBegin, Pulls, Turning, Compacts
<1>8. \A m \in Rows : RootOf[m] = r => (TaskRead(m) /\ RunRead(m))'
    BY <1>0 DEF PullBegin, TaskRead, TaskHas, RunRead, RunHas
<1>9. (\A q \in Roots \ {r} : SameRoot(q)) /\ \A m \in Rows : SameRow(m)
    BY <1>3 DEF PullBegin, SameRoot, SameRow
<1> QED
    BY <1>2, <1>3, <1>5, <1>6, <1>7, <1>8, <1>9, QuietFrame DEF PullBegin

LEMMA DecideStep == ASSUME IInv, NEW r \in Roots, Decide(r) PROVE IInv'
<1> USE DEF host
<1>0. Lane(r) /\ Pulls(r) /\ Host /\ \A m \in Rows : TaskRead(m) /\ RunRead(m)
    BY Formerly
<1>1. pull[r].row = NoRow /\ Turning(r) /\ pending[r] = NoRow
    BY <1>0 DEF Decide, Pulls
<1>2. pull' \in [Roots -> PullType] /\ pull'[r] = NoPull /\ \A q \in Roots \ {r} : pull'[q] = pull[q]
    BY PullSet, EmptyTypes DEF Decide
<1>3. /\ run' \in [Roots -> RunType]
      /\ \A q \in Roots \ {r} : run'[q] = run[q]
      /\ run'[r].stage \in {"producing", "draining"} /\ run'[r].kind = run[r].kind /\ run'[r].row = run[r].row
      /\ run'[r].outcome = run[r].outcome /\ run'[r].cancel = run[r].cancel
  <2>1. CASE UNCHANGED run
      BY <1>1, <2>1, Types DEF Turning
  <2>2. CASE StageTo(r, "draining")
      BY <2>2, StageSet
  <2> QED
      BY <2>1, <2>2 DEF Decide
<1>4. TypeOK'
    BY <1>2, <1>3, TypesKept, Types DEF Decide, IInv, TypeOK
<1>5. Host'
    BY <1>0, <1>3 DEF Decide, Host, Tasked, Runs, Running
<1>6. Lane(r)'
    BY <1>0, <1>1, <1>3 DEF Decide, Lane, Turning, NoRun
<1>7. Pulls(r)'
    BY <1>0, <1>1, <1>2, <1>3 DEF Decide, Pulls, Compacts, Turning, NoPull
<1>8. \A m \in Rows : RootOf[m] = r => (TaskRead(m) /\ RunRead(m))'
    BY <1>0, <1>1, <1>3 DEF Decide, TaskRead, TaskHas, RunRead, RunHas, Turning
<1>9. (\A q \in Roots \ {r} : SameRoot(q)) /\ \A m \in Rows : SameRow(m)
    BY <1>2, <1>3 DEF Decide, SameRoot, SameRow
<1>10. pull'[r].row = pull[r].row
    BY <1>1, <1>2 DEF NoPull
<1> QED
    BY <1>4, <1>5, <1>6, <1>7, <1>8, <1>9, <1>10, QuietFrame DEF Decide

LEMMA AbortStep == ASSUME IInv, NEW r \in Roots, Abort(r) PROVE IInv'
<1> USE DEF host
<1>0. Lane(r) /\ Pulls(r) /\ Host /\ \A m \in Rows : TaskRead(m) /\ RunRead(m)
    BY Formerly
<1>1. pull[r].row = NoRow /\ Turning(r)
    BY <1>0 DEF Abort, Pulls
<1>2. pull' \in [Roots -> PullType] /\ pull'[r] = NoPull /\ \A q \in Roots \ {r} : pull'[q] = pull[q]
    BY PullSet, EmptyTypes DEF Abort
<1>3. /\ run' \in [Roots -> RunType]
      /\ \A q \in Roots \ {r} : run'[q] = run[q]
      /\ run'[r].stage = "draining" /\ run'[r].kind = run[r].kind /\ run'[r].row = run[r].row
      /\ run'[r].outcome # "completed"
      /\ run'[r].cancel => run'[r].outcome = "cancelled"
  <2>1. CASE run[r].cancel /\ StageTo(r, "draining")
      BY <1>0, <2>1, StageSet DEF Lane
  <2>2. CASE ~run[r].cancel /\ run' = [run EXCEPT ![r] = [@ EXCEPT !.stage = "draining", !.outcome = "failed"]]
    <3>1. [run[r] EXCEPT !.stage = "draining", !.outcome = "failed"] \in RunType
        BY Types DEF RunType
    <3> QED
        BY <2>2, <3>1, RunSet, Types DEF RunType
  <2> QED
      BY <2>1, <2>2 DEF Abort
<1>4. pending' \in [Roots -> Rows \cup {NoRow}] /\ pending'[r] = NoRow /\ \A q \in Roots \ {r} : pending'[q] = pending[q]
    BY Types DEF Abort
<1>5. events' \in Nat
    BY DEF Abort, Event, IInv, TypeOK
<1>6. TypeOK'
    BY <1>2, <1>3, <1>4, <1>5, TypesKept, Types DEF Abort, IInv, TypeOK
<1>7. Host'
    BY <1>0, <1>3 DEF Abort, Host, Tasked, Runs, Running
<1>8. Lane(r)'
    BY <1>0, <1>1, <1>3 DEF Abort, Lane, Turning, NoRun
<1>9. Pulls(r)'
    BY <1>0, <1>1, <1>2, <1>3, <1>4 DEF Abort, Pulls, Compacts, Turning, NoPull
<1>10. \A m \in Rows : RootOf[m] = r => (TaskRead(m) /\ RunRead(m))'
    BY <1>0, <1>1, <1>3, <1>4, NoRowAssumption DEF Abort, TaskRead, TaskHas, RunRead, RunHas, Turning
<1>11. (\A q \in Roots \ {r} : SameRoot(q)) /\ \A m \in Rows : SameRow(m)
    BY <1>2, <1>3, <1>4 DEF Abort, SameRoot, SameRow
<1>12. pull'[r].row = pull[r].row
    BY <1>1, <1>2 DEF NoPull
<1> QED
    BY <1>6, <1>7, <1>8, <1>9, <1>10, <1>11, <1>12, QuietFrame DEF Abort

\* The first of some rows is one of them.
LEMMA FirstIsOne == ASSUME NEW C, NEW m \in First(C) PROVE m \in C
    BY DEF First

LEMMA PullClaimStep == ASSUME IInv, NEW r \in Roots, PullClaim(r) PROVE IInv'
<1> USE DEF host, lane
<1>0. /\ Lane(r) /\ Pulls(r) /\ Host
      /\ \A m \in Rows : Accounted(m) /\ Read(m) /\ TaskRead(m) /\ RunRead(m)
    BY Formerly
<1>1. pull[r].row = NoRow /\ Turning(r) /\ pending[r] = NoRow
    BY <1>0 DEF PullClaim, Pulls
<1>2. Host' /\ Lane(r)'
    BY <1>0 DEF PullClaim, Host, Lane, Tasked, Runs, Running
<1>3. \A m \in Rows : RootOf[m] = r => (TaskRead(m) /\ RunRead(m))'
    BY <1>0 DEF PullClaim, TaskRead, TaskHas, RunRead, RunHas
<1>4. ASSUME pull' = [pull EXCEPT ![r].at = "empty"], UNCHANGED status PROVE IInv'
  <2>1. /\ pull' \in [Roots -> PullType] /\ pull'[r].at = "empty" /\ pull'[r].row = NoRow
        /\ \A q \in Roots \ {r} : pull'[q] = pull[q]
      BY <1>1, <1>4, PullAt
  <2>2. TypeOK'
      BY <1>4, <2>1, TypesKept, Types DEF PullClaim, IInv, TypeOK
  <2>3. Pulls(r)'
      BY <1>0, <1>1, <2>1 DEF PullClaim, Pulls, Turning, Compacts
  <2>4. (\A q \in Roots \ {r} : SameRoot(q)) /\ \A m \in Rows : SameRow(m)
      BY <1>4, <2>1 DEF PullClaim, SameRoot, SameRow
  <2> QED
      BY <1>1, <1>2, <1>3, <2>1, <2>2, <2>3, <2>4, QuietFrame DEF PullClaim
<1>5. ASSUME NEW m \in PullRow(r), ClaimWork(m), pull' = [pull EXCEPT ![r] = [at |-> "holding", row |-> m]]
      PROVE  IInv'
  <2>1. m \in Rows /\ RootOf[m] = r /\ status[m] = "queued"
      BY <1>5, FirstIsOne DEF PullRow, Eligible
  <2>2. [at |-> "holding", row |-> m] \in PullType
      BY <2>1 DEF PullType
  <2>3. /\ pull' \in [Roots -> PullType] /\ pull'[r].at = "holding" /\ pull'[r].row = m
        /\ \A q \in Roots \ {r} : pull'[q] = pull[q]
      BY <1>5, <2>2, PullSet
  <2>4. status' \in [Rows -> Status] /\ status'[m] = "running" /\ \A n \in Rows \ {m} : status'[n] = status[n]
      BY <1>5, <2>1, Claimed
  <2>5. TypeOK'
      BY <2>3, <2>4, TypesKept, Types DEF PullClaim, IInv, TypeOK
  <2>6. Pulls(r)'
      BY <1>0, <1>1, <2>1, <2>3, NoRowAssumption DEF PullClaim, Pulls, Turning, Compacts
  <2>7. ASSUME NEW n \in Rows \ {m} PROVE status'[n] = status[n] /\ read'[n] = read[n] /\ SameHold(n)
    <3>1. PullHas(n)' <=> PullHas(n)
        BY <1>1, <2>1, <2>3, <2>7, RoutingAssumption, NoRowAssumption DEF PullHas
    <3> QED
        BY <2>4, <2>7, <3>1 DEF PullClaim, SameHold, WorkerHas, TaskHas, RunHas
  <2>8. ~WorkerHas(m) /\ ~TaskHas(m) /\ ~RunHas(m) /\ read[m] = 0
      BY <1>0, <2>1 DEF Accounted, Read
  <2>9. ~WorkerHas(m)' /\ ~TaskHas(m)' /\ ~RunHas(m)' /\ PullHas(m)'
      BY <2>1, <2>3, <2>8 DEF PullClaim, WorkerHas, TaskHas, RunHas, PullHas
  <2>10. Accounted(m)' /\ Read(m)'
      BY <1>0, <2>4, <2>8, <2>9 DEF PullClaim, Accounted, Read
  <2>11. \A q \in Roots \ {r} : SameRoot(q)
      BY <2>3 DEF PullClaim, SameRoot
  <2> QED
      BY <1>2, <1>3, <2>1, <2>5, <2>6, <2>7, <2>10, <2>11, RowFrame
<1> QED
    BY <1>4, <1>5 DEF PullClaim

LEMMA PullTakeStep == ASSUME IInv, NEW r \in Roots, PullTake(r) PROVE IInv'
<1> USE DEF host, lane
<1>0. /\ Lane(r) /\ Pulls(r) /\ Host
      /\ \A m \in Rows : Accounted(m) /\ Read(m) /\ TaskRead(m) /\ RunRead(m)
    BY Formerly
<1>1. PICK m \in Rows : m = pull[r].row
    BY <1>0, Types DEF PullTake, Pulls, PullType
<1>2. RootOf[m] = r /\ PullHas(m) /\ status[m] = "running" /\ read[m] = 0 /\ Turning(r) /\ pending[r] = NoRow
    BY <1>0, <1>1, NoRowAssumption DEF PullTake, Pulls, PullHas, Accounted, Read
<1>3. pull' \in [Roots -> PullType] /\ pull'[r] = NoPull /\ \A q \in Roots \ {r} : pull'[q] = pull[q]
    BY PullSet, EmptyTypes DEF PullTake
<1>4. /\ claimed' \in [Roots -> SUBSET Rows] /\ claimed'[r] = claimed[r] \cup {m}
      /\ \A q \in Roots \ {r} : claimed'[q] = claimed[q]
    BY <1>1, Types DEF PullTake
<1>5. /\ pending' \in [Roots -> Rows \cup {NoRow}] /\ pending'[r] = m
      /\ \A q \in Roots \ {r} : pending'[q] = pending[q]
    BY <1>1, Types DEF PullTake
<1>6. TypeOK'
    BY <1>3, <1>4, <1>5, TypesKept, Types DEF PullTake, IInv, TypeOK
<1>7. Host' /\ Lane(r)'
    BY <1>0 DEF PullTake, Host, Lane, Tasked, Runs, Running
<1>8. Pulls(r)'
    BY <1>0, <1>2, <1>3, <1>4, <1>5 DEF PullTake, Pulls, Turning, Compacts, NoPull
<1>9. ASSUME NEW n \in Rows \ {m} PROVE status'[n] = status[n] /\ read'[n] = read[n] /\ SameHold(n)
  <2>1. PullHas(n)' <=> PullHas(n)
      BY <1>1, <1>3, RoutingAssumption, NoRowAssumption DEF PullHas, NoPull
  <2>2. RunHas(n)' <=> RunHas(n)
      BY <1>4, RoutingAssumption DEF RunHas
  <2> QED
      BY <2>1, <2>2 DEF PullTake, SameHold, WorkerHas, TaskHas
<1>10. Accounted(m)' /\ Read(m)'
  <2>1. ~WorkerHas(m) /\ ~TaskHas(m)
      BY <1>0, <1>2 DEF Accounted
  <2>2. ~WorkerHas(m)' /\ ~TaskHas(m)' /\ ~PullHas(m)' /\ RunHas(m)'
      BY <1>2, <1>3, <1>4, <2>1, NoRowAssumption DEF PullTake, WorkerHas, TaskHas, PullHas, RunHas, NoPull
  <2> QED
      BY <1>0, <1>2, <2>2 DEF PullTake, Accounted, Read
<1>11. ASSUME NEW n \in Rows, RootOf[n] = r PROVE (TaskRead(n) /\ RunRead(n))'
  <2>1. TaskRead(n)'
      BY <1>0, <1>11 DEF PullTake, TaskRead, TaskHas
  <2>2. RunRead(n)'
      BY <1>0, <1>2, <1>4, <1>5, <1>11, NoRowAssumption DEF PullTake, RunRead, RunHas
  <2> QED
      BY <2>1, <2>2
<1>12. \A q \in Roots \ {r} : SameRoot(q)
    BY <1>3, <1>4, <1>5 DEF PullTake, SameRoot
<1> QED
    BY <1>2, <1>6, <1>7, <1>8, <1>9, <1>10, <1>11, <1>12, RowFrame

LEMMA PullReleaseStep == ASSUME IInv, NEW r \in Roots, PullRelease(r) PROVE IInv'
<1> USE DEF host, lane
<1>0. /\ Lane(r) /\ Pulls(r) /\ Host
      /\ \A m \in Rows : Accounted(m) /\ Read(m) /\ TaskRead(m) /\ RunRead(m)
    BY Formerly
<1>1. PICK m \in Rows : m = pull[r].row
    BY <1>0, Types DEF PullRelease, Pulls, PullType
<1>2. RootOf[m] = r /\ PullHas(m) /\ status[m] = "running" /\ read[m] = 0 /\ Turning(r) /\ pending[r] = NoRow
    BY <1>0, <1>1, NoRowAssumption DEF PullRelease, Pulls, PullHas, Accounted, Read
<1>3. /\ pull' \in [Roots -> PullType] /\ pull'[r].at = "empty" /\ pull'[r].row = NoRow
      /\ \A q \in Roots \ {r} : pull'[q] = pull[q]
  <2>1. [NoPull EXCEPT !.at = "empty"] \in PullType
      BY EmptyTypes DEF PullType
  <2> QED
      BY <2>1, PullSet DEF PullRelease, NoPull
<1>4. status' \in [Rows -> Status] /\ status'[m] = "queued" /\ \A n \in Rows \ {m} : status'[n] = status[n]
    BY <1>1, <1>2, Finished DEF PullRelease, ReleaseWork, Status
<1>6. TypeOK'
    BY <1>3, <1>4, TypesKept, Types DEF PullRelease, IInv, TypeOK
<1>7. Host' /\ Lane(r)'
    BY <1>0 DEF PullRelease, Host, Lane, Tasked, Runs, Running
<1>8. Pulls(r)'
    BY <1>0, <1>2, <1>3 DEF PullRelease, Pulls, Turning, Compacts
<1>9. ASSUME NEW n \in Rows \ {m} PROVE status'[n] = status[n] /\ read'[n] = read[n] /\ SameHold(n)
  <2>1. PullHas(n)' <=> PullHas(n)
      BY <1>1, <1>3, RoutingAssumption, NoRowAssumption DEF PullHas
  <2> QED
      BY <1>4, <2>1 DEF PullRelease, SameHold, WorkerHas, TaskHas, RunHas
<1>10. Accounted(m)' /\ Read(m)'
  <2>1. ~WorkerHas(m) /\ ~TaskHas(m) /\ ~RunHas(m)
      BY <1>0, <1>2 DEF Accounted
  <2>2. ~WorkerHas(m)' /\ ~TaskHas(m)' /\ ~PullHas(m)' /\ ~RunHas(m)'
      BY <1>2, <1>3, <2>1, NoRowAssumption DEF PullRelease, WorkerHas, TaskHas, PullHas, RunHas
  <2> QED
      BY <1>0, <1>2, <1>4, <2>2 DEF PullRelease, Accounted, Read
<1>11. \A n \in Rows : RootOf[n] = r => (TaskRead(n) /\ RunRead(n))'
    BY <1>0 DEF PullRelease, TaskRead, TaskHas, RunRead, RunHas
<1>12. \A q \in Roots \ {r} : SameRoot(q)
    BY <1>3 DEF PullRelease, SameRoot
<1> QED
    BY <1>2, <1>6, <1>7, <1>8, <1>9, <1>10, <1>11, <1>12, RowFrame

\* A claimed row is settled by its run.
LEMMA RunRow == ASSUME IInv, NEW r \in Roots, NEW m \in claimed[r] PROVE
    /\ m \in Rows /\ RootOf[m] = r /\ RunHas(m) /\ status[m] = "running"
    /\ ~WorkerHas(m) /\ ~TaskHas(m) /\ ~PullHas(m)
<1>1. m \in Rows /\ RootOf[m] = r
    BY Formerly, Types DEF Pulls
<1>2. RunHas(m) /\ Accounted(m)
    BY <1>1, Formerly DEF RunHas
<1> QED
    BY <1>1, <1>2 DEF Accounted

\* ... and no longer held by anyone afterwards.
LEMMA RunSettles ==
    ASSUME IInv, NEW r \in Roots, NEW m \in claimed[r], NEW st \in {"completed", "failed", "interrupted"},
           FinishWork(m, st), claimed' = [claimed EXCEPT ![r] = @ \ {m}],
           st = "completed" => read[m] = 1, pull'[r].row = pull[r].row,
           \A q \in Roots \ {r} : pull'[q] = pull[q], UNCHANGED <<worker, task, read>>
    PROVE  /\ m \in Rows /\ RootOf[m] = r
           /\ status' \in [Rows -> Status]
           /\ claimed' \in [Roots -> SUBSET Rows] /\ claimed'[r] = claimed[r] \ {m}
           /\ \A q \in Roots \ {r} : claimed'[q] = claimed[q]
           /\ \A n \in Rows \ {m} : status'[n] = status[n] /\ read'[n] = read[n] /\ SameHold(n)
           /\ (Accounted(m) /\ Read(m))'
<1>1. /\ m \in Rows /\ RootOf[m] = r /\ RunHas(m) /\ status[m] = "running"
      /\ ~WorkerHas(m) /\ ~TaskHas(m) /\ ~PullHas(m)
    BY RunRow
<1>2. status' \in [Rows -> Status] /\ status'[m] = st /\ \A n \in Rows \ {m} : status'[n] = status[n]
    BY <1>1, Finished DEF Status
<1>3. /\ claimed' \in [Roots -> SUBSET Rows] /\ claimed'[r] = claimed[r] \ {m}
      /\ \A q \in Roots \ {r} : claimed'[q] = claimed[q]
    BY Types
<1>4. ASSUME NEW n \in Rows \ {m} PROVE status'[n] = status[n] /\ read'[n] = read[n] /\ SameHold(n)
  <2>1. RunHas(n)' <=> RunHas(n)
      BY <1>3, RoutingAssumption DEF RunHas
  <2>2. PullHas(n)' <=> PullHas(n)
      BY RoutingAssumption DEF PullHas
  <2> QED
      BY <1>2, <2>1, <2>2 DEF SameHold, WorkerHas, TaskHas
<1>5. ~WorkerHas(m)' /\ ~TaskHas(m)' /\ ~PullHas(m)' /\ ~RunHas(m)'
    BY <1>1, <1>3 DEF WorkerHas, TaskHas, PullHas, RunHas
<1>6. Read(m)
    BY <1>1, Formerly
<1> QED
    BY <1>1, <1>2, <1>3, <1>4, <1>5, <1>6 DEF Accounted, Read

LEMMA SkillGoneStep == ASSUME IInv, NEW r \in Roots, SkillGone(r) PROVE IInv'
<1> USE DEF host, lane
<1>0. /\ Lane(r) /\ Pulls(r) /\ Host
      /\ \A m \in Rows : Accounted(m) /\ Read(m) /\ TaskRead(m) /\ RunRead(m)
    BY Formerly
<1>1. PICK m \in claimed[r] : m = pending[r]
    BY <1>0 DEF SkillGone, Pulls
<1>2. Turning(r) /\ pull[r].at = "off" /\ pull[r].row = NoRow
    BY <1>0, Types DEF SkillGone, Pulls, PullType
<1>3. /\ pull' \in [Roots -> PullType] /\ pull'[r].at = "claiming" /\ pull'[r].row = NoRow
      /\ \A q \in Roots \ {r} : pull'[q] = pull[q]
    BY <1>2, PullAt DEF SkillGone
<1>4. /\ m \in Rows /\ RootOf[m] = r
      /\ status' \in [Rows -> Status]
      /\ claimed' \in [Roots -> SUBSET Rows] /\ claimed'[r] = claimed[r] \ {m}
      /\ \A q \in Roots \ {r} : claimed'[q] = claimed[q]
      /\ \A n \in Rows \ {m} : status'[n] = status[n] /\ read'[n] = read[n] /\ SameHold(n)
      /\ (Accounted(m) /\ Read(m))'
  <2>1. FinishWork(m, "failed") /\ claimed' = [claimed EXCEPT ![r] = @ \ {m}]
      BY <1>1 DEF SkillGone
  <2>2. pull'[r].row = pull[r].row /\ UNCHANGED <<worker, task, read>>
      BY <1>2, <1>3 DEF SkillGone
  <2> QED
      BY <1>3, <2>1, <2>2, RunSettles
<1>5. /\ pending' \in [Roots -> Rows \cup {NoRow}] /\ pending'[r] = NoRow
      /\ \A q \in Roots \ {r} : pending'[q] = pending[q]
    BY Types DEF SkillGone
<1>6. events' \in Nat
    BY DEF SkillGone, Event, IInv, TypeOK
<1>7. TypeOK'
    BY <1>3, <1>4, <1>5, <1>6, TypesKept, Types DEF SkillGone, IInv, TypeOK
<1>8. Host' /\ Lane(r)'
    BY <1>0 DEF SkillGone, Host, Lane, Tasked, Runs, Running
<1>9. Pulls(r)'
    BY <1>0, <1>2, <1>3, <1>4, <1>5 DEF SkillGone, Pulls, Turning, Compacts
<1>10. \A n \in Rows : RootOf[n] = r => (TaskRead(n) /\ RunRead(n))'
    BY <1>0, <1>1, <1>4, <1>5, NoRowAssumption DEF SkillGone, TaskRead, TaskHas, RunRead, RunHas
<1>11. \A q \in Roots \ {r} : SameRoot(q)
    BY <1>3, <1>4, <1>5 DEF SkillGone, SameRoot
<1> QED
    BY <1>4, <1>7, <1>8, <1>9, <1>10, <1>11, RowFrame

LEMMA SettleStep == ASSUME IInv, NEW r \in Roots, Settle(r) PROVE IInv'
<1> USE DEF host, lane
<1>0. /\ Lane(r) /\ Pulls(r) /\ Host
      /\ \A m \in Rows : Accounted(m) /\ Read(m) /\ TaskRead(m) /\ RunRead(m)
    BY Formerly
<1>1. PICK m \in claimed[r] : FinishWork(m, Result(run[r].outcome)) /\ claimed' = [claimed EXCEPT ![r] = @ \ {m}]
    BY DEF Settle
<1>2. pending[r] = NoRow /\ pull[r].at = "off"
    BY <1>0 DEF Settle, Pulls, Turning
<1>3. m \in Rows /\ RootOf[m] = r /\ RunHas(m)
    BY RunRow
<1>4. /\ Result(run[r].outcome) \in {"completed", "failed", "interrupted"}
      /\ Result(run[r].outcome) = "completed" => run[r].outcome = "completed"
    BY Types DEF Result, RunType
<1>5. run[r].outcome = "completed" => read[m] = 1
    BY <1>0, <1>2, <1>3, NoRowAssumption DEF RunRead
<1>6. /\ status' \in [Rows -> Status]
      /\ claimed' \in [Roots -> SUBSET Rows] /\ claimed'[r] = claimed[r] \ {m}
      /\ \A q \in Roots \ {r} : claimed'[q] = claimed[q]
      /\ \A n \in Rows \ {m} : status'[n] = status[n] /\ read'[n] = read[n] /\ SameHold(n)
      /\ (Accounted(m) /\ Read(m))'
  <2>1. UNCHANGED <<worker, task, read>> /\ pull' = pull /\ claimed' = [claimed EXCEPT ![r] = @ \ {m}]
      BY <1>1 DEF Settle
  <2>2. pull'[r].row = pull[r].row /\ \A q \in Roots \ {r} : pull'[q] = pull[q]
      BY <2>1
  <2>3. CASE run[r].outcome = "completed"
    <3>1. FinishWork(m, "completed") /\ read[m] = 1
        BY <1>1, <1>5, <2>3 DEF Result
    <3> QED
        BY <2>1, <2>2, <3>1, RunSettles
  <2>4. CASE run[r].outcome = "failed"
    <3>1. FinishWork(m, "failed")
        BY <1>1, <2>4 DEF Result
    <3> QED
        BY <2>1, <2>2, <3>1, RunSettles
  <2>5. CASE run[r].outcome = "cancelled"
    <3>1. FinishWork(m, "interrupted")
        BY <1>1, <2>5 DEF Result
    <3> QED
        BY <2>1, <2>2, <3>1, RunSettles
  <2> QED
      BY <2>3, <2>4, <2>5, Types DEF RunType
<1>7. TypeOK'
    BY <1>6, TypesKept, Types DEF Settle, IInv, TypeOK
<1>8. Host' /\ Lane(r)'
    BY <1>0 DEF Settle, Host, Lane, Tasked, Runs, Running
<1>9. Pulls(r)'
    BY <1>0, <1>2, <1>6 DEF Settle, Pulls, Turning, Compacts
<1>10. \A n \in Rows : RootOf[n] = r => (TaskRead(n) /\ RunRead(n))'
    BY <1>0, <1>6 DEF Settle, TaskRead, TaskHas, RunRead, RunHas
<1>11. \A q \in Roots \ {r} : SameRoot(q)
    BY <1>6 DEF Settle, SameRoot
<1> QED
    BY <1>3, <1>6, <1>7, <1>8, <1>9, <1>10, <1>11, RowFrame

LEMMA FollowupStep == ASSUME IInv, NEW r \in Roots, Followup(r) PROVE IInv'
<1> USE DEF host, lane
<1>0. /\ Lane(r) /\ Pulls(r) /\ Host
      /\ \A m \in Rows : Accounted(m) /\ Read(m) /\ TaskRead(m) /\ RunRead(m)
    BY Formerly
<1>1. PICK m \in claimed[r] : m = pending[r]
    BY <1>0 DEF Followup, Pulls
<1>2. /\ m \in Rows /\ RootOf[m] = r /\ RunHas(m) /\ status[m] = "running"
      /\ ~WorkerHas(m) /\ ~TaskHas(m) /\ ~PullHas(m)
    BY RunRow
<1>3. read[m] = 0
    BY <1>0, <1>1, <1>2 DEF RunRead
<1>4. read' \in [Rows -> Nat] /\ read'[m] = 1 /\ \A n \in Rows \ {m} : read'[n] = read[n]
    BY <1>1, <1>2, <1>3, Types DEF Followup, ReadRow
<1>5. /\ pending' \in [Roots -> Rows \cup {NoRow}] /\ pending'[r] = NoRow
      /\ \A q \in Roots \ {r} : pending'[q] = pending[q]
    BY Types DEF Followup
<1>6. TypeOK'
    BY <1>4, <1>5, TypesKept, Types DEF Followup, IInv, TypeOK
<1>7. Host' /\ Lane(r)'
    BY <1>0 DEF Followup, Host, Lane, Tasked, Runs, Running
<1>8. Pulls(r)'
    BY <1>0, <1>5 DEF Followup, Pulls, Turning, Compacts
<1>9. \A n \in Rows \ {m} : status'[n] = status[n] /\ read'[n] = read[n] /\ SameHold(n)
    BY <1>4 DEF Followup, SameHold, WorkerHas, TaskHas, PullHas, RunHas
<1>10. Accounted(m)' /\ Read(m)'
  <2>1. ~WorkerHas(m)' /\ ~TaskHas(m)' /\ ~PullHas(m)' /\ RunHas(m)'
      BY <1>2 DEF Followup, WorkerHas, TaskHas, PullHas, RunHas
  <2> QED
      BY <1>0, <1>2, <1>4, <2>1 DEF Followup, Accounted, Read
<1>11. ASSUME NEW n \in Rows, RootOf[n] = r PROVE (TaskRead(n) /\ RunRead(n))'
  <2>1. TaskRead(n)'
      BY <1>0, <1>2, <1>4, <1>11 DEF Followup, TaskRead, TaskHas
  <2>2. RunRead(n)'
      BY <1>0, <1>1, <1>4, <1>5, <1>11, NoRowAssumption DEF Followup, RunRead, RunHas
  <2> QED
      BY <2>1, <2>2
<1>12. \A q \in Roots \ {r} : SameRoot(q)
    BY <1>5 DEF Followup, SameRoot
<1> QED
    BY <1>2, <1>6, <1>7, <1>8, <1>9, <1>10, <1>11, <1>12, RowFrame

-----------------------------------------------------------------------------
(* Steps of the worker, of senders and of the settings. *)

LEMMA NothingMoves ==
    ASSUME IInv, TypeOK', Host', \A r \in Roots : SameRoot(r), \A m \in Rows : SameRow(m)
    PROVE  IInv'
<1>1. \A r \in Roots : (Lane(r) /\ Pulls(r))'
    BY OtherRoots
<1>2. \A m \in Rows : (Accounted(m) /\ Read(m) /\ TaskRead(m) /\ RunRead(m))'
    BY OtherRows, RoutingAssumption
<1> QED
    BY <1>1, <1>2 DEF IInv

\* One row changes hands or status, and no root has anything to do with it.
LEMMA OneRowMoves ==
    ASSUME IInv, NEW m \in Rows, TypeOK', Host', \A r \in Roots : SameRoot(r),
           \A n \in Rows \ {m} : SameRow(n), (Accounted(m) /\ Read(m))', ~TaskHas(m)', ~RunHas(m)'
    PROVE  IInv'
<1>1. \A r \in Roots : (Lane(r) /\ Pulls(r))'
    BY OtherRoots
<1>2. ASSUME NEW n \in Rows PROVE (Accounted(n) /\ Read(n) /\ TaskRead(n) /\ RunRead(n))'
  <2>1. CASE n # m
      BY <2>1, OtherRows, RoutingAssumption
  <2>2. CASE n = m
      BY <2>2 DEF TaskRead, RunRead
  <2> QED
      BY <2>1, <2>2
<1> QED
    BY <1>1, <1>2 DEF IInv

\* The row the worker holds.
LEMMA WorkerRowIs == ASSUME IInv, worker.at = "holding" PROVE
    /\ worker.row \in Rows /\ RootOf[worker.row] \in Roots
    /\ status[worker.row] = "running" /\ read[worker.row] = 0
    /\ ~TaskHas(worker.row) /\ ~PullHas(worker.row) /\ ~RunHas(worker.row)
    /\ task[RootOf[worker.row]].stage = "none"
<1>1. worker.row \in Rows
    BY Formerly, Types, RoutingAssumption DEF Host, WorkerType, IInv
<1>2. Accounted(worker.row) /\ Read(worker.row) /\ WorkerHas(worker.row)
    BY <1>1 DEF IInv, WorkerHas
<1>3. RootOf[worker.row] \in Roots /\ Host
    BY <1>1, RoutingAssumption DEF IInv
<1> QED
    BY <1>1, <1>2, <1>3 DEF Accounted, Read, Host, Tasked

LEMMA RestingIs == ASSUME IInv, WorkerRests PROVE
    worker' \in WorkerType /\ worker'.row = NoRow /\ worker'.at = "idle" /\ mutating' = "free"
    BY EmptyTypes DEF WorkerRests, Resting

LEMMA EndingIs == ASSUME IInv, WorkerEnds PROVE
    /\ worker' \in WorkerType /\ worker'.row = NoRow /\ worker'.at = "stopped"
    /\ mutating' \in {"free", "worker", "settings"}
    BY DEF WorkerEnds, Over, Resting, WorkerType, IInv, TypeOK

LEMMA WorkerPollStep == ASSUME IInv, WorkerPoll PROVE IInv'
<1> USE DEF WorkerPoll, lane, followups
<1>0. Host
    BY DEF IInv
<1>1. /\ worker' \in WorkerType /\ worker'.row = NoRow /\ worker'.at = "claiming"
      /\ worker'.excluded = Occupied
    BY DEF WorkerType, Occupied, Runs, Tasked
<1>2. TypeOK'
    BY <1>1, TypesKept, Types DEF IInv, TypeOK
<1>3. Host'
    BY <1>0, <1>1 DEF Host, Occupied, Tasked, Runs, Running
<1>4. \A m \in Rows : SameRow(m)
    BY <1>0, <1>1, NoRowAssumption DEF SameRow, Host
<1>5. \A r \in Roots : SameRoot(r)
    BY DEF SameRoot
<1> QED
    BY <1>2, <1>3, <1>4, <1>5, NothingMoves

LEMMA WorkerClaimStep == ASSUME IInv, WorkerClaim PROVE IInv'
<1> USE DEF lane, followups
<1>0. Host
    BY DEF IInv
<1>1. \A r \in Roots : SameRoot(r)
    BY DEF WorkerClaim, SameRoot
<1>2. ASSUME WorkerRests, UNCHANGED status PROVE IInv'
  <2>1. TypeOK'
      BY <1>2, RestingIs, TypesKept, Types DEF WorkerClaim, IInv, TypeOK
  <2>2. Host'
      BY <1>0, <1>2, RestingIs DEF WorkerClaim, Host, Tasked, Runs, Running
  <2>3. \A m \in Rows : SameRow(m)
      BY <1>0, <1>2, RestingIs, NoRowAssumption DEF WorkerClaim, SameRow, Host
  <2> QED
      BY <1>1, <2>1, <2>2, <2>3, NothingMoves
<1>3. ASSUME NEW m \in WorkerRow, ClaimWork(m), UNCHANGED mutating,
             worker' = [worker EXCEPT !.at = "holding", !.row = m]
      PROVE  IInv'
  <2>1. m \in Rows /\ RootOf[m] \notin worker.excluded /\ status[m] = "queued"
      BY <1>3, FirstIsOne DEF WorkerRow, Eligible
  <2>2. /\ worker' \in WorkerType /\ worker'.row = m /\ worker'.at = "holding"
        /\ worker'.excluded = worker.excluded
      BY <1>3, <2>1, Types DEF WorkerType
  <2>3. status' \in [Rows -> Status] /\ status'[m] = "running" /\ \A n \in Rows \ {m} : status'[n] = status[n]
      BY <1>3, <2>1, Claimed
  <2>4. TypeOK'
      BY <1>3, <2>2, <2>3, TypesKept, Types DEF WorkerClaim, IInv, TypeOK
  <2>5. Host'
      BY <1>0, <2>1, <2>2, NoRowAssumption DEF WorkerClaim, Host, Tasked, Runs, Running
  <2>6. worker.row = NoRow
      BY <1>0 DEF WorkerClaim, Host
  <2>7. \A n \in Rows \ {m} : SameRow(n)
      BY <2>2, <2>3, <2>6, NoRowAssumption DEF WorkerClaim, SameRow
  <2>8. Accounted(m) /\ Read(m)
      BY <2>1 DEF IInv
  <2>9. ~TaskHas(m)' /\ ~PullHas(m)' /\ ~RunHas(m)' /\ WorkerHas(m)'
      BY <2>1, <2>2, <2>8 DEF WorkerClaim, Accounted, WorkerHas, TaskHas, PullHas, RunHas
  <2>10. (Accounted(m) /\ Read(m))'
      BY <2>1, <2>3, <2>8, <2>9 DEF WorkerClaim, Accounted, Read
  <2> QED
      BY <1>1, <2>1, <2>4, <2>5, <2>7, <2>9, <2>10, OneRowMoves
<1> QED
    BY <1>2, <1>3 DEF WorkerClaim

\* The worker gives its row up without a task for it.
LEMMA WorkerGivesUp ==
    ASSUME IInv, worker.at = "holding", NEW st \in {"queued", "completed", "failed"},
           FinishWork(worker.row, st), WorkerRests \/ WorkerEnds, events' \in Nat,
           st = "completed" => KindOf[worker.row] = "ack",
           UNCHANGED <<inbox, notify, closing, lane, followups, read>>
    PROVE  IInv'
<1> USE DEF lane, followups
<1>0. Host
    BY DEF IInv
<1>r. /\ worker' \in WorkerType /\ worker'.row = NoRow /\ worker'.at \in {"idle", "stopped"}
      /\ mutating' \in {"free", "worker", "settings"}
    BY RestingIs, EndingIs
<1>1. PICK m \in Rows : m = worker.row
    BY WorkerRowIs
<1>2. /\ status[m] = "running" /\ read[m] = 0 /\ RootOf[m] \in Roots
      /\ ~TaskHas(m) /\ ~PullHas(m) /\ ~RunHas(m)
    BY <1>1, WorkerRowIs
<1>3. status' \in [Rows -> Status] /\ status'[m] = st /\ \A n \in Rows \ {m} : status'[n] = status[n]
    BY <1>1, <1>2, Finished DEF Status
<1>4. TypeOK'
    BY <1>3, <1>r, TypesKept, Types DEF IInv, TypeOK
<1>5. Host'
    BY <1>0, <1>r DEF Host, Tasked, Runs, Running
<1>6. \A r \in Roots : SameRoot(r)
    BY DEF SameRoot
<1>7. \A n \in Rows \ {m} : SameRow(n)
    BY <1>1, <1>3, <1>r, NoRowAssumption DEF SameRow
<1>8. ~TaskHas(m)' /\ ~PullHas(m)' /\ ~RunHas(m)' /\ ~WorkerHas(m)'
    BY <1>2, <1>r, NoRowAssumption DEF WorkerHas, TaskHas, PullHas, RunHas
<1>9. Accounted(m)' /\ Read(m)'
    BY <1>1, <1>2, <1>3, <1>8 DEF Accounted, Read
<1> QED
    BY <1>4, <1>5, <1>6, <1>7, <1>8, <1>9, OneRowMoves

LEMMA WorkerReleaseStep == ASSUME IInv, WorkerRelease PROVE IInv'
<1>1. events' \in Nat
    BY DEF WorkerRelease, IInv, TypeOK
<1> QED
    BY <1>1, WorkerGivesUp DEF WorkerRelease, ReleaseWork

LEMMA WorkerAcknowledgeStep == ASSUME IInv, WorkerAcknowledge PROVE IInv'
<1>1. events' \in Nat
    BY DEF WorkerAcknowledge, Event, IInv, TypeOK
<1> QED
    BY <1>1, WorkerGivesUp DEF WorkerAcknowledge

LEMMA WorkerAdmitStep == ASSUME IInv, WorkerAdmit PROVE IInv'
<1> USE DEF followups
<1>0. Host /\ \A n \in Rows : Accounted(n) /\ Read(n) /\ TaskRead(n) /\ RunRead(n)
    BY DEF IInv
<1>1. PICK m \in Rows : m = worker.row
    BY WorkerRowIs DEF WorkerAdmit
<1>2. PICK r \in Roots : r = RootOf[m]
    BY RoutingAssumption
<1>3. /\ status[m] = "running" /\ read[m] = 0 /\ ~TaskHas(m) /\ ~PullHas(m) /\ ~RunHas(m)
      /\ task[r].stage = "none" /\ run[r].kind = "none" /\ Lane(r) /\ ~ExecutionsClosed
    BY <1>1, <1>2, WorkerRowIs DEF WorkerAdmit, CanReserve, Running, IInv
<1>4. task[r].row = NoRow /\ run[r] = NoRun
    BY <1>3 DEF Lane
<1>5. PICK u \in RunType : /\ u.kind = "inbox" /\ u.row = m /\ u.stage = "reserved" /\ ~u.cancel
                           /\ run' = [run EXCEPT ![r] = u]
  <2> DEFINE v == [NoRun EXCEPT !.kind = "inbox", !.row = m, !.stage = "reserved"]
  <2>1. v \in RunType /\ v.kind = "inbox" /\ v.row = m /\ v.stage = "reserved" /\ ~v.cancel
      BY DEF NoRun, RunType
  <2>2. run' = [run EXCEPT ![r] = v]
      BY <1>1, <1>2 DEF WorkerAdmit
  <2> QED
      BY <2>1, <2>2
<1>6. PICK t \in TaskType : /\ t.stage = "created" /\ t.row = m /\ task' = [task EXCEPT ![r] = t]
  <2> DEFINE v == [NoTask EXCEPT !.stage = "created", !.row = m]
  <2>1. v \in TaskType /\ v.stage = "created" /\ v.row = m
      BY DEF NoTask, TaskType
  <2>2. task' = [task EXCEPT ![r] = v]
      BY <1>1, <1>2 DEF WorkerAdmit
  <2> QED
      BY <2>1, <2>2
<1>7. run' \in [Roots -> RunType] /\ run'[r] = u /\ \A q \in Roots \ {r} : run'[q] = run[q]
    BY <1>5, RunSet
<1>8. task' \in [Roots -> TaskType] /\ task'[r] = t /\ \A q \in Roots \ {r} : task'[q] = task[q]
    BY <1>6, TaskSet
<1>9. /\ worker' \in WorkerType /\ worker'.row = NoRow /\ worker'.at = "idle" /\ mutating' = "free"
    BY RestingIs DEF WorkerAdmit
<1>10. claimed[r] = {} /\ pull[r].at = "off" /\ pull[r].row = NoRow /\ pending[r] = NoRow
    BY <1>4, NothingPulled DEF NoRun
<1>11. TypeOK'
    BY <1>7, <1>8, <1>9, TypesKept, Types DEF WorkerAdmit, IInv, TypeOK
<1>12. Host'
    BY <1>0, <1>3, <1>9 DEF WorkerAdmit, Host, ExecutionsClosed
<1>13. \A q \in Roots \ {r} : SameRoot(q)
    BY <1>7, <1>8 DEF WorkerAdmit, SameRoot
<1>14. ASSUME NEW n \in Rows \ {m} PROVE status'[n] = status[n] /\ read'[n] = read[n] /\ SameHold(n)
  <2>1. TaskHas(n)' <=> TaskHas(n)
      BY <1>4, <1>6, <1>8, RoutingAssumption, NoRowAssumption DEF TaskHas
  <2> QED
      BY <1>1, <1>9, <2>1, NoRowAssumption DEF WorkerAdmit, SameHold, WorkerHas, PullHas, RunHas
<1>15. Lane(r)'
    BY <1>2, <1>5, <1>6, <1>7, <1>8, NoRowAssumption DEF Lane
<1>16. Pulls(r)'
    BY <1>10 DEF WorkerAdmit, Pulls
<1>17. (Accounted(m) /\ Read(m))'
  <2>1. TaskHas(m)' /\ ~WorkerHas(m)' /\ ~PullHas(m)' /\ ~RunHas(m)'
      BY <1>2, <1>3, <1>6, <1>8, <1>9, NoRowAssumption DEF WorkerAdmit, TaskHas, WorkerHas, PullHas, RunHas
  <2> QED
      BY <1>0, <1>3, <2>1 DEF WorkerAdmit, Accounted, Read
<1>18. ASSUME NEW n \in Rows, RootOf[n] = r PROVE (TaskRead(n) /\ RunRead(n))'
  <2>1. ~RunHas(n)'
      BY <1>10, <1>18 DEF WorkerAdmit, RunHas
  <2>2. TaskRead(n)'
      BY <1>3, <1>6, <1>8, <1>18 DEF WorkerAdmit, TaskRead, TaskHas
  <2> QED
      BY <2>1, <2>2 DEF RunRead
<1> QED
    BY <1>2, <1>11, <1>12, <1>13, <1>14, <1>15, <1>16, <1>17, <1>18, RowFrame

\* Steps that leave the rows, the roots and the worker's row alone.
LEMMA HostStep ==
    ASSUME IInv, mutating' \in {"free", "worker", "settings"},
           closing' \in {"open", "closing", "stopping", "joining", "closed"},
           closing' \in {"joining", "closed"} => Runs = {},
           worker' \in WorkerType, worker'.row = worker.row, worker'.excluded = worker.excluded \/ worker'.at = "stopped",
           worker'.at = worker.at \/ (worker.at # "holding" /\ worker'.at = "stopped"),
           notify' \subseteq Rows, changed' \in [Roots -> BOOLEAN], events' \in Nat,
           UNCHANGED <<inbox, status, lane, pull, claimed, pending, read>>
    PROVE  IInv'
<1> USE DEF lane
<1>0. Host
    BY DEF IInv
<1>1. TypeOK'
    BY TypesKept, Types DEF IInv, TypeOK
<1>2. Host'
    BY <1>0 DEF Host, Tasked, Runs, Running
<1>3. (\A r \in Roots : SameRoot(r)) /\ \A m \in Rows : SameRow(m)
    BY DEF SameRoot, SameRow
<1> QED
    BY <1>1, <1>2, <1>3, NothingMoves

LEMMA HostTypes == ASSUME IInv PROVE
    /\ mutating \in {"free", "worker", "settings"} /\ closing \in {"open", "closing", "stopping", "joining", "closed"}
    /\ closing \in {"joining", "closed"} => Runs = {}
    /\ worker \in WorkerType /\ notify \subseteq Rows /\ changed \in [Roots -> BOOLEAN] /\ events \in Nat
    BY Types DEF IInv, TypeOK, Host

LEMMA WorkerLeavesStep == ASSUME IInv, WorkerLeaves PROVE IInv'
<1>1. worker' \in WorkerType /\ worker'.row = NoRow /\ worker'.at = "stopped"
    BY DEF WorkerLeaves, Over, Resting, WorkerType
<1>2. worker.row = NoRow
    BY DEF WorkerLeaves, IInv, Host
<1> QED
    BY <1>1, <1>2, HostTypes, HostStep DEF WorkerLeaves, followups

LEMMA WorkerFailsStep == ASSUME IInv, WorkerFails PROVE IInv'
<1>1. worker.row = NoRow /\ worker.at # "holding"
    BY DEF WorkerFails, IInv, Host
<1>2. events' \in Nat
    BY DEF WorkerFails, Event, IInv, TypeOK
<1> QED
    BY <1>1, <1>2, EndingIs, HostTypes, HostStep DEF WorkerFails, followups

LEMMA SettingsStep == ASSUME IInv, BeginMutation \/ EndMutation PROVE IInv'
    BY HostTypes, HostStep DEF BeginMutation, EndMutation, Event, followups

LEMMA CloseStepKeeps == ASSUME IInv, Close \/ AllStopped PROVE IInv'
    BY HostTypes, HostStep DEF Close, AllStopped, CloseTo, Event, followups, lane

LEMMA NotifyStep == ASSUME IInv, NEW m \in Rows, Notify(m) PROVE IInv'
<1>1. RootOf[m] \in Roots /\ notify' \subseteq Rows /\ UNCHANGED <<inbox, status, host, task, pull, claimed, pending, read>>
    BY RoutingAssumption DEF Notify, IInv, TypeOK
<1>2. CASE RequestStop(RootOf[m]) /\ Event /\ UNCHANGED changed
  <2>1. events' \in Nat
      BY <1>2 DEF Event, IInv, TypeOK
  <2> QED
      BY <1>1, <1>2, <2>1, RequestStopKeeps DEF followups
<1>3. CASE changed' \in [Roots -> BOOLEAN] /\ UNCHANGED <<run, events>>
  <2>1. UNCHANGED <<worker, mutating, closing, lane>>
      BY <1>1, <1>3 DEF host, lane
  <2> QED
      BY <1>1, <1>3, <2>1, HostTypes, HostStep
<1>4. \/ RequestStop(RootOf[m]) /\ Event /\ UNCHANGED changed
      \/ changed' \in [Roots -> BOOLEAN] /\ UNCHANGED <<run, events>>
  <2> DEFINE r == RootOf[m]
             b == changed[r] \/ ((Running(r) /\ run[r].row # m) /\ run[r].stage = "producing")
  <2>1. b \in BOOLEAN
      OBVIOUS
  <2>2. changed' = [changed EXCEPT ![r] = b] => changed' \in [Roots -> BOOLEAN]
    <3> HIDE DEF b
    <3> QED
        BY <2>1, HostTypes
  <2>3. \/ RequestStop(r) /\ Event /\ UNCHANGED changed
        \/ changed' = [changed EXCEPT ![r] = b] /\ UNCHANGED <<run, events>>
      BY Zenon DEF Notify
  <2> QED
      BY <2>2, <2>3
<1> QED
    BY <1>2, <1>3, <1>4

LEMMA SubmitStep == ASSUME IInv, NEW m \in Rows, Submit(m) PROVE IInv'
<1> USE DEF host, lane, followups
<1>1. status' \in [Rows -> Status] /\ status'[m] = "queued" /\ \A n \in Rows \ {m} : status'[n] = status[n]
    BY Types DEF Submit, Status
<1>2. inbox' \in Seq(Rows) /\ notify' \subseteq Rows
    BY DEF Submit, IInv, TypeOK
<1>3. TypeOK'
    BY <1>1, <1>2, TypesKept, Types DEF Submit, IInv, TypeOK
<1>4. Host'
    BY Formerly DEF Submit, Host, Tasked, Runs, Running, IInv
<1>5. (\A r \in Roots : SameRoot(r)) /\ \A n \in Rows \ {m} : SameRow(n)
    BY <1>1 DEF Submit, SameRoot, SameRow
<1>6. Accounted(m) /\ Read(m) /\ status[m] = "absent"
    BY DEF Submit, IInv
<1>7. ~TaskHas(m)' /\ ~PullHas(m)' /\ ~RunHas(m)' /\ ~WorkerHas(m)'
    BY <1>6 DEF Submit, Accounted, WorkerHas, TaskHas, PullHas, RunHas
<1>8. (Accounted(m) /\ Read(m))'
    BY <1>1, <1>6, <1>7 DEF Submit, Accounted, Read
<1> QED
    BY <1>3, <1>4, <1>5, <1>7, <1>8, OneRowMoves

-----------------------------------------------------------------------------
(* The end of a close, and a restart. *)

\* A status that is not that of a running row outlives InterruptAll.
LEMMA InterruptAllIs == ASSUME IInv, status' = InterruptAll PROVE
    /\ status' \in [Rows -> Status]
    /\ \A m \in Rows : status'[m] # "running"
    /\ \A m \in Rows : status'[m] \in {"absent", "queued", "completed"} \/ status[m] # "running" => status'[m] = status[m]
    BY Types DEF InterruptAll, Status

\* When everything has been joined, nothing was left to interrupt.
LEMMA NothingInterrupted == ASSUME IInv, InterruptWork PROVE \A m \in Rows : status[m] # "running"
<1> SUFFICES ASSUME NEW m \in Rows PROVE status[m] # "running"
    OBVIOUS
<1>1. Accounted(m) /\ Host /\ RootOf[m] \in Roots /\ Lane(RootOf[m])
    BY RoutingAssumption DEF IInv
<1>2. ~WorkerHas(m)
    BY <1>1, NoRowAssumption DEF InterruptWork, Host, WorkerHas
<1>3. task[RootOf[m]].stage = "none" /\ run[RootOf[m]].kind = "none"
    BY <1>1 DEF InterruptWork, Host, Runs, Running, Tasked
<1>4. task[RootOf[m]].row = NoRow /\ run[RootOf[m]].stage = "none"
    BY <1>1, <1>3 DEF Lane, NoRun
<1>5. ~TaskHas(m) /\ ~PullHas(m) /\ ~RunHas(m)
    BY <1>1, <1>4, NothingPulled, NoRowAssumption DEF TaskHas, PullHas, RunHas
<1> QED
    BY <1>1, <1>2, <1>5 DEF Accounted

LEMMA InterruptWorkStep == ASSUME IInv, InterruptWork PROVE IInv'
<1>1. status' \in [Rows -> Status] /\ \A m \in Rows : status'[m] = status[m]
    BY InterruptAllIs, NothingInterrupted DEF InterruptWork
<1>2. status' = status
    BY <1>1, Types
<1>3. Runs = {}
    BY DEF InterruptWork, IInv, Host
<1> QED
    BY <1>2, <1>3, HostTypes, HostStep DEF InterruptWork, CloseTo, followups, lane

LEMMA RestartStep == ASSUME IInv, Restart PROVE IInv'
<1>0. \A m \in Rows : Accounted(m) /\ Read(m)
    BY DEF IInv
<1>1. worker' \in WorkerType /\ worker'.row = NoRow /\ worker'.at = "idle"
    BY EmptyTypes DEF Restart, Resting
<1>2. /\ task' \in [Roots -> TaskType] /\ run' \in [Roots -> RunType] /\ pull' \in [Roots -> PullType]
      /\ claimed' \in [Roots -> SUBSET Rows] /\ pending' \in [Roots -> Rows \cup {NoRow}]
      /\ changed' \in [Roots -> BOOLEAN] /\ events' \in Nat
    BY EmptyTypes, HostTypes DEF Restart, Event
<1>3. status' \in [Rows -> Status]
    BY InterruptAllIs DEF Restart
<1>4. TypeOK'
    BY <1>1, <1>2, <1>3, TypesKept DEF Restart, IInv, TypeOK
<1>5. Host'
    BY <1>1 DEF Restart, Host, Tasked
<1>6. ASSUME NEW r \in Roots PROVE (Lane(r) /\ Pulls(r))'
  <2>1. /\ task'[r] = NoTask /\ run'[r] = NoRun /\ pull'[r] = NoPull
        /\ claimed'[r] = {} /\ pending'[r] = NoRow
      BY DEF Restart
  <2>2. Lane(r)'
      BY <2>1 DEF Lane, NoTask, NoRun
  <2>3. Pulls(r)'
      BY <2>1 DEF Pulls, NoPull
  <2> QED
      BY <2>2, <2>3
<1>7. ASSUME NEW m \in Rows PROVE (Accounted(m) /\ Read(m) /\ TaskRead(m) /\ RunRead(m))'
  <2>1. ~TaskHas(m)' /\ ~PullHas(m)' /\ ~RunHas(m)' /\ ~WorkerHas(m)'
      BY <1>1, RoutingAssumption, NoRowAssumption
      DEF Restart, WorkerHas, TaskHas, PullHas, RunHas, NoTask, NoPull
  <2>2. Accounted(m)'
      BY <2>1, InterruptAllIs DEF Restart, Accounted
  <2>3. Read(m)'
      BY <1>0, <2>1, InterruptAllIs DEF Restart, Read
  <2> QED
      BY <2>1, <2>2, <2>3 DEF TaskRead, RunRead
<1> QED
    BY <1>4, <1>5, <1>6, <1>7 DEF IInv
-----------------------------------------------------------------------------
LEMMA InitIInv == Init => IInv
<1> SUFFICES ASSUME Init PROVE IInv
    OBVIOUS
<1>1. worker \in WorkerType /\ worker.row = NoRow /\ worker.at = "idle"
    BY EmptyTypes DEF Init, Resting
<1>2. TypeOK
  <2>1. inbox \in Seq(Rows) /\ notify \subseteq Rows /\ events \in Nat
      BY DEF Init
  <2>2. /\ task \in [Roots -> TaskType] /\ run \in [Roots -> RunType] /\ pull \in [Roots -> PullType]
        /\ claimed \in [Roots -> SUBSET Rows] /\ pending \in [Roots -> Rows \cup {NoRow}]
        /\ changed \in [Roots -> BOOLEAN]
      BY EmptyTypes DEF Init
  <2>3. status \in [Rows -> Status] /\ read \in [Rows -> Nat]
      BY DEF Init, Status
  <2>4. mutating \in {"free", "worker", "settings"} /\ closing \in {"open", "closing", "stopping", "joining", "closed"}
      BY DEF Init
  <2> QED
      BY <1>1, <2>1, <2>2, <2>3, <2>4 DEF TypeOK, Status, WorkerType, TaskType, RunType, PullType
<1>3. Host
    BY <1>1 DEF Init, Host, Tasked
<1>4. ASSUME NEW r \in Roots PROVE Lane(r) /\ Pulls(r)
  <2>1. task[r] = NoTask /\ run[r] = NoRun /\ pull[r] = NoPull /\ claimed[r] = {} /\ pending[r] = NoRow
      BY DEF Init
  <2>2. Lane(r)
      BY <2>1 DEF Lane, NoTask, NoRun
  <2>3. Pulls(r)
      BY <2>1 DEF Pulls, NoPull
  <2> QED
      BY <2>2, <2>3
<1>5. ASSUME NEW m \in Rows PROVE Accounted(m) /\ Read(m) /\ TaskRead(m) /\ RunRead(m)
  <2>1. ~TaskHas(m) /\ ~PullHas(m) /\ ~RunHas(m) /\ ~WorkerHas(m)
      BY <1>1, RoutingAssumption, NoRowAssumption
      DEF Init, WorkerHas, TaskHas, PullHas, RunHas, NoTask, NoPull
  <2>2. Accounted(m) /\ Read(m)
      BY <2>1 DEF Init, Accounted, Read
  <2> QED
      BY <2>1, <2>2 DEF TaskRead, RunRead
<1> QED
    BY <1>2, <1>3, <1>4, <1>5 DEF IInv

LEMMA NextIInv == IInv /\ [Next]_vars => IInv'
<1> SUFFICES ASSUME IInv, [Next]_vars PROVE IInv'
    OBVIOUS
<1>1. ASSUME WorkerStep PROVE IInv'
    BY <1>1, WorkerPollStep, WorkerClaimStep, WorkerAdmitStep, WorkerReleaseStep, WorkerAcknowledgeStep,
       WorkerLeavesStep DEF WorkerStep
<1>2. ASSUME CloseStep PROVE IInv'
    BY <1>2, StopAllStep, CloseStepKeeps, InterruptWorkStep DEF CloseStep
<1>3. ASSUME WorkerFails \/ BeginMutation \/ EndMutation \/ Close \/ Restart PROVE IInv'
    BY <1>3, WorkerFailsStep, SettingsStep, CloseStepKeeps, RestartStep
<1>4. ASSUME NEW m \in Rows, Submit(m) \/ Notify(m) PROVE IInv'
    BY <1>4, SubmitStep, NotifyStep
<1>5. ASSUME NEW r \in Roots, Stop(r) \/ ReserveWakeup(r) \/ LaunchTask(r) PROVE IInv'
    BY <1>5, StopStep, ReserveWakeupStep, LaunchTaskStep
<1>6. ASSUME NEW r \in Roots, TaskStep(r) PROVE IInv'
    BY <1>6, StartClaimStep, CleanClaimStep, ValidateStep, FinishTaskStep DEF TaskStep
<1>7. ASSUME NEW r \in Roots, RunStep(r) PROVE IInv'
    BY <1>7, StartWakeStep, BeginStep, BeginFailsStep, CompactStep, PullBeginStep, PullClaimStep, PullTakeStep,
       PullReleaseStep, SkillGoneStep, FollowupStep, DecideStep, AbortStep, SettleStep, DrainedStep DEF RunStep
<1>8. CASE UNCHANGED vars
  <2>1. Host' /\ (\A r \in Roots : SameRoot(r)) /\ \A m \in Rows : SameRow(m)
      BY <1>8, Formerly DEF vars, host, lane, followups, SameRoot, SameRow, Host, Tasked, Runs, Running, IInv
  <2>2. TypeOK'
      BY <1>8 DEF vars, host, lane, followups, IInv, TypeOK
  <2> QED
      BY <2>1, <2>2, NothingMoves
<1> QED
    BY <1>1, <1>2, <1>3, <1>4, <1>5, <1>6, <1>7, <1>8 DEF Next
-----------------------------------------------------------------------------
\* The places that hold a row, told apart.
LEMMA OwnersAre == ASSUME IInv, NEW m \in Rows PROVE
    Owners(m) = {o \in {<<"worker", RootOf[m]>>} : WorkerHas(m)} \cup {o \in {<<"task", RootOf[m]>>} : TaskHas(m)}
                    \cup {o \in {<<"pull", RootOf[m]>>} : PullHas(m)} \cup {o \in {<<"claimed", RootOf[m]>>} : RunHas(m)}
<1>1. \A r \in Roots : (task[r].row = m <=> r = RootOf[m] /\ TaskHas(m))
    BY NoRowAssumption DEF IInv, Lane, TaskHas
<1>2. \A r \in Roots : (pull[r].row = m <=> r = RootOf[m] /\ PullHas(m))
    BY NoRowAssumption DEF IInv, Pulls, PullHas
<1>3. \A r \in Roots : (m \in claimed[r] <=> r = RootOf[m] /\ RunHas(m))
    BY DEF IInv, Pulls, RunHas
<1>4. RootOf[m] \in Roots
    BY RoutingAssumption
<1>5. {<<"worker", r>> : r \in {r \in Roots : worker.row = m /\ RootOf[m] = r}} = {o \in {<<"worker", RootOf[m]>>} : WorkerHas(m)}
    BY <1>4 DEF WorkerHas
<1>6. {<<"task", r>> : r \in {r \in Roots : task[r].row = m}} = {o \in {<<"task", RootOf[m]>>} : TaskHas(m)}
    BY <1>1, <1>4
<1>7. {<<"pull", r>> : r \in {r \in Roots : pull[r].row = m}} = {o \in {<<"pull", RootOf[m]>>} : PullHas(m)}
    BY <1>2, <1>4
<1>8. {<<"claimed", r>> : r \in {r \in Roots : m \in claimed[r]}} = {o \in {<<"claimed", RootOf[m]>>} : RunHas(m)}
    BY <1>3, <1>4
<1> QED
    BY <1>5, <1>6, <1>7, <1>8 DEF Owners

LEMMA OneOwner == ASSUME IInv, NEW m \in Rows PROVE Cardinality(Owners(m)) = IF status[m] = "running" THEN 1 ELSE 0
<1>1. Accounted(m)
    BY DEF IInv
<1>2. CASE status[m] # "running"
  <2>1. Owners(m) = {}
      BY <1>1, <1>2, OwnersAre DEF Accounted
  <2> QED
      BY <1>2, <2>1, FS_EmptySet
<1>3. CASE status[m] = "running"
  <2>1. PICK o : Owners(m) = {o}
    <3>1. CASE WorkerHas(m)
        BY <1>1, <3>1, OwnersAre DEF Accounted
    <3>2. CASE TaskHas(m)
        BY <1>1, <3>2, OwnersAre DEF Accounted
    <3>3. CASE PullHas(m)
        BY <1>1, <3>3, OwnersAre DEF Accounted
    <3>4. CASE RunHas(m)
        BY <1>1, <3>4, OwnersAre DEF Accounted
    <3> QED
        BY <1>1, <1>3, <3>1, <3>2, <3>3, <3>4 DEF Accounted
  <2> QED
      BY <1>3, <2>1, FS_Singleton
<1> QED
    BY <1>2, <1>3

LEMMA AccountedFollows == IInv => AcceptedIsAccounted
<1> SUFFICES ASSUME IInv PROVE AcceptedIsAccounted
    OBVIOUS
<1>1. RunningHasOneOwner
    BY OneOwner DEF RunningHasOneOwner
<1>2. \A m \in Rows : Read(m)
    BY DEF IInv
<1>3. ReadAtMostOnce /\ CompletedWasRead
    BY <1>2 DEF ReadAtMostOnce, CompletedWasRead, Read
<1> QED
    BY <1>1, <1>3 DEF AcceptedIsAccounted, StatusIsHonest

(* The variables of the web host keep their types. *)
THEOREM TypeCorrect == Spec => []TypeOK
<1>1. IInv => TypeOK
    BY DEF IInv
<1> QED
    BY <1>1, InitIInv, NextIInv, PTL DEF Spec

(* Every accepted message is accounted for, in whatever order claims,       *)
(* pulls, stops, closes, failures and restarts come: a row marked running   *)
(* has exactly one owner, a model is given a row at most once, a row that   *)
(* waits has not been read, and a completed one was (RoutingStore, the      *)
(* inbox worker, execute_claim and QueuedInputs).                           *)
THEOREM MessagesAccounted == Spec => []AcceptedIsAccounted
    BY InitIInv, NextIInv, AccountedFollows, PTL DEF Spec

(* A root's task and its run are about the same row and agree on how far    *)
(* it is, and only a run that takes turns holds follow-ups: what any step   *)
(* of execute_claim, the producer or a stop may rely on.                    *)
THEOREM LanesAgree == Spec => []\A r \in Roots : Lane(r) /\ Pulls(r)
<1>1. IInv => \A r \in Roots : Lane(r) /\ Pulls(r)
    BY DEF IInv
<1> QED
    BY <1>1, InitIInv, NextIInv, PTL DEF Spec
=============================================================================
