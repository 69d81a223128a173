------------------------- MODULE SubagentTree_proofs -------------------------
(***************************************************************************)
(* What one tree of child tasks keeps to, for any number of tasks and of   *)
(* calls, any depth and any quotas: the budget and the slots, the          *)
(* agreement of the root's run with what runs below it, and the order in   *)
(* which subtrees end.                                                     *)
(***************************************************************************)
EXTENDS SubagentTree, FiniteSetTheorems, SequenceTheorems, TLAPS

\* Calls in progress, and those among them that hold a slot.
Held == {k \in Calls : calls[k] # NoCall}
Slots == Reserving \cup Activating

\* A call is at a position of its operation, its caller and its task are known.
CallShape(c) ==
    \/ c = NoCall
    \/ c.op = "start" /\ c.pc = "reserve" /\ c.by \in Registered \cup {Root}
    \/ c.op = "start" /\ c.pc \in {"emit", "unstart"} /\ c.by \in Registered \cup {Root}
       /\ c.task \in Registered
    \/ c.op = "continue" /\ c.pc \in {"host", "root"} /\ c.task \in Registered

Shaped == \A k \in Calls : CallShape(calls[k])

\* A registered task descends from the root through registered tasks and not from
\* itself; one that is not has no worker.
Descent(t) ==
    /\ t \in Registered => Root \in Above(t) /\ Above(t) \subseteq Registered \cup {Root}
    /\ t \notin Above(t)
    /\ t \notin Registered => work[t] = "none" /\ status[t] = "none"

\* Only a running manager is active, and only a live worker is to be cancelled.
Manager(t) ==
    /\ active[t] => work[t] \in {"model", "wait"}
    /\ cancel[t] => t \in Live

Family == \A t \in Tasks : Descent(t) /\ Manager(t)

\* Below a worker that has not run its manager yet, or was killed, nothing lives.
Clear ==
    \A t \in Tasks : work[t] \in {"killed", "gated", "new", "setup"} => Live \cap Below(t) = {}

\* An end() that joins its workers waits for every live task below it, or for an
\* ancestor of it that lives.
Awaited ==
    \A s \in Tasks : work[s] = "ending" =>
        \A x \in Live \cap Below(s) : \E y \in joining[s] \cap Live : y = x \/ y \in Above(x)

\* The root's manager is active exactly while its run can still go on, at most one
\* continuation is its own, and its end() joins all that lives.
RootRun ==
    /\ phase \in {"idle", "stopping", "ending"} => ~active[Root]
    /\ phase \in {"model", "scan", "activate", "wait"} => active[Root]
    /\ phase = "ending" => Live \subseteq joining[Root]
    /\ \A k \in Calls : calls[k].pc = "root" =>
        phase = "activate" /\ \A j \in Calls : calls[j].pc = "root" => j = k

\* Whoever cancelled a worker that has not noticed is still there to join it.
Cancellers ==
    \A t \in Tasks : cancel[t] =>
        \/ phase = "ending"
        \/ \E k \in Calls : calls[k].pc = "unstart" /\ calls[k].task = t
        \/ \E s \in Tasks : work[s] = "ending" /\ t \in joining[s]

\* The inductive invariant.
Quotas == TypeOK /\ Shaped /\ QuotasHold
Order == Family /\ Clear /\ Awaited
IInv == Quotas /\ Order /\ RootRun /\ Cancellers /\ RootAgreesWithTree

-----------------------------------------------------------------------------
(* Finite sets, and the lineage of a new task *)

LEMMA TreeConstants ==
  /\ Root \in Agents /\ Tasks \subseteq Agents /\ Root \notin Tasks
  /\ NoTask \notin Tasks /\ IsFiniteSet(Tasks) /\ IsFiniteSet(Calls)
  /\ MaxSlots \in Nat /\ MaxExecutions \in Nat
  BY TreeAssumption DEF Agents

\* What a sequence with an element put in front of it holds.
LEMMA Prefixed ==
  ASSUME NEW S, NEW e \in S, NEW q \in Seq(S)
  PROVE  /\ <<e>> \o q \in Seq(S)
         /\ <<e>> \o q # <<>>
         /\ {(<<e>> \o q)[i] : i \in 1..Len(<<e>> \o q)} = {e} \cup {q[i] : i \in 1..Len(q)}
<1> DEFINE r == <<e>> \o q
<1>1. <<e>> \in Seq(S) /\ Len(<<e>>) = 1 /\ <<e>>[1] = e
  OBVIOUS
<1>2. Len(q) \in Nat
  BY LenProperties
<1>3. r \in Seq(S) /\ Len(r) = 1 + Len(q)
  BY <1>1, ConcatProperties
<1>4. r[1] = e
  BY <1>1, <1>2, ConcatProperties
<1>5. ASSUME NEW i \in 1..Len(q)
      PROVE  r[i + 1] = q[i] /\ i + 1 \in 1..Len(r)
  <2>1. i + 1 \in 1 .. (Len(<<e>>) + Len(q)) /\ i + 1 > 1 /\ (i + 1) - 1 = i
    BY <1>1, <1>2, <1>5
  <2> QED
    BY <2>1, <1>1, <1>2, <1>3, ConcatProperties
<1>6. r # <<>>
  BY <1>2, <1>3
<1>7. {r[i] : i \in 1..Len(r)} \subseteq {e} \cup {q[i] : i \in 1..Len(q)}
  <2>1. SUFFICES ASSUME NEW j \in 1..Len(r)
                 PROVE  r[j] \in {e} \cup {q[i] : i \in 1..Len(q)}
    OBVIOUS
  <2>2. CASE j = 1
    BY <2>2, <1>4
  <2>3. CASE j # 1
    <3>1. j - 1 \in 1..Len(q) /\ (j - 1) + 1 = j
      BY <2>3, <1>2, <1>3
    <3> QED
      BY <3>1, <1>5
  <2> QED
    BY <2>2, <2>3
<1>8. {e} \cup {q[i] : i \in 1..Len(q)} \subseteq {r[i] : i \in 1..Len(r)}
  <2>1. 1 \in 1..Len(r)
    BY <1>2, <1>3
  <2> HIDE DEF r
  <2>2. \A i \in 1..Len(q) : q[i] \in {r[j] : j \in 1..Len(r)}
    BY <1>5
  <2> QED
    BY <2>1, <2>2, <1>4
<1> QED
  BY <1>3, <1>6, <1>7, <1>8

LEMMA Grown ==
  ASSUME NEW S, NEW x, IsFiniteSet(S)
  PROVE  /\ IsFiniteSet(S \cup {x}) /\ Cardinality(S \cup {x}) \in Nat
         /\ Cardinality(S \cup {x}) <= Cardinality(S) + 1
<1>1. IsFiniteSet(S \cup {x}) /\ Cardinality(S) \in Nat
  BY FS_AddElement, FS_CardinalityType
<1>2. Cardinality(S \cup {x}) = IF x \in S THEN Cardinality(S) ELSE Cardinality(S) + 1
  BY FS_AddElement
<1> QED
  BY <1>1, <1>2, FS_CardinalityType

LEMMA Shrunk ==
  ASSUME NEW S, NEW x \in S, IsFiniteSet(S)
  PROVE  /\ IsFiniteSet(S \ {x}) /\ Cardinality(S \ {x}) \in Nat
         /\ Cardinality(S \ {x}) = Cardinality(S) - 1
<1>1. IsFiniteSet(S \ {x}) /\ Cardinality(S \ {x}) = Cardinality(S) - 1
  BY FS_RemoveElement
<1> QED
  BY <1>1, FS_CardinalityType

LEMMA Finiteness ==
  /\ IsFiniteSet(Held) /\ Cardinality(Held) \in Nat
  /\ IsFiniteSet(Slots) /\ Cardinality(Slots) \in Nat
  /\ IsFiniteSet(Occupied) /\ Cardinality(Occupied) \in Nat
<1>1. Held \subseteq Calls /\ Slots \subseteq Calls /\ Occupied \subseteq Tasks
  BY DEF Held, Slots, Reserving, Activating, Occupied, Registered, Live
<1> QED
  BY <1>1, TreeConstants, FS_Subset, FS_CardinalityType

-----------------------------------------------------------------------------
(* The quotas *)

\* Fewer reservations and tasks keep to the slots.
LEMMA SlotsKept ==
  ASSUME SlotsBounded, Slots' \subseteq Slots, Occupied' \subseteq Occupied
  PROVE  SlotsBounded'
<1>1. Cardinality(Slots') <= Cardinality(Slots) /\ Cardinality(Occupied') <= Cardinality(Occupied)
  BY Finiteness, FS_Subset
<1>2. Cardinality(Slots') \in Nat /\ Cardinality(Occupied') \in Nat
  BY Finiteness, <1>1, FS_Subset, FS_CardinalityType
<1> QED
  BY <1>1, <1>2, Finiteness, TreeConstants DEF SlotsBounded, Starting, Slots

\* A reservation takes a slot that was free.
LEMMA SlotTaken ==
  ASSUME NEW k, Slot(0), Slots' \subseteq Slots \cup {k}, Occupied' \subseteq Occupied
  PROVE  SlotsBounded'
<1>1. /\ IsFiniteSet(Slots \cup {k})
      /\ Cardinality(Slots \cup {k}) <= Cardinality(Slots) + 1
      /\ Cardinality(Slots \cup {k}) \in Nat
  BY Finiteness, Grown
<1>2. /\ Cardinality(Slots') <= Cardinality(Slots \cup {k})
      /\ Cardinality(Occupied') <= Cardinality(Occupied)
      /\ Cardinality(Slots') \in Nat /\ Cardinality(Occupied') \in Nat
  BY <1>1, Finiteness, FS_Subset, FS_CardinalityType
<1> QED
  BY <1>1, <1>2, Finiteness, TreeConstants DEF SlotsBounded, Starting, Slots, Slot

\* A reservation becomes a task.
LEMMA SlotUsed ==
  ASSUME NEW k \in Slots, NEW t, SlotsBounded,
         Slots' \subseteq Slots \ {k}, Occupied' \subseteq Occupied \cup {t}
  PROVE  SlotsBounded'
<1>1. /\ IsFiniteSet(Slots \ {k}) /\ IsFiniteSet(Occupied \cup {t})
      /\ Cardinality(Slots \ {k}) = Cardinality(Slots) - 1
      /\ Cardinality(Occupied \cup {t}) <= Cardinality(Occupied) + 1
      /\ Cardinality(Slots \ {k}) \in Nat /\ Cardinality(Occupied \cup {t}) \in Nat
  BY Finiteness, Grown, Shrunk
<1>2. /\ Cardinality(Slots') <= Cardinality(Slots \ {k})
      /\ Cardinality(Occupied') <= Cardinality(Occupied \cup {t})
      /\ Cardinality(Slots') \in Nat /\ Cardinality(Occupied') \in Nat
  BY <1>1, FS_Subset, FS_CardinalityType
<1> QED
  BY <1>1, <1>2, Finiteness, TreeConstants DEF SlotsBounded, Starting, Slots

\* What replacing one call by another does to the calls in progress.
LEMMA OneCall ==
  ASSUME TypeOK, NEW k \in Calls, NEW c, calls' = [calls EXCEPT ![k] = c]
  PROVE  /\ \A j \in Calls : j # k => calls'[j] = calls[j]
         /\ calls'[k] = c
         /\ Held' = IF c = NoCall THEN Held \ {k} ELSE Held \cup {k}
  BY DEF TypeOK, Held

\* A call takes a unit of the budget.
LEMMA UnitTaken ==
  ASSUME TypeOK, BudgetExact, NEW k \in Calls, NEW c, calls[k] = NoCall, c # NoCall,
         calls' = [calls EXCEPT ![k] = c], used < MaxExecutions,
         used' = used + 1, started' = started
  PROVE  BudgetExact' /\ used' \in Nat
<1>1. k \notin Held /\ Held' = Held \cup {k}
  BY OneCall DEF Held
<1>2. Cardinality(Held') = Cardinality(Held) + 1
  BY <1>1, Finiteness, FS_AddElement
<1>3. used \in Nat /\ started \in Nat
  BY DEF TypeOK
<1> QED
  BY <1>2, <1>3, Finiteness, TreeConstants DEF BudgetExact, Held

\* A call gives its unit back, or leaves it to the execution it started.
LEMMA UnitLeft ==
  ASSUME TypeOK, BudgetExact, NEW k \in Calls, calls[k] # NoCall,
         calls' = [calls EXCEPT ![k] = NoCall],
         \/ used' = used - 1 /\ started' = started
         \/ used' = used /\ started' = started + 1
  PROVE  BudgetExact' /\ used' \in Nat /\ started' \in Nat
<1>1. k \in Held /\ Held' = Held \ {k}
  BY OneCall DEF Held
<1>2. Cardinality(Held') = Cardinality(Held) - 1
  BY <1>1, Finiteness, FS_RemoveElement
<1>3. Cardinality(Held') \in Nat
  BY <1>1, Finiteness, FS_RemoveElement, FS_CardinalityType
<1>4. used \in Nat /\ started \in Nat
  BY DEF TypeOK
<1> QED
  BY <1>2, <1>3, <1>4, Finiteness, TreeConstants DEF BudgetExact, Held

\* A call goes on.
LEMMA UnitKept ==
  ASSUME TypeOK, BudgetExact, NEW k \in Calls, NEW c, calls[k] # NoCall, c # NoCall,
         calls' = [calls EXCEPT ![k] = c], UNCHANGED budget
  PROVE  BudgetExact'
<1>1. Held' = Held
  BY OneCall DEF Held
<1> QED
  BY <1>1 DEF BudgetExact, Held, budget

-----------------------------------------------------------------------------
(* The steps of the workers and of the root's run start no task and no call *)

WorkerStep(t) ==
    \/ RunChild(t) \/ CreateFails(t) \/ BeginGroup(t) \/ NextInput(t) \/ Wake(t)
    \/ RunFails(t) \/ Cancelled(t) \/ StopWorkers(t) \/ Finish(t)

\* Nothing new runs, no task or call is added.
Quiet ==
    /\ UNCHANGED <<lineage, calls>>
    /\ Live' \subseteq Live
    /\ \A t \in Tasks : status'[t] = "running" => status[t] = "running"

LEMMA StopTypes ==
  ASSUME TypeOK, NEW a \in Agents
  PROVE  /\ StoppedBy(a) \in [Agents -> BOOLEAN]
         /\ EndGroup(a) => active' \in [Agents -> BOOLEAN] /\ stopped' \in [Agents -> BOOLEAN]
         /\ CancelBelow(a) => cancel' \in [Tasks -> BOOLEAN] /\ joining' \in [Agents -> SUBSET Tasks]
         /\ CancelledBelow(a) \in [Tasks -> {"none", "running", "completed", "failed", "cancelled"}]
<1>1. StoppedBy(a) \in [Agents -> BOOLEAN]
  BY DEF StoppedBy, TypeOK
<1>2. EndGroup(a) => active' \in [Agents -> BOOLEAN] /\ stopped' \in [Agents -> BOOLEAN]
  BY <1>1 DEF EndGroup, TypeOK
<1>3. CancelBelow(a) => cancel' \in [Tasks -> BOOLEAN] /\ joining' \in [Agents -> SUBSET Tasks]
  BY DEF CancelBelow, TypeOK, Live
<1>4. CancelledBelow(a) \in [Tasks -> {"none", "running", "completed", "failed", "cancelled"}]
  BY DEF CancelledBelow, TypeOK
<1> QED
  BY <1>1, <1>2, <1>3, <1>4

LEMMA PublishTypes ==
  ASSUME TypeOK, NEW t \in Tasks, Publish(t)
  PROVE  /\ changed' \in [Agents -> BOOLEAN] /\ ready' \in [Agents -> SUBSET Tasks]
         /\ pending' \in [Tasks -> SUBSET Tasks]
<1> DEFINE p == Parent(t)
<1>1. /\ changed \in [Agents -> BOOLEAN] /\ ready \in [Agents -> SUBSET Tasks]
      /\ pending \in [Tasks -> SUBSET Tasks]
  BY DEF TypeOK
<1>2. /\ \/ changed' = changed
         \/ changed' = [changed EXCEPT ![Root] = TRUE]
         \/ changed' = [changed EXCEPT ![Root] = TRUE, ![p] = TRUE]
      /\ \/ ready' = ready
         \/ ready' = [ready EXCEPT ![Root] = @ \cup {t}]
         \/ ready' = [ready EXCEPT ![p] = @ \cup {t}]
      /\ pending' = pending \/ pending' = [pending EXCEPT ![p] = @ \cup {t}]
  BY Zenon DEF Publish, inbox
<1> HIDE DEF p
<1>3. changed' \in [Agents -> BOOLEAN]
  BY <1>1, <1>2
<1>4. ready' \in [Agents -> SUBSET Tasks]
  BY <1>1, <1>2
<1>5. pending' \in [Tasks -> SUBSET Tasks]
  BY <1>1, <1>2
<1> QED
  BY <1>3, <1>4, <1>5

\* What the steps of a worker leave alone, and the types of what they change.
LEMMA WorkerSteps ==
  ASSUME TypeOK, NEW t \in Tasks, WorkerStep(t)
  PROVE  /\ TypeOK'
         /\ Quiet /\ UNCHANGED <<phase, todo, used, started>>
         /\ active'[Root] = active[Root]
         /\ \A x \in Tasks : x # t => work'[x] = work[x]
<1> USE TreeConstants DEF rootvars, inbox, tasksv, budget
<1>1. CASE RunChild(t)
  BY <1>1 DEF RunChild, TypeOK, Quiet, Live, Ended
<1>2. CASE CreateFails(t)
  BY <1>2, PublishTypes DEF CreateFails, TypeOK, Quiet, Live, Ended
<1>3. CASE BeginGroup(t)
  BY <1>3 DEF BeginGroup, TypeOK, Quiet, Live, Ended
<1>4. CASE NextInput(t)
  <2>1. /\ active' \in [Agents -> BOOLEAN] /\ stopped' \in [Agents -> BOOLEAN]
        /\ active'[Root] = active[Root]
    BY <1>4, StopTypes DEF NextInput, TypeOK, EndGroup
  <2>2. Quiet /\ UNCHANGED <<phase, todo, used, started>>
        /\ \A x \in Tasks : x # t => work'[x] = work[x]
    BY <1>4 DEF NextInput, TypeOK, Quiet, Live, Ended
  <2>3. TypeOK'
    <3>1. /\ work' = work \/ \E w \in {"wait", "stopping"} : work' = [work EXCEPT ![t] = w]
          /\ ready' = ready \/ ready' = [ready EXCEPT ![t] = {}]
          /\ changed' = changed \/ changed' = [changed EXCEPT ![t] = FALSE]
          /\ UNCHANGED <<rootvars, pending, lineage, status, cancel, joining, budget, calls>>
      BY <1>4 DEF NextInput
    <3>2. work' \in [Tasks -> Ended \cup {"gated", "new", "setup", "model", "wait",
                                          "stopping", "ending"}]
      BY <3>1 DEF TypeOK
    <3>3. ready' \in [Agents -> SUBSET Tasks]
      BY <3>1 DEF TypeOK
    <3>4. changed' \in [Agents -> BOOLEAN]
      BY <3>1 DEF TypeOK
    <3> QED
      BY <2>1, <3>1, <3>2, <3>3, <3>4 DEF TypeOK
  <2> QED
    BY <2>1, <2>2, <2>3
<1>5. CASE Wake(t)
  BY <1>5 DEF Wake, TypeOK, Quiet, Live, Ended
<1>6. CASE RunFails(t)
  <2>1. /\ active' \in [Agents -> BOOLEAN] /\ stopped' \in [Agents -> BOOLEAN]
        /\ active'[Root] = active[Root]
    BY <1>6, StopTypes DEF RunFails, TypeOK, EndGroup
  <2>2. Quiet /\ UNCHANGED <<phase, todo, used, started>>
        /\ \A x \in Tasks : x # t => work'[x] = work[x]
    BY <1>6 DEF RunFails, TypeOK, Quiet, Live, Ended
  <2>3. TypeOK'
    BY <1>6, <2>1 DEF RunFails, TypeOK
  <2> QED
    BY <2>1, <2>2, <2>3
<1>7. CASE Cancelled(t)
  <2>1. /\ active' \in [Agents -> BOOLEAN] /\ stopped' \in [Agents -> BOOLEAN]
        /\ active'[Root] = active[Root]
    BY <1>7, StopTypes DEF Cancelled, TypeOK, EndGroup
  <2>2. Quiet /\ UNCHANGED <<phase, todo, used, started>>
        /\ \A x \in Tasks : x # t => work'[x] = work[x]
    BY <1>7 DEF Cancelled, TypeOK, Quiet, Live, Ended
  <2>3. TypeOK'
    BY <1>7, <2>1 DEF Cancelled, TypeOK, Ended
  <2> QED
    BY <2>1, <2>2, <2>3
<1>8. CASE StopWorkers(t)
  <2>1. cancel' \in [Tasks -> BOOLEAN] /\ joining' \in [Agents -> SUBSET Tasks]
    BY <1>8, StopTypes DEF StopWorkers
  <2>2. Quiet /\ UNCHANGED <<phase, todo, used, started>>
        /\ \A x \in Tasks : x # t => work'[x] = work[x]
    BY <1>8 DEF StopWorkers, TypeOK, Quiet, Live, Ended
  <2>3. TypeOK' /\ active' = active
    BY <1>8, <2>1 DEF StopWorkers, TypeOK
  <2> QED
    BY <2>1, <2>2, <2>3
<1>9. CASE Finish(t)
  <2>1. /\ CancelledBelow(t) \in [Tasks -> {"none", "running", "completed", "failed", "cancelled"}]
        /\ changed' \in [Agents -> BOOLEAN] /\ ready' \in [Agents -> SUBSET Tasks]
        /\ pending' \in [Tasks -> SUBSET Tasks]
    BY <1>9, StopTypes, PublishTypes DEF Finish
  <2>2. /\ status' \in [Tasks -> {"none", "running", "completed", "failed", "cancelled"}]
        /\ \A x \in Tasks : status'[x] = "running" => CancelledBelow(t)[x] = "running"
    BY <1>9, <2>1 DEF Finish
  <2>3. \A x \in Tasks : CancelledBelow(t)[x] = "running" => status[x] = "running"
    BY DEF CancelledBelow
  <2>4. UNCHANGED <<lineage, calls, phase, todo, used, started, active>> /\ Live' \subseteq Live
        /\ \A x \in Tasks : x # t => work'[x] = work[x]
    BY <1>9 DEF Finish, TypeOK, Live, Ended
  <2>5. TypeOK'
    BY <1>9, <2>1, <2>2 DEF Finish, TypeOK, Ended
  <2> QED
    BY <2>2, <2>3, <2>4, <2>5 DEF Quiet
<1> QED
  BY <1>1, <1>2, <1>3, <1>4, <1>5, <1>6, <1>7, <1>8, <1>9 DEF WorkerStep

\* The quotas of a step that starts nothing and moves no call.
LEMMA QuietKeepsQuotas ==
  ASSUME Quotas, TypeOK', Quiet,
         \/ UNCHANGED budget
         \/ Held = {} /\ used' = 0 /\ started' = 0
  PROVE  Quotas'
<1>1. Registered' = Registered /\ Slots' = Slots /\ Held' = Held
  BY DEF Quiet, Registered, Slots, Reserving, Activating, Held
<1>2. Occupied' \subseteq Occupied
  BY <1>1 DEF Quiet, Occupied, Registered
<1>3. SlotsBounded'
  BY <1>1, <1>2, SlotsKept DEF Quotas, QuotasHold
<1>4. Shaped'
  BY <1>1 DEF Shaped, CallShape, Quiet, Quotas
<1>5. BudgetExact'
  <2>1. CASE UNCHANGED budget
    BY <1>1, <2>1 DEF Quotas, QuotasHold, BudgetExact, Held, budget
  <2>2. CASE Held = {} /\ used' = 0 /\ started' = 0
    <3>1. Cardinality(Held') = 0
      BY <1>1, <2>2, FS_EmptySet
    <3> QED
      BY <2>2, <3>1, TreeConstants DEF BudgetExact, Held
  <2> QED
    BY <2>1, <2>2
<1> QED
  BY <1>3, <1>4, <1>5 DEF Quotas, QuotasHold

-----------------------------------------------------------------------------
(* The steps of the root's run *)

\* What one pass of the root's notification() leaves alone, and the types of what
\* it changes; it may reserve a continuation.
LEMMA PassSteps ==
  ASSUME TypeOK, NEW P \in SUBSET Tasks, Pass(P)
  PROVE  /\ phase' \in {"model", "scan", "activate", "wait", "stopping"}
         /\ todo' \subseteq Tasks
         /\ active' \in [Agents -> BOOLEAN] /\ stopped' \in [Agents -> BOOLEAN]
         /\ changed' \in [Agents -> BOOLEAN] /\ ready' \in [Agents -> SUBSET Tasks]
         /\ pending' \in [Tasks -> SUBSET Tasks]
         /\ UNCHANGED <<tasksv, joining, started>>
         /\ \/ UNCHANGED <<calls, used, active>> /\ phase' \in {"scan", "model"}
            \/ UNCHANGED <<calls, used, active>> /\ phase' = "wait" /\ Busy(Root)
            \/ UNCHANGED <<calls, used>> /\ EndGroup(Root) /\ phase' = "stopping"
            \/ /\ phase' = "activate" /\ UNCHANGED active
               /\ \E k \in Calls, p \in Tasks : Reserve(k, Root, p, "root")
<1>1. PICK Q \in SUBSET P :
        \/ \E p \in P \ Q : Reactivate(p, Q) /\ todo' = P \ (Q \cup {p})
        \/ Q = P /\ Decide(Q) /\ todo' = {}
  BY DEF Pass
<1>2. UNCHANGED <<tasksv, joining, started>>
  BY DEF Pass
<1>3. /\ Forwarded(Q) \in [Tasks -> SUBSET Tasks]
      /\ Delivered(Q) \in [Agents -> SUBSET Tasks]
      /\ Notified(Q) \in [Agents -> BOOLEAN]
  <2>1. Forwarded(Q) \in [Tasks -> SUBSET Tasks] /\ Notified(Q) \in [Agents -> BOOLEAN]
    BY DEF Forwarded, Notified, TypeOK
  <2>2. ASSUME NEW x \in Agents
        PROVE  (IF x \in Q /\ active[x] THEN ready[x] \cup pending[x] ELSE ready[x]) \in SUBSET Tasks
    BY DEF TypeOK
  <2> QED
    BY <2>1, <2>2 DEF Delivered
<1>4. CASE \E p \in P \ Q : Reactivate(p, Q) /\ todo' = P \ (Q \cup {p})
  <2>1. PICK p \in P \ Q : Reactivate(p, Q) /\ todo' = P \ (Q \cup {p})
    BY <1>4
  <2>2. p \in Tasks /\ todo' \subseteq Tasks /\ UNCHANGED <<active, stopped>>
    BY <2>1 DEF Reactivate
  <2>3. /\ pending' \in [Tasks -> SUBSET Tasks] /\ ready' \in [Agents -> SUBSET Tasks]
        /\ changed' \in [Agents -> BOOLEAN]
    BY <1>3, <2>1 DEF Reactivate
  <2>4. \/ phase' = "activate" /\ \E k \in Calls : Reserve(k, Root, p, "root")
        \/ phase' = "scan" /\ UNCHANGED <<calls, used>>
    BY <2>1 DEF Reactivate
  <2> QED
    BY <1>2, <2>2, <2>3, <2>4 DEF TypeOK
<1>5. CASE Q = P /\ Decide(Q) /\ todo' = {}
  <2>1. /\ pending' \in [Tasks -> SUBSET Tasks] /\ UNCHANGED <<calls, used>>
        /\ phase' \in {"model", "wait", "stopping"}
    BY <1>3, <1>5 DEF Decide
  <2>2. ready' \in [Agents -> SUBSET Tasks]
    BY <1>3, <1>5 DEF Decide
  <2>3. changed' \in [Agents -> BOOLEAN]
    BY <1>3, <1>5 DEF Decide
  <2>4. active' \in [Agents -> BOOLEAN] /\ stopped' \in [Agents -> BOOLEAN]
    BY <1>5, StopTypes, TreeConstants DEF Decide, TypeOK
  <2>5. \/ UNCHANGED active /\ phase' = "model"
        \/ UNCHANGED active /\ phase' = "wait" /\ Busy(Root)
        \/ EndGroup(Root) /\ phase' = "stopping"
    BY <1>5 DEF Decide
  <2> QED
    BY <1>2, <1>5, <2>1, <2>2, <2>3, <2>4, <2>5
<1> QED
  BY <1>1, <1>4, <1>5

RootStep ==
    (\E reset \in BOOLEAN : Begin(reset)) \/ StopRoot \/ StopRootWorkers \/ EndRoot

LEMMA RootSteps ==
  ASSUME TypeOK, RootStep
  PROVE  TypeOK' /\ Quiet
<1> USE TreeConstants DEF rootvars, inbox, tasksv, budget
<1>1. ASSUME NEW reset \in BOOLEAN, Begin(reset) PROVE TypeOK' /\ Quiet
  <2>1. used' \in Nat /\ started' \in Nat
    BY <1>1 DEF Begin, TypeOK
  <2>2. /\ active' \in [Agents -> BOOLEAN] /\ stopped' \in [Agents -> BOOLEAN]
        /\ changed' \in [Agents -> BOOLEAN]
    BY <1>1 DEF Begin, TypeOK
  <2>3. ready' \in [Agents -> SUBSET Tasks] /\ pending' \in [Tasks -> SUBSET Tasks]
    BY <1>1 DEF Begin, TypeOK
  <2>4. Quiet /\ phase' = "model" /\ todo' = {} /\ UNCHANGED <<tasksv, joining, calls>>
    BY <1>1 DEF Begin, Quiet, Live
  <2> QED
    BY <2>1, <2>2, <2>3, <2>4 DEF TypeOK
<1>2. CASE StopRoot
  <2>1. active' \in [Agents -> BOOLEAN] /\ stopped' \in [Agents -> BOOLEAN]
    BY <1>2, StopTypes DEF StopRoot
  <2> QED
    BY <1>2, <2>1 DEF StopRoot, TypeOK, Quiet, Live
<1>3. CASE StopRootWorkers
  <2>1. cancel' \in [Tasks -> BOOLEAN] /\ joining' \in [Agents -> SUBSET Tasks]
    BY <1>3, StopTypes DEF StopRootWorkers
  <2> QED
    BY <1>3, <2>1 DEF StopRootWorkers, TypeOK, Quiet, Live
<1>4. CASE EndRoot
  <2>1. status' \in [Tasks -> {"none", "running", "completed", "failed", "cancelled"}]
    BY <1>4, StopTypes DEF EndRoot
  <2>2. \A x \in Tasks : status'[x] = "running" => status[x] = "running"
    BY <1>4 DEF EndRoot, CancelledBelow
  <2>3. ready' \in [Agents -> SUBSET Tasks] /\ joining' \in [Agents -> SUBSET Tasks]
    BY <1>4 DEF EndRoot, TypeOK
  <2>4. changed' \in [Agents -> BOOLEAN] /\ pending' \in [Tasks -> SUBSET Tasks]
    BY <1>4 DEF EndRoot, TypeOK
  <2> QED
    BY <1>4, <2>1, <2>2, <2>3, <2>4 DEF EndRoot, TypeOK, Quiet, Live
<1> QED
  BY <1>1, <1>2, <1>3, <1>4 DEF RootStep

-----------------------------------------------------------------------------
(* The calls *)

CallType == [op : {"none", "start", "continue"}, by : Agents, task : Tasks \cup {NoTask},
             pc : {"none", "reserve", "emit", "unstart", "host", "root"},
             stops : SUBSET Agents]

LEMMA CallTypes == TypeOK => calls \in [Calls -> CallType]
  BY DEF TypeOK, CallType

\* One call is replaced, and no registration is lost.
LEMMA CallMoves ==
  ASSUME TypeOK, Shaped, NEW k \in Calls, NEW c \in CallType, calls' = [calls EXCEPT ![k] = c],
         Registered \subseteq Registered', (CallShape(c))'
  PROVE  calls' \in [Calls -> CallType] /\ Shaped'
<1>1. calls' \in [Calls -> CallType]
  BY CallTypes
<1>2. ASSUME NEW j \in Calls
      PROVE  (CallShape(calls[j]))'
  <2>1. CASE j = k
    BY <2>1, OneCall
  <2>2. CASE j # k
    <3>1. calls'[j] = calls[j] /\ CallShape(calls[j])
      BY <2>2, OneCall DEF Shaped
    <3> QED
      BY <3>1 DEF CallShape
  <2> QED
    BY <2>1, <2>2
<1> QED
  BY <1>1, <1>2 DEF Shaped

LEMMA EmptyCall == NoCall \in CallType /\ CallShape(NoCall) /\ (CallShape(NoCall))'
  BY TreeConstants DEF NoCall, CallType, CallShape

\* A reservation: quotas are checked, the call and its unit are recorded.
LEMMA Reserved ==
  ASSUME Quotas, NEW k \in Calls, NEW c \in CallType, CallShape(c), c # NoCall,
         calls[k] = NoCall, calls' = [calls EXCEPT ![k] = c],
         used < MaxExecutions, Slot(0), used' = used + 1,
         UNCHANGED <<tasksv, started>>
  PROVE  calls' \in [Calls -> CallType] /\ used' \in Nat /\ Shaped' /\ QuotasHold'
<1>1. TypeOK /\ Shaped /\ BudgetExact /\ SlotsBounded
  BY DEF Quotas, QuotasHold
<1>2. BudgetExact' /\ used' \in Nat
  BY <1>1, UnitTaken
<1>3. Registered' = Registered /\ Occupied' = Occupied
  BY DEF tasksv, Registered, Occupied, Live
<1>4. (CallShape(c))'
  BY <1>3 DEF CallShape
<1>5. calls' \in [Calls -> CallType] /\ Shaped'
  BY <1>1, <1>3, <1>4, CallMoves
<1>6. Slots' \subseteq Slots \cup {k}
  BY <1>1, OneCall DEF Slots, Reserving, Activating
<1>7. SlotsBounded'
  BY <1>3, <1>6, SlotTaken
<1> QED
  BY <1>2, <1>5, <1>7 DEF QuotasHold

\* A call ends: what it reserved is returned, or the worker it gated runs.
LEMMA Returned ==
  ASSUME Quotas, NEW k \in Calls, calls[k] # NoCall, calls' = [calls EXCEPT ![k] = NoCall],
         \/ used' = used - 1 /\ started' = started
         \/ used' = used /\ started' = started + 1,
         Registered' = Registered, Occupied' \subseteq Occupied
  PROVE  /\ calls' \in [Calls -> CallType] /\ used' \in Nat /\ started' \in Nat
         /\ Shaped' /\ QuotasHold'
<1>1. TypeOK /\ Shaped /\ BudgetExact /\ SlotsBounded
  BY DEF Quotas, QuotasHold
<1>2. BudgetExact' /\ used' \in Nat /\ started' \in Nat
  BY <1>1, UnitLeft
<1>3. calls' \in [Calls -> CallType] /\ Shaped'
  BY <1>1, EmptyCall, CallMoves
<1>4. Slots' \subseteq Slots
  BY <1>1, OneCall DEF Slots, Reserving, Activating, NoCall
<1>5. SlotsBounded'
  BY <1>1, <1>4, SlotsKept
<1> QED
  BY <1>2, <1>3, <1>5 DEF QuotasHold

\* A start that is under way goes on; its task, if it has one, is registered.
LEMMA GoesOn ==
  ASSUME Quotas, NEW k \in Calls, NEW c \in CallType, calls[k] # NoCall, c # NoCall,
         calls' = [calls EXCEPT ![k] = c], UNCHANGED budget,
         Registered \subseteq Registered', (CallShape(c))'
  PROVE  calls' \in [Calls -> CallType] /\ Shaped' /\ BudgetExact'
<1>1. TypeOK /\ Shaped /\ BudgetExact
  BY DEF Quotas, QuotasHold
<1> QED
  BY <1>1, UnitKept, CallMoves

\* An active manager is the root's or a registered task's.
LEMMA ActiveIsRegistered ==
  ASSUME Family, NEW a \in Agents, active[a]
  PROVE  a \in Registered \cup {Root}
  BY DEF Family, Manager, Descent, Agents

\* Whoever is below a task is registered.
LEMMA BelowIsRegistered ==
  \A a \in Agents : Below(a) \subseteq Registered /\ Registered \subseteq Tasks
  BY DEF Below, Registered

LEMMA StartQuotas ==
  ASSUME Quotas, Family, NEW k \in Calls, NEW a \in Agents, Start(k, a)
  PROVE  Quotas'
<1>1. PICK c : c = [op |-> "start", by |-> a, task |-> NoTask, pc |-> "reserve", stops |-> StopsOf(a)]
  OBVIOUS
<1>2. StopsOf(a) \subseteq Agents
  BY TreeConstants DEF StopsOf
<1>3. c \in CallType /\ c # NoCall
  BY <1>1, <1>2 DEF CallType, NoCall
<1>4. active[a] /\ used < MaxExecutions /\ Slot(0)
  BY TreeConstants DEF Start, MayExecute, Quotas, TypeOK
<1>5. CallShape(c)
  BY <1>1, <1>4, ActiveIsRegistered DEF CallShape
<1>6. calls[k] = NoCall /\ calls' = [calls EXCEPT ![k] = c] /\ used' = used + 1
  BY <1>1 DEF Start
<1>7. UNCHANGED <<tasksv, started>>
  BY DEF Start
<1>8. calls' \in [Calls -> CallType] /\ used' \in Nat /\ Shaped' /\ QuotasHold'
  BY <1>3, <1>4, <1>5, <1>6, <1>7, Reserved
<1>9. changed' \in [Agents -> BOOLEAN]
  BY DEF Start, AllChanged
<1>10. TypeOK'
  BY <1>8, <1>9 DEF Start, Quotas, TypeOK, CallType, rootvars, tasksv
<1> QED
  BY <1>8, <1>10 DEF Quotas

\* A continuation that is reserved.
LEMMA ReserveQuotas ==
  ASSUME Quotas, NEW k \in Calls, NEW a \in Agents, NEW t \in Tasks, NEW for \in {"host", "root"},
         Reserve(k, a, t, for), UNCHANGED <<tasksv, started>>
  PROVE  calls' \in [Calls -> CallType] /\ used' \in Nat /\ Shaped' /\ QuotasHold'
<1>1. PICK c : c = [op |-> "continue", by |-> a, task |-> t, pc |-> for, stops |-> {}]
  OBVIOUS
<1>2. c \in CallType /\ c # NoCall
  BY <1>1 DEF CallType, NoCall
<1>3. used < MaxExecutions /\ Slot(0) /\ t \in Registered
  BY TreeConstants DEF Reserve, MayExecute, Continuable, Quotas, TypeOK
<1>4. CallShape(c)
  BY <1>1, <1>3 DEF CallShape
<1>5. calls[k] = NoCall /\ calls' = [calls EXCEPT ![k] = c] /\ used' = used + 1
  BY <1>1 DEF Reserve
<1> QED
  BY <1>2, <1>3, <1>4, <1>5, Reserved

\* An updated function.
LEMMA Update ==
  ASSUME NEW D, NEW R, NEW f \in [D -> R], NEW d \in D, NEW v \in R
  PROVE  /\ [f EXCEPT ![d] = v] \in [D -> R] /\ [f EXCEPT ![d] = v][d] = v
         /\ \A x \in D : x # d => [f EXCEPT ![d] = v][x] = f[x]
  OBVIOUS

\* What registering task t for a call of by does to the tree.
LEMMA Registration ==
  ASSUME TypeOK, Family, NEW t \in Tasks \ Registered, NEW by \in Registered \cup {Root},
         lineage' = [lineage EXCEPT ![t] = <<by>> \o Lineage(by)],
         status' = [status EXCEPT ![t] = "running"],
         work' = [work EXCEPT ![t] = "gated"]
  PROVE  /\ lineage' \in [Tasks -> Seq(Agents)]
         /\ Registered' = Registered \cup {t}
         /\ Live' = Live \cup {t} /\ Occupied' = Occupied \cup {t}
         /\ \A x \in Agents : x # t => Above(x)' = Above(x)
         /\ Above(t)' = {by} \cup Above(by)
<1> USE TreeConstants
<1>1. by \in Agents /\ Lineage(by) \in Seq(Agents)
  BY EmptySeq DEF Lineage, Registered, TypeOK, Agents
<1>2. PICK q : q = <<by>> \o Lineage(by)
  OBVIOUS
<1>3. /\ q \in Seq(Agents) /\ q # <<>>
      /\ {q[i] : i \in 1..Len(q)} = {by} \cup Above(by)
  BY <1>1, <1>2, Prefixed DEF Above
<1>4. lineage' = [lineage EXCEPT ![t] = q]
  BY <1>2
<1>5. lineage' \in [Tasks -> Seq(Agents)] /\ lineage'[t] = q
      /\ \A x \in Tasks : x # t => lineage'[x] = lineage[x]
  <2>1. lineage \in [Tasks -> Seq(Agents)]
    BY DEF TypeOK
  <2>2. t \in Tasks
    OBVIOUS
  <2>3. PICK g : g = lineage'
    OBVIOUS
  <2>4. g = [lineage EXCEPT ![t] = q]
    BY <1>4, <2>3
  <2>5. g \in [Tasks -> Seq(Agents)] /\ g[t] = q /\ \A x \in Tasks : x # t => g[x] = lineage[x]
    BY <1>3, <2>1, <2>2, <2>4, Update
  <2> QED
    BY <2>3, <2>5
<1>6. Registered' = Registered \cup {t}
  BY <1>3, <1>5 DEF Registered
<1>7. Live' = Live \cup {t}
  BY DEF Live, TypeOK, Ended
<1>8. Occupied' = Occupied \cup {t}
  <2>1. \A x \in Tasks : x # t => status'[x] = status[x]
    BY DEF TypeOK
  <2>2. status'[t] = "running"
    BY DEF TypeOK
  <2> QED
    BY <1>6, <1>7, <2>1, <2>2 DEF Occupied, Registered
<1>9. ASSUME NEW x \in Agents, x # t
      PROVE  Above(x)' = Above(x)
  <2>1. Lineage(x)' = Lineage(x)
    BY <1>5, <1>9 DEF Lineage, Agents
  <2> QED
    BY <2>1 DEF Above
<1>10. Above(t)' = {by} \cup Above(by)
  <2>1. Lineage(t)' = q
    BY <1>5 DEF Lineage
  <2> QED
    BY <1>3, <2>1 DEF Above
<1> QED
  BY <1>5, <1>6, <1>7, <1>8, <1>9, <1>10

LEMMA RegisterQuotas ==
  ASSUME Quotas, Family, NEW k \in Calls, Register(k)
  PROVE  Quotas'
<1> USE TreeConstants
<1>1. PICK t \in Tasks \ Registered :
        /\ calls' = [calls EXCEPT ![k].pc = "emit", ![k].task = t]
        /\ lineage' = [lineage EXCEPT ![t] = <<calls[k].by>> \o Lineage(calls[k].by)]
        /\ status' = [status EXCEPT ![t] = "running"]
        /\ work' = [work EXCEPT ![t] = "gated"]
  BY DEF Register
<1>2. calls[k] \in CallType /\ CallShape(calls[k]) /\ calls[k].pc = "reserve"
  BY CallTypes DEF Register, Quotas, Shaped
<1>3. /\ calls[k].op = "start" /\ calls[k].by \in Registered \cup {Root} /\ calls[k] # NoCall
      /\ k \in Slots
  BY <1>2 DEF CallShape, NoCall, Slots, Reserving
<1>4. PICK c : c = [calls[k] EXCEPT !.pc = "emit", !.task = t]
  OBVIOUS
<1>5. c \in CallType /\ c.op = "start" /\ c.pc = "emit" /\ c.task = t /\ c.by = calls[k].by
  BY <1>2, <1>3, <1>4 DEF CallType
<1>6. calls' = [calls EXCEPT ![k] = c]
  BY <1>1, <1>4, CallTypes DEF Quotas
<1>7. /\ lineage' \in [Tasks -> Seq(Agents)] /\ Registered' = Registered \cup {t}
      /\ Occupied' = Occupied \cup {t}
  BY <1>1, <1>3, Registration DEF Quotas
<1>8. (CallShape(c))' /\ c # NoCall
  BY <1>3, <1>5, <1>7 DEF CallShape, NoCall
<1>9. UNCHANGED <<rootvars, active, stopped, inbox, cancel, joining, budget>>
  BY DEF Register
<1>10. calls' \in [Calls -> CallType] /\ Shaped' /\ BudgetExact'
  BY <1>3, <1>5, <1>6, <1>7, <1>8, <1>9, GoesOn
<1>11. Slots' \subseteq Slots \ {k}
  <2>1. calls'[k] = c /\ \A j \in Calls : j # k => calls'[j] = calls[j]
    BY <1>6, OneCall DEF Quotas
  <2>2. k \notin Slots' /\ \A j \in Calls \ {k} : j \in Slots' => j \in Slots
    BY <1>5, <2>1 DEF Slots, Reserving, Activating
  <2>3. Slots' \subseteq Calls
    BY DEF Slots, Reserving, Activating
  <2> QED
    BY <2>2, <2>3
<1>12. SlotsBounded'
  BY <1>3, <1>7, <1>11, SlotUsed DEF Quotas, QuotasHold
<1>13. /\ status' \in [Tasks -> {"none", "running", "completed", "failed", "cancelled"}]
       /\ work' \in [Tasks -> Ended \cup {"gated", "new", "setup", "model", "wait",
                                          "stopping", "ending"}]
  BY <1>1 DEF Quotas, TypeOK
<1>14. TypeOK'
  BY <1>7, <1>9, <1>10, <1>13 DEF Quotas, TypeOK, CallType, rootvars, inbox, budget
<1> QED
  BY <1>10, <1>12, <1>14 DEF Quotas, QuotasHold

\* A step of a start that is being announced: its task and its worker.
LEMMA Announced ==
  ASSUME Quotas, NEW k \in Calls, calls[k].pc \in {"emit", "unstart"}
  PROVE  /\ calls[k] \in CallType /\ calls[k] # NoCall /\ calls[k].op = "start"
         /\ calls[k].task \in Registered /\ calls[k].task \in Tasks
         /\ calls[k].by \in Registered \cup {Root}
         /\ k \notin Slots
  BY CallTypes DEF Quotas, Shaped, CallShape, NoCall, Registered, Slots, Reserving, Activating

\* An announced worker that opens stays the live task it was.
LEMMA OpenTree ==
  ASSUME Quotas, NEW k \in Calls, Open(k)
  PROVE  /\ Registered' = Registered /\ Live' = Live /\ Occupied' = Occupied
         /\ work' \in [Tasks -> Ended \cup {"gated", "new", "setup", "model", "wait",
                                            "stopping", "ending"}]
         /\ \A x \in Tasks : work'[x] = work[x] \/ (work[x] = "gated" /\ work'[x] = "new")
<1>1. PICK t : t = calls[k].task
  OBVIOUS
<1>2. t \in Tasks
  BY <1>1, Announced DEF Open
<1>3. work' = [work EXCEPT ![t] = IF @ = "gated" THEN "new" ELSE @] /\ UNCHANGED <<lineage, status>>
  BY <1>1 DEF Open
<1>4. work' \in [Tasks -> Ended \cup {"gated", "new", "setup", "model", "wait",
                                      "stopping", "ending"}]
  BY <1>2, <1>3 DEF Quotas, TypeOK
<1>5. \A x \in Tasks : work'[x] = work[x] \/ (work[x] = "gated" /\ work'[x] = "new")
  BY <1>2, <1>3 DEF Quotas, TypeOK
<1>6. Live' = Live
  BY <1>5 DEF Live, Ended
<1> QED
  BY <1>3, <1>4, <1>5, <1>6 DEF Registered, Occupied

LEMMA CallEndQuotas ==
  ASSUME Quotas, NEW k \in Calls, RegisterFails(k) \/ Open(k) \/ Refund(k)
  PROVE  Quotas'
<1>1. calls[k] # NoCall /\ calls' = [calls EXCEPT ![k] = NoCall]
  BY DEF RegisterFails, Open, Refund, NoCall
<1>2. \/ used' = used - 1 /\ started' = started
      \/ used' = used /\ started' = started + 1
  BY DEF RegisterFails, Open, Refund
<1>3. /\ Registered' = Registered /\ Occupied' \subseteq Occupied
      /\ work' \in [Tasks -> Ended \cup {"gated", "new", "setup", "model", "wait",
                                         "stopping", "ending"}]
  <2>1. CASE Open(k)
    BY <2>1, OpenTree
  <2>2. CASE RegisterFails(k) \/ Refund(k)
    BY <2>2 DEF RegisterFails, Refund, tasksv, Registered, Occupied, Live, Quotas, TypeOK
  <2> QED
    BY <2>1, <2>2
<1>4. /\ calls' \in [Calls -> CallType] /\ used' \in Nat /\ started' \in Nat
      /\ Shaped' /\ QuotasHold'
  BY <1>1, <1>2, <1>3, Returned
<1>5. /\ changed' \in [Agents -> BOOLEAN]
      /\ UNCHANGED <<rootvars, active, stopped, ready, pending, lineage, status, cancel, joining>>
  BY DEF RegisterFails, Open, Refund, AllChanged, tasksv
<1>6. TypeOK'
  BY <1>3, <1>4, <1>5 DEF Quotas, TypeOK, CallType, rootvars
<1> QED
  BY <1>4, <1>6 DEF Quotas

LEMMA OpenFailsQuotas ==
  ASSUME Quotas, NEW k \in Calls, OpenFails(k)
  PROVE  Quotas'
<1>1. PICK t : t = calls[k].task
  OBVIOUS
<1>2. t \in Tasks /\ t \in Registered /\ calls[k] \in CallType /\ calls[k] # NoCall
      /\ calls[k].op = "start" /\ calls[k].by \in Registered \cup {Root} /\ k \notin Slots
  BY <1>1, Announced DEF OpenFails
<1>3. PICK c : c = [calls[k] EXCEPT !.pc = "unstart"]
  OBVIOUS
<1>4. c \in CallType /\ c.op = "start" /\ c.pc = "unstart" /\ c.task = t /\ c.by = calls[k].by
  BY <1>1, <1>2, <1>3 DEF CallType
<1>5. calls' = [calls EXCEPT ![k] = c] /\ status' = [status EXCEPT ![t] = "cancelled"]
      /\ cancel' = [cancel EXCEPT ![t] = t \in Live]
      /\ UNCHANGED <<rootvars, active, stopped, inbox, lineage, work, joining, budget>>
  BY <1>1, <1>3, CallTypes DEF OpenFails, Quotas
<1>6. Registered' = Registered /\ Occupied' \subseteq Occupied
  BY <1>2, <1>5 DEF Registered, Occupied, Live, Quotas, TypeOK
<1>7. (CallShape(c))' /\ c # NoCall
  BY <1>2, <1>4, <1>6 DEF CallShape, NoCall
<1>8. calls' \in [Calls -> CallType] /\ Shaped' /\ BudgetExact'
  BY <1>2, <1>4, <1>5, <1>6, <1>7, GoesOn
<1>9. Slots' \subseteq Slots
  BY <1>4, <1>5, OneCall DEF Slots, Reserving, Activating, Quotas
<1>10. SlotsBounded'
  BY <1>6, <1>9, SlotsKept DEF Quotas, QuotasHold
<1>11. status' \in [Tasks -> {"none", "running", "completed", "failed", "cancelled"}]
       /\ cancel' \in [Tasks -> BOOLEAN]
  BY <1>2, <1>5 DEF Quotas, TypeOK
<1>12. TypeOK'
  BY <1>5, <1>8, <1>11 DEF Quotas, TypeOK, CallType, rootvars, inbox, budget
<1> QED
  BY <1>8, <1>10, <1>12 DEF Quotas, QuotasHold

\* What an accepted continuation of task t does to the tree.
LEMMA Activation ==
  ASSUME Quotas, NEW k \in Calls, Accept(k), NEW t, t = calls[k].task
  PROVE  /\ calls[k] \in CallType /\ calls[k] # NoCall /\ k \in Slots
         /\ t \in Registered /\ t \in Tasks
         /\ work' = [work EXCEPT ![t] = "new"] /\ status' = [status EXCEPT ![t] = "running"]
         /\ Registered' = Registered /\ Live' = Live \cup {t}
         /\ Occupied' \subseteq Occupied \cup {t}
<1>1. /\ calls[k] \in CallType /\ CallShape(calls[k]) /\ calls[k].op = "continue"
  BY CallTypes DEF Accept, Quotas, Shaped
<1>2. calls[k] # NoCall /\ k \in Slots /\ t \in Registered /\ t \in Tasks
  BY <1>1 DEF CallShape, NoCall, Slots, Activating, Registered
<1>3. /\ work' = [work EXCEPT ![t] = "new"] /\ status' = [status EXCEPT ![t] = "running"]
      /\ lineage' = lineage
  BY DEF Accept, Activated
<1>4. Registered' = Registered
  BY <1>3 DEF Registered
<1>5. Live' = Live \cup {t}
  BY <1>2, <1>3 DEF Live, Quotas, TypeOK, Ended
<1>6. \A x \in Tasks : x # t => status'[x] = status[x]
  BY <1>2, <1>3 DEF Quotas, TypeOK
<1>7. Occupied' \subseteq Occupied \cup {t}
  BY <1>4, <1>5, <1>6 DEF Occupied, Registered
<1> QED
  BY <1>1, <1>2, <1>3, <1>4, <1>5, <1>7

LEMMA AcceptQuotas ==
  ASSUME Quotas, NEW k \in Calls, Accept(k)
  PROVE  Quotas'
<1>1. PICK t : t = calls[k].task
  OBVIOUS
<1>2. /\ calls[k] # NoCall /\ k \in Slots /\ t \in Registered /\ t \in Tasks
      /\ work' = [work EXCEPT ![t] = "new"] /\ status' = [status EXCEPT ![t] = "running"]
      /\ Registered' = Registered /\ Occupied' \subseteq Occupied \cup {t}
  BY <1>1, Activation
<1>3. calls' = [calls EXCEPT ![k] = NoCall] /\ used' = used /\ started' = started + 1
  BY DEF Accept, Activated
<1>4. TypeOK /\ Shaped /\ BudgetExact /\ SlotsBounded
  BY DEF Quotas, QuotasHold
<1>5. BudgetExact' /\ used' \in Nat /\ started' \in Nat
  BY <1>2, <1>3, <1>4, UnitLeft
<1>6. calls' \in [Calls -> CallType] /\ Shaped'
  BY <1>2, <1>3, <1>4, EmptyCall, CallMoves
<1>7. Slots' \subseteq Slots \ {k}
  <2>1. calls'[k] = NoCall /\ \A j \in Calls : j # k => calls'[j] = calls[j]
    BY <1>3, <1>4, OneCall
  <2>2. k \notin Slots' /\ \A j \in Calls \ {k} : j \in Slots' => j \in Slots
    BY <2>1 DEF Slots, Reserving, Activating, NoCall
  <2>3. Slots' \subseteq Calls
    BY DEF Slots, Reserving, Activating
  <2> QED
    BY <2>2, <2>3
<1>8. SlotsBounded'
  BY <1>2, <1>4, <1>7, SlotUsed
<1>9. /\ status' \in [Tasks -> {"none", "running", "completed", "failed", "cancelled"}]
      /\ work' \in [Tasks -> Ended \cup {"gated", "new", "setup", "model", "wait",
                                         "stopping", "ending"}]
  BY <1>2, <1>4 DEF TypeOK
<1>10. UNCHANGED <<todo, active, stopped, pending, lineage, cancel, joining, used>>
  BY DEF Accept, Activated
<1>11. phase' \in {"idle", "model", "scan", "activate", "wait", "stopping", "ending"}
  BY <1>4 DEF Accept, Activated, TypeOK
<1>12. ready' \in [Agents -> SUBSET Tasks]
  <2>1. ready' = ready \/ ready' = [ready EXCEPT ![Root] = {}]
    BY DEF Accept, Activated
  <2> QED
    BY <1>4, <2>1 DEF TypeOK
<1>13. changed' \in [Agents -> BOOLEAN]
  <2>1. PICK b \in BOOLEAN : changed' = AllChanged \/ changed' = [AllChanged EXCEPT ![Root] = b]
    BY DEF Accept, Activated
  <2>2. AllChanged \in [Agents -> BOOLEAN]
    BY DEF AllChanged
  <2> QED
    BY <2>1, <2>2
<1>14. TypeOK'
  BY <1>4, <1>5, <1>6, <1>9, <1>10, <1>11, <1>12, <1>13 DEF TypeOK, CallType
<1> QED
  BY <1>5, <1>6, <1>8, <1>14 DEF Quotas, QuotasHold

LEMMA RejectQuotas ==
  ASSUME Quotas, NEW k \in Calls, Reject(k)
  PROVE  Quotas'
<1>1. calls[k] # NoCall /\ calls' = [calls EXCEPT ![k] = NoCall]
      /\ used' = used - 1 /\ started' = started
  BY DEF Reject, NoCall
<1>2. Registered' = Registered /\ Occupied' = Occupied
  BY DEF Reject, tasksv, Registered, Occupied, Live
<1>3. calls' \in [Calls -> CallType] /\ used' \in Nat /\ Shaped' /\ QuotasHold'
  BY <1>1, <1>2, Returned
<1>4. changed' \in [Agents -> BOOLEAN] /\ phase' \in {"scan", phase}
      /\ UNCHANGED <<todo, active, stopped, ready, pending, tasksv, joining, started>>
  BY DEF Reject, AllChanged
<1>5. TypeOK'
  BY <1>3, <1>4 DEF Quotas, TypeOK, CallType, tasksv
<1> QED
  BY <1>3, <1>5 DEF Quotas

LEMMA ContinueQuotas ==
  ASSUME Quotas, NEW k \in Calls, NEW a \in Agents, NEW t \in Tasks, Continue(k, a, t)
  PROVE  Quotas'
<1>1. calls' \in [Calls -> CallType] /\ used' \in Nat /\ Shaped' /\ QuotasHold'
  BY ReserveQuotas DEF Continue
<1>2. TypeOK'
  BY <1>1 DEF Continue, Quotas, TypeOK, CallType, rootvars, inbox, tasksv
<1> QED
  BY <1>1, <1>2 DEF Quotas

\* The passes of the root's notification().
RootPass == Notification \/ NotificationGoesOn

LEMMA RootPassIsPass ==
  ASSUME TypeOK, RootPass
  PROVE  \E P \in SUBSET Tasks : Pass(P)
  BY DEF RootPass, Notification, NotificationGoesOn, WaitingParents, TypeOK

LEMMA PassQuotas ==
  ASSUME Quotas, RootPass
  PROVE  Quotas'
<1>0. TypeOK
  BY DEF Quotas
<1>1. PICK P \in SUBSET Tasks : Pass(P)
  BY <1>0, RootPassIsPass
<1>2. /\ phase' \in {"model", "scan", "activate", "wait", "stopping"}
      /\ todo' \subseteq Tasks
      /\ active' \in [Agents -> BOOLEAN] /\ stopped' \in [Agents -> BOOLEAN]
      /\ changed' \in [Agents -> BOOLEAN] /\ ready' \in [Agents -> SUBSET Tasks]
      /\ pending' \in [Tasks -> SUBSET Tasks]
      /\ UNCHANGED <<tasksv, joining, started>>
      /\ \/ UNCHANGED <<calls, used>>
         \/ \E k \in Calls, p \in Tasks : Reserve(k, Root, p, "root")
  BY <1>0, <1>1, PassSteps
<1>3. CASE UNCHANGED <<calls, used>>
  <2>1. TypeOK'
    BY <1>0, <1>2, <1>3 DEF TypeOK, tasksv
  <2>2. Quiet /\ UNCHANGED budget
    BY <1>2, <1>3 DEF Quiet, tasksv, Live, budget
  <2> QED
    BY <2>1, <2>2, QuietKeepsQuotas
<1>4. CASE \E k \in Calls, p \in Tasks : Reserve(k, Root, p, "root")
  <2>1. calls' \in [Calls -> CallType] /\ used' \in Nat /\ Shaped' /\ QuotasHold'
    BY <1>2, <1>4, ReserveQuotas, TreeConstants
  <2>2. TypeOK'
    BY <1>0, <1>2, <2>1 DEF TypeOK, CallType, tasksv
  <2> QED
    BY <2>1, <2>2 DEF Quotas
<1> QED
  BY <1>2, <1>3, <1>4

\* A call without calls in progress has nothing to reset.
LEMMA NothingHeld ==
  ASSUME Quotas, Admissions = {}, Activating = {}
  PROVE  Held = {}
  BY DEF Held, Quotas, Shaped, CallShape, Admissions, Activating

LEMMA QuietStepsQuotas ==
  ASSUME Quotas, RootStep \/ \E t \in Tasks : WorkerStep(t)
  PROVE  Quotas'
<1>0. TypeOK
  BY DEF Quotas
<1>1. CASE RootStep
  <2>1. TypeOK' /\ Quiet
    BY <1>0, <1>1, RootSteps
  <2>2. UNCHANGED budget \/ (Held = {} /\ used' = 0 /\ started' = 0)
    BY <1>1, NothingHeld DEF RootStep, Begin, StopRoot, StopRootWorkers, EndRoot, budget
  <2> QED
    BY <2>1, <2>2, QuietKeepsQuotas
<1>2. CASE \E t \in Tasks : WorkerStep(t)
  <2>1. TypeOK' /\ Quiet /\ UNCHANGED <<used, started>>
    BY <1>0, <1>2, WorkerSteps
  <2> QED
    BY <2>1, QuietKeepsQuotas DEF budget
<1> QED
  BY <1>1, <1>2

CallStep(k) ==
    \/ \E a \in Agents : Start(k, a) \/ (\E t \in Tasks : Continue(k, a, t))
    \/ Register(k) \/ RegisterFails(k) \/ Open(k) \/ OpenFails(k) \/ Refund(k)
    \/ Accept(k) \/ Reject(k)

LEMMA NextSteps ==
  ASSUME [Next]_vars
  PROVE  \/ \E k \in Calls : CallStep(k)
         \/ \E t \in Tasks : WorkerStep(t)
         \/ RootStep \/ RootPass
         \/ UNCHANGED vars
  BY DEF Next, CallStep, WorkerStep, RootStep, RootPass

LEMMA QuotasStep ==
  ASSUME Quotas, Family, [Next]_vars
  PROVE  Quotas'
<1>1. CASE \E k \in Calls : CallStep(k)
  BY <1>1, StartQuotas, ContinueQuotas, RegisterQuotas, CallEndQuotas, OpenFailsQuotas,
     AcceptQuotas, RejectQuotas DEF CallStep
<1>2. CASE RootStep \/ \E t \in Tasks : WorkerStep(t)
  BY <1>2, QuietStepsQuotas
<1>3. CASE RootPass
  BY <1>3, PassQuotas
<1>4. CASE UNCHANGED vars
  BY <1>4 DEF vars, rootvars, inbox, tasksv, budget, Quotas, TypeOK, Shaped, CallShape, QuotasHold,
     BudgetExact, SlotsBounded, Starting, Reserving, Activating, Occupied, Registered, Live
<1> QED
  BY <1>1, <1>2, <1>3, <1>4, NextSteps

-----------------------------------------------------------------------------
(* The order in which subtrees end *)

Young == {"killed", "gated", "new", "setup"}

\* A step that starts nothing keeps the order when a worker dies only above nothing
\* that lives, and begins to join all that lives below it.
LEMMA OrderShrinks ==
  ASSUME Order, UNCHANGED lineage, Live' \subseteq Live,
         \A t \in Tasks \ Registered : work'[t] = "none" /\ status'[t] = "none",
         \A t \in Tasks : Manager(t)',
         \A t \in Tasks : work'[t] \in Young => work[t] \in Young \/ Live \cap Below(t) = {},
         \A t \in Live \ Live' : Live \cap Below(t) = {},
         \A t \in Tasks : work'[t] = "ending" =>
            \/ work[t] = "ending" /\ joining'[t] = joining[t]
            \/ Live' = Live /\ joining'[t] = Live \cap Below(t)
  PROVE  Order'
<1>1. Registered' = Registered /\ \A a \in Agents : Above(a)' = Above(a) /\ Below(a)' = Below(a)
  BY DEF Registered, Above, Lineage, Below
<1>2. Family'
  BY <1>1, TreeConstants DEF Order, Family, Descent
<1>3. Clear'
  <2>1. ASSUME NEW t \in Tasks, work'[t] \in Young
        PROVE  Live' \cap Below(t)' = {}
    BY <1>1, <2>1, TreeConstants DEF Order, Clear, Young
  <2> QED
    BY <2>1 DEF Clear, Young
<1>4. Awaited'
  <2>1. ASSUME NEW s \in Tasks, work'[s] = "ending", NEW x \in Live' \cap Below(s)'
        PROVE  \E y \in joining'[s] \cap Live' : y = x \/ y \in Above(x)'
    <3>1. x \in Live \cap Below(s) /\ x \in Tasks /\ x \in Registered
      BY <1>1, <2>1, TreeConstants DEF Below, Live
    <3>2. CASE work[s] = "ending" /\ joining'[s] = joining[s]
      <4>1. PICK y \in joining[s] \cap Live : y = x \/ y \in Above(x)
        BY <3>1, <3>2 DEF Order, Awaited
      <4>2. y \in Live'
        BY <2>1, <3>1, <4>1 DEF Below
      <4> QED
        BY <1>1, <3>1, <3>2, <4>1, <4>2, TreeConstants
    <3>3. CASE Live' = Live /\ joining'[s] = Live \cap Below(s)
      BY <3>1, <3>3
    <3> QED
      BY <2>1, <3>2, <3>3
  <2> QED
    BY <2>1 DEF Awaited
<1> QED
  BY <1>2, <1>3, <1>4 DEF Order

\* A worker that has joined those it cancelled ends above nothing that lives.
LEMMA JoinedIsClear ==
  ASSUME Order, NEW t \in Tasks, work[t] = "ending", Joined(t)
  PROVE  Live \cap Below(t) = {}
  BY DEF Order, Awaited, Joined

LEMMA WorkerOrder ==
  ASSUME TypeOK, Order, NEW t \in Tasks, WorkerStep(t)
  PROVE  Order'
<1>1. /\ UNCHANGED lineage /\ Live' \subseteq Live
      /\ \A x \in Tasks : x # t => work'[x] = work[x]
  BY WorkerSteps DEF Quiet
<1>2. work[t] # "none" /\ t \in Registered
  <2>1. work[t] # "none"
    BY DEF WorkerStep, RunChild, CreateFails, BeginGroup, NextInput, Wake, RunFails, Cancelled,
           StopWorkers, Finish
  <2> QED
    BY <2>1 DEF Order, Family, Descent
<1>3. \A x \in Tasks \ Registered : status'[x] = "none"
  <2>1. \A x \in Tasks \ Registered : status[x] = "none" /\ x # t
    BY <1>2 DEF Order, Family, Descent
  <2>2. ASSUME NEW x \in Tasks, x # t, status[x] = "none"
        PROVE  status'[x] = "none"
    BY <2>2 DEF WorkerStep, RunChild, CreateFails, BeginGroup, NextInput, Wake, RunFails,
       Cancelled, StopWorkers, Finish, CancelledBelow, TypeOK
  <2> QED
    BY <2>1, <2>2
<1>4. \A x \in Tasks \ Registered : work'[x] = "none"
  BY <1>1, <1>2 DEF Order, Family, Descent
<1>5. ASSUME NEW x \in Tasks
      PROVE  active'[x] => work'[x] \in {"model", "wait"}
  <2>1. active[x] => work[x] \in {"model", "wait"}
    BY DEF Order, Family, Manager
  <2>2. CASE x # t
    <3>1. active'[x] => active[x]
      BY <2>2 DEF WorkerStep, RunChild, CreateFails, BeginGroup, NextInput, Wake, RunFails,
         Cancelled, StopWorkers, Finish, EndGroup, TypeOK, Agents
    <3> QED
      BY <1>1, <2>1, <2>2, <3>1
  <2>3. CASE x = t
    <3>1. EndGroup(t) => active'[t] = FALSE
      BY TreeConstants DEF EndGroup, TypeOK
    <3> QED
      BY <2>1, <2>3, <3>1 DEF WorkerStep, RunChild, CreateFails, BeginGroup, NextInput, Wake,
         RunFails, Cancelled, StopWorkers, Finish, TypeOK
  <2> QED
    BY <2>2, <2>3
<1>6. ASSUME NEW x \in Tasks
      PROVE  cancel'[x] => x \in Live'
  <2>1. cancel[x] => x \in Live
    BY DEF Order, Family, Manager
  <2>2. CASE x # t
    <3>1. cancel'[x] => x \in Live
      BY <2>1, <2>2 DEF WorkerStep, RunChild, CreateFails, BeginGroup, NextInput, Wake, RunFails,
         Cancelled, StopWorkers, Finish, CancelBelow, TypeOK
    <3> QED
      BY <1>1, <2>2, <3>1 DEF Live
  <2>3. CASE x = t
    <3>1. cancel'[t] => work'[t] \notin Ended
      BY DEF WorkerStep, RunChild, CreateFails, BeginGroup, NextInput, Wake, RunFails,
         Cancelled, StopWorkers, Finish, CancelBelow, TypeOK, Ended
    <3> QED
      BY <2>3, <3>1 DEF Live
  <2> QED
    BY <2>2, <2>3
<1>7. ASSUME NEW x \in Tasks, work'[x] \in Young
      PROVE  work[x] \in Young \/ Live \cap Below(x) = {}
  <2>1. CASE x # t
    BY <1>1, <1>7, <2>1
  <2>2. CASE x = t
    BY <1>7, <2>2, JoinedIsClear DEF WorkerStep, RunChild, CreateFails, BeginGroup, NextInput,
       Wake, RunFails, Cancelled, StopWorkers, Finish, TypeOK, Young
  <2> QED
    BY <2>1, <2>2
<1>8. ASSUME NEW x \in Live \ Live'
      PROVE  Live \cap Below(x) = {}
  <2>1. x = t /\ x \in Tasks /\ work[t] \notin Ended /\ work'[t] \in Ended
    BY <1>1, <1>8 DEF Live
  <2>2. work[t] \in Young \/ (work[t] = "ending" /\ Joined(t))
    BY <2>1 DEF WorkerStep, RunChild, CreateFails, BeginGroup, NextInput,
       Wake, RunFails, Cancelled, StopWorkers, Finish, TypeOK, Young, Ended
  <2> QED
    BY <2>1, <2>2, JoinedIsClear DEF Order, Clear, Young
<1>9. ASSUME NEW x \in Tasks, work'[x] = "ending"
      PROVE  \/ work[x] = "ending" /\ joining'[x] = joining[x]
             \/ Live' = Live /\ joining'[x] = Live \cap Below(x)
  <2>1. CASE x # t
    <3>1. joining'[x] = joining[x]
      BY <2>1 DEF WorkerStep, RunChild, CreateFails, BeginGroup, NextInput, Wake, RunFails,
         Cancelled, StopWorkers, Finish, CancelBelow, TypeOK, Agents
    <3> QED
      BY <1>1, <1>9, <2>1, <3>1
  <2>2. CASE x = t
    <3>1. StopWorkers(t)
      BY <1>9, <2>2 DEF WorkerStep, RunChild, CreateFails, BeginGroup, NextInput, Wake, RunFails,
         Cancelled, StopWorkers, Finish, TypeOK
    <3>2. joining'[t] = Live \cap Below(t)
      BY <3>1, TreeConstants DEF StopWorkers, CancelBelow, TypeOK
    <3>3. Live' = Live
      BY <3>1 DEF StopWorkers, Live, TypeOK, Ended
    <3> QED
      BY <2>2, <3>2, <3>3
  <2> QED
    BY <2>1, <2>2
<1>10. \A x \in Tasks : Manager(x)'
  BY <1>5, <1>6 DEF Manager
<1> QED
  BY <1>1, <1>3, <1>4, <1>7, <1>8, <1>9, <1>10, OrderShrinks

\* A step that moves no worker keeps the order.
LEMMA OrderFrame ==
  ASSUME Order, UNCHANGED <<lineage, work>>,
         \A t \in Tasks : /\ active'[t] => active[t]
                          /\ cancel'[t] => t \in Live
                          /\ joining'[t] = joining[t]
                          /\ t \notin Registered => status'[t] = "none"
  PROVE  Order'
<1>1. Live' = Live
  BY DEF Live
<1>2. \A t \in Tasks : Manager(t)'
  BY <1>1 DEF Order, Family, Manager
<1>3. \A t \in Tasks \ Registered : work'[t] = "none" /\ status'[t] = "none"
  BY DEF Order, Family, Descent
<1> QED
  BY <1>1, <1>2, <1>3, OrderShrinks

LEMMA RootOrder ==
  ASSUME TypeOK, Order, RootStep \/ RootPass
  PROVE  Order'
<1> USE TreeConstants
<1>1. \A t \in Tasks : /\ cancel[t] => t \in Live
                       /\ t \notin Registered => status[t] = "none"
  BY DEF Order, Family, Manager, Descent
<1>2. EndGroup(Root) => \A t \in Tasks : active'[t] = active[t]
  BY DEF EndGroup, TypeOK, Agents
<1>3. CASE RootPass
  <2>1. PICK P \in SUBSET Tasks : Pass(P)
    BY <1>3, RootPassIsPass
  <2>2. UNCHANGED <<tasksv, joining>> /\ (UNCHANGED active \/ EndGroup(Root))
    BY <2>1, PassSteps
  <2> QED
    BY <1>1, <1>2, <2>2, OrderFrame DEF tasksv
<1>4. CASE RootStep
  <2>1. ASSUME NEW reset \in BOOLEAN, Begin(reset) PROVE Order'
    <3>1. UNCHANGED <<tasksv, joining>> /\ \A t \in Tasks : active'[t] = active[t]
      BY <2>1 DEF Begin, TypeOK, Agents
    <3> QED
      BY <1>1, <3>1, OrderFrame DEF tasksv
  <2>2. CASE StopRoot
    BY <1>1, <1>2, <2>2, OrderFrame DEF StopRoot, tasksv
  <2>3. CASE StopRootWorkers
    <3>1. /\ UNCHANGED <<lineage, status, work, active>>
          /\ \A t \in Tasks : joining'[t] = joining[t] /\ (cancel'[t] => cancel[t] \/ t \in Live)
      BY <2>3 DEF StopRootWorkers, CancelBelow, TypeOK, Agents
    <3> QED
      BY <1>1, <3>1, OrderFrame
  <2>4. CASE EndRoot
    <3>1. /\ UNCHANGED <<lineage, work, cancel, active>>
          /\ \A t \in Tasks : /\ joining'[t] = joining[t]
                              /\ status[t] = "none" => status'[t] = "none"
      BY <2>4 DEF EndRoot, CancelledBelow, TypeOK, Agents
    <3> QED
      BY <1>1, <3>1, OrderFrame
  <2> QED
    BY <1>4, <2>1, <2>2, <2>3, <2>4 DEF RootStep
<1> QED
  BY <1>3, <1>4

LEMMA RegisterOrder ==
  ASSUME Quotas, Order, NEW k \in Calls, Register(k)
  PROVE  Order'
<1> USE TreeConstants
<1>1. PICK t \in Tasks \ Registered :
        /\ lineage' = [lineage EXCEPT ![t] = <<calls[k].by>> \o Lineage(calls[k].by)]
        /\ status' = [status EXCEPT ![t] = "running"]
        /\ work' = [work EXCEPT ![t] = "gated"]
  BY DEF Register
<1>2. PICK by : by = calls[k].by
  OBVIOUS
<1>3. by \in Registered \cup {Root} /\ active[by]
  BY <1>2 DEF Register, StillAdmitted, MayExecute, Quotas, Shaped, CallShape, NoCall
<1>4. Family /\ Clear /\ Awaited
  BY DEF Order
<1>5. by # Root => by \in Tasks /\ work[by] \in {"model", "wait"} /\ by \in Live
  BY <1>3, <1>4 DEF Family, Manager, Registered, Live, Ended
<1>6. /\ Registered' = Registered \cup {t} /\ Live' = Live \cup {t}
      /\ \A x \in Agents : x # t => Above(x)' = Above(x)
      /\ Above(t)' = {by} \cup Above(by)
  BY <1>1, <1>2, <1>3, <1>4, Registration DEF Quotas
<1>7. Above(Root) = {}
  BY DEF Above, Lineage
<1>8. Above(by) \subseteq Registered \cup {Root} /\ (by = Root \/ Root \in Above(by))
  BY <1>3, <1>4, <1>5, <1>7 DEF Family, Descent
<1>9. t \in Tasks /\ t \notin Registered /\ t # by /\ t # Root /\ t \notin Live
      /\ work[t] = "none" /\ status[t] = "none"
  BY <1>3, <1>4 DEF Family, Descent, Live, Ended
<1>10. \A x \in Tasks : x # t => work'[x] = work[x] /\ status'[x] = status[x]
  BY <1>1 DEF Quotas, TypeOK
<1>11. work'[t] = "gated"
  BY <1>1 DEF Quotas, TypeOK
<1>12. UNCHANGED <<active, cancel, joining>>
  BY DEF Register
<1>13. \A x \in Tasks : x \in Registered => Above(x) \subseteq Registered \cup {Root}
  BY <1>4 DEF Family, Descent
<1>14. \A a \in Tasks : Below(a)' \subseteq Below(a) \cup {t}
  BY <1>6, <1>9 DEF Below, Registered
<1>15. Below(t)' = {}
  <2>1. \A x \in Registered : t \notin Above(x)'
    BY <1>6, <1>9, <1>13 DEF Registered, Agents
  <2>2. t \notin Above(t)'
    BY <1>6, <1>8, <1>9
  <2> QED
    BY <1>6, <2>1, <2>2 DEF Below
\* An agent above t is by, which runs its manager, or above by, which lives.
<1>16. ASSUME NEW a \in Tasks, t \in Below(a)'
       PROVE  a # t /\ work[a] \notin Young /\ (work[a] = "ending" => by \in Live \cap Below(a))
  <2>1. a \in {by} \cup Above(by) /\ a # t
    BY <1>6, <1>15, <1>16 DEF Below
  <2>2. CASE a = by
    BY <1>5, <2>1, <2>2 DEF Young
  <2>3. CASE a # by
    <3>1. by # Root /\ by \in Live \cap Below(a)
      BY <1>3, <1>5, <1>7, <2>1, <2>3 DEF Below
    <3> QED
      BY <1>4, <2>1, <3>1 DEF Clear, Young
  <2> QED
    BY <2>2, <2>3
<1>17. Family'
  <2>1. ASSUME NEW x \in Tasks
        PROVE  Descent(x)'
    <3>1. CASE x = t
      BY <1>6, <1>8, <1>9, <1>3, <3>1 DEF Descent
    <3>2. CASE x # t
      <4>1. Descent(x) /\ Above(x)' = Above(x)
        BY <1>4, <1>6, <3>2 DEF Family, Agents
      <4> QED
        BY <1>6, <1>10, <3>2, <4>1 DEF Descent
    <3> QED
      BY <3>1, <3>2
  <2>2. ASSUME NEW x \in Tasks
        PROVE  Manager(x)'
    <3>1. Manager(x)
      BY <1>4 DEF Family
    <3> QED
      BY <1>6, <1>9, <1>10, <1>12, <3>1 DEF Manager
  <2> QED
    BY <2>1, <2>2 DEF Family
<1>18. Clear'
  <2>1. ASSUME NEW a \in Tasks, work'[a] \in Young
        PROVE  Live' \cap Below(a)' = {}
    <3>1. CASE a = t
      BY <1>15, <3>1
    <3>2. CASE a # t
      <4>1. work[a] \in Young
        BY <1>10, <2>1, <3>2
      <4>2. t \notin Below(a)'
        BY <1>16, <4>1
      <4>3. Live \cap Below(a) = {}
        BY <1>4, <4>1 DEF Clear, Young
      <4> QED
        BY <1>6, <1>14, <4>2, <4>3
    <3> QED
      BY <3>1, <3>2
  <2> QED
    BY <2>1 DEF Clear, Young
<1>19. Awaited'
  <2>1. ASSUME NEW s \in Tasks, work'[s] = "ending", NEW x \in Live' \cap Below(s)'
        PROVE  \E y \in joining'[s] \cap Live' : y = x \/ y \in Above(x)'
    <3>1. s # t /\ work[s] = "ending"
      BY <1>10, <1>11, <2>1
    <3>2. CASE x = t
      <4>1. by \in Live \cap Below(s)
        BY <1>16, <2>1, <3>1, <3>2
      <4>2. PICK y \in joining[s] \cap Live : y = by \/ y \in Above(by)
        BY <1>4, <3>1, <4>1 DEF Awaited
      <4> QED
        BY <1>6, <1>12, <3>2, <4>2
    <3>3. CASE x # t
      <4>1. x \in Live \cap Below(s) /\ x \in Agents
        BY <1>6, <1>14, <2>1, <3>3 DEF Live, Agents
      <4>2. PICK y \in joining[s] \cap Live : y = x \/ y \in Above(x)
        BY <1>4, <3>1, <4>1 DEF Awaited
      <4> QED
        BY <1>6, <1>12, <3>3, <4>1, <4>2
    <3> QED
      BY <3>2, <3>3
  <2> QED
    BY <2>1 DEF Awaited
<1> QED
  BY <1>17, <1>18, <1>19 DEF Order

LEMMA AcceptOrder ==
  ASSUME Quotas, Order, NEW k \in Calls, Accept(k)
  PROVE  Order'
<1> USE TreeConstants
<1>1. PICK t : t = calls[k].task
  OBVIOUS
<1>2. /\ t \in Registered /\ t \in Tasks /\ Continuable(t)
      /\ work' = [work EXCEPT ![t] = "new"] /\ status' = [status EXCEPT ![t] = "running"]
      /\ Registered' = Registered /\ Live' = Live \cup {t}
      /\ UNCHANGED <<lineage, active, cancel, joining>>
  BY <1>1, Activation DEF Accept, Activated
<1>3. \A x \in Tasks : x # t => work'[x] = work[x] /\ status'[x] = status[x]
  BY <1>2 DEF Quotas, TypeOK
<1>4. work'[t] = "new" /\ work[t] = "done" /\ Live \cap Below(t) = {}
  BY <1>2 DEF Quotas, TypeOK, Continuable, Busy
<1>5. Family /\ Clear /\ Awaited
  BY DEF Order
<1>6. \A a \in Agents : Above(a)' = Above(a) /\ Below(a)' = Below(a)
  BY <1>2 DEF Above, Lineage, Below, Registered
\* What is above the continued task runs its manager or is over.
<1>7. ASSUME NEW a \in Tasks, t \in Below(a)
      PROVE  a # t /\ work[a] \notin Young /\ work[a] # "ending"
  <2>1. a \in Above(t) /\ a # t
    BY <1>5, <1>7 DEF Below, Family, Descent
  <2>2. work[a] # "killed" /\ (a \in Live => active[a])
    BY <1>2, <2>1 DEF Continuable
  <2>3. active[a] => work[a] \in {"model", "wait"}
    BY <1>5 DEF Family, Manager
  <2> QED
    BY <2>1, <2>2, <2>3 DEF Live, Ended, Young
<1>8. Family'
  <2>1. ASSUME NEW x \in Tasks
        PROVE  Descent(x)' /\ Manager(x)'
    <3>1. Descent(x) /\ Manager(x)
      BY <1>5 DEF Family
    <3>2. Descent(x)'
      BY <1>2, <1>3, <1>6, <3>1 DEF Descent, Agents
    <3>3. Manager(x)'
      BY <1>2, <1>3, <1>4, <3>1 DEF Manager
    <3> QED
      BY <3>2, <3>3
  <2> QED
    BY <2>1 DEF Family
<1>9. Clear'
  <2>1. ASSUME NEW a \in Tasks, work'[a] \in Young
        PROVE  Live' \cap Below(a)' = {}
    <3>1. t \notin Below(a) /\ Live \cap Below(a) = {}
      BY <1>3, <1>4, <1>5, <1>7, <2>1 DEF Clear, Young
    <3> QED
      BY <1>2, <1>6, <3>1
  <2> QED
    BY <2>1 DEF Clear, Young
<1>10. Awaited'
  <2>1. ASSUME NEW s \in Tasks, work'[s] = "ending", NEW x \in Live' \cap Below(s)'
        PROVE  \E y \in joining'[s] \cap Live' : y = x \/ y \in Above(x)'
    <3>1. s # t /\ work[s] = "ending" /\ x \in Below(s)
      BY <1>3, <1>4, <1>6, <2>1
    <3>2. x # t /\ x \in Live /\ x \in Agents
      BY <1>2, <1>7, <2>1, <3>1 DEF Live, Agents
    <3>3. PICK y \in joining[s] \cap Live : y = x \/ y \in Above(x)
      BY <1>5, <3>1, <3>2 DEF Awaited
    <3> QED
      BY <1>2, <1>6, <3>2, <3>3
  <2> QED
    BY <2>1 DEF Awaited
<1> QED
  BY <1>8, <1>9, <1>10 DEF Order

LEMMA CallOrder ==
  ASSUME Quotas, Order, NEW k \in Calls, CallStep(k)
  PROVE  Order'
<1> USE TreeConstants
<1>1. \A t \in Tasks : /\ cancel[t] => t \in Live
                       /\ t \notin Registered => status[t] = "none"
  BY DEF Order, Family, Manager, Descent
<1>2. CASE \/ \E a \in Agents : Start(k, a) \/ (\E t \in Tasks : Continue(k, a, t))
           \/ RegisterFails(k) \/ Refund(k) \/ Reject(k)
  <2>1. UNCHANGED <<tasksv, active, joining>>
    BY <1>2 DEF Start, Continue, RegisterFails, Refund, Reject
  <2> QED
    BY <1>1, <2>1, OrderFrame DEF tasksv
<1>3. CASE Open(k)
  <2>1. /\ Registered' = Registered /\ Live' = Live
        /\ \A x \in Tasks : work'[x] = work[x] \/ (work[x] = "gated" /\ work'[x] = "new")
    BY <1>3, OpenTree
  <2>2. UNCHANGED <<lineage, status, active, cancel, joining>>
    BY <1>3 DEF Open
  <2>3. \A t \in Tasks : work[t] = "gated" => t \in Registered /\ ~active[t]
    BY DEF Order, Family, Descent, Manager
  <2>4. \A t \in Tasks \ Registered : work'[t] = "none" /\ status'[t] = "none"
    BY <1>1, <2>1, <2>2, <2>3 DEF Order, Family, Descent
  <2>5. \A t \in Tasks : Manager(t)'
    BY <2>1, <2>2, <2>3 DEF Order, Family, Manager
  <2>6. \A t \in Tasks : work'[t] \in Young => work[t] \in Young
    BY <2>1 DEF Young
  <2>7. \A t \in Tasks : work'[t] = "ending" => work[t] = "ending" /\ joining'[t] = joining[t]
    BY <2>1, <2>2
  <2> QED
    BY <2>1, <2>2, <2>4, <2>5, <2>6, <2>7, OrderShrinks
<1>4. CASE OpenFails(k)
  <2>1. PICK t \in Registered : t = calls[k].task
    BY <1>4, Announced DEF OpenFails
  <2>2. /\ UNCHANGED <<lineage, work, active, joining>>
        /\ cancel' = [cancel EXCEPT ![t] = t \in Live]
        /\ status' = [status EXCEPT ![t] = "cancelled"]
    BY <1>4, <2>1 DEF OpenFails
  <2>3. \A x \in Tasks : /\ cancel'[x] => x \in Live
                         /\ x \notin Registered => status'[x] = "none"
    BY <1>1, <2>1, <2>2 DEF Quotas, TypeOK, Registered
  <2> QED
    BY <2>2, <2>3, OrderFrame
<1> QED
  BY <1>2, <1>3, <1>4, RegisterOrder, AcceptOrder DEF CallStep

LEMMA OrderStep ==
  ASSUME Quotas, Order, [Next]_vars
  PROVE  Order'
<1>0. TypeOK
  BY DEF Quotas
<1>1. CASE UNCHANGED vars
  <2>1. \A t \in Tasks : /\ cancel[t] => t \in Live
                         /\ t \notin Registered => status[t] = "none"
    BY DEF Order, Family, Manager, Descent
  <2> QED
    BY <1>1, <2>1, OrderFrame DEF vars, tasksv
<1> QED
  BY <1>0, <1>1, NextSteps, CallOrder, WorkerOrder, RootOrder

-----------------------------------------------------------------------------
(* The root's run and its tree *)

\* For the root everything in the tree and every call counts.
LEMMA RootBusy ==
  Shaped /\ Family => (Busy(Root) <=> Held # {} \/ Live # {})
<1> SUFFICES ASSUME Shaped, Family PROVE Busy(Root) <=> Held # {} \/ Live # {}
  OBVIOUS
<1>1. Live \subseteq Registered /\ Below(Root) = Registered
  BY TreeConstants DEF Family, Descent, Live, Ended, Below, Registered
<1>2. \A k \in Calls : k \in Held <=> k \in Admissions \cup Activating
  BY DEF Held, Admissions, Activating, Shaped, CallShape, NoCall
<1>3. \A k \in Admissions : calls[k].by = Root \/ calls[k].by \in Registered
  BY DEF Admissions, Shaped, CallShape, NoCall
<1>4. \A k \in Activating : calls[k].task \in Registered
  BY DEF Activating, Shaped, CallShape, NoCall
<1>5. Held \subseteq Calls /\ Admissions \subseteq Calls /\ Activating \subseteq Calls
  BY DEF Held, Admissions, Activating
<1> QED
  BY <1>1, <1>2, <1>3, <1>4, <1>5 DEF Busy

\* A step that leaves the root's run where it is.
LEMMA RootRunFrame ==
  ASSUME RootRun, UNCHANGED phase, active'[Root] = active[Root],
         Live' \subseteq Live \/ active[Root], joining'[Root] = joining[Root],
         \A k \in Calls : calls'[k].pc = "root" => calls[k].pc = "root"
  PROVE  RootRun'
  BY DEF RootRun

LEMMA NoOrphansFrame ==
  ASSUME RootRun, NoOrphans, phase' \in {phase} \/ phase' # "idle",
         \/ active[Root]
         \/ /\ Live' \subseteq Live
            /\ \A t \in Tasks : status'[t] = "running" => status[t] = "running"
  PROVE  NoOrphans'
  BY DEF RootRun, NoOrphans

\* The calls of a step that only ends or moves a call of its own.
LEMMA CallRoot ==
  ASSUME Quotas, Order, RootRun, NoOrphans, NEW k \in Calls, CallStep(k)
  PROVE  RootRun' /\ NoOrphans'
<1> USE TreeConstants
<1>0. TypeOK /\ calls \in [Calls -> CallType]
  BY CallTypes DEF Quotas
<1>1. CASE \/ \E a \in Agents : Start(k, a) \/ (\E t \in Tasks : Continue(k, a, t))
           \/ RegisterFails(k) \/ Refund(k)
  <2>1. UNCHANGED <<phase, tasksv, active, joining>>
    BY <1>1 DEF Start, Continue, RegisterFails, Refund, rootvars
  <2>2. \A j \in Calls : calls'[j].pc = "root" => calls[j].pc = "root"
    BY <1>0, <1>1 DEF Start, Continue, Reserve, RegisterFails, Refund, NoCall
  <2>3. Live' = Live
    BY <2>1 DEF Live, tasksv
  <2> QED
    BY <2>1, <2>2, <2>3, RootRunFrame, NoOrphansFrame DEF tasksv
<1>2. CASE Register(k)
  <2>1. active[Root] /\ UNCHANGED <<phase, active, joining>>
    BY <1>2 DEF Register, StillAdmitted, MayExecute, rootvars
  <2>2. PICK t : calls' = [calls EXCEPT ![k].pc = "emit", ![k].task = t]
    BY <1>2 DEF Register
  <2>3. \A j \in Calls : calls'[j].pc = "root" => calls[j].pc = "root"
    BY <1>0, <2>2 DEF CallType
  <2> QED
    BY <2>1, <2>3, RootRunFrame, NoOrphansFrame
<1>3. CASE Open(k)
  <2>1. Live' = Live /\ UNCHANGED <<phase, active, joining, status>>
    BY <1>3, OpenTree DEF Open, rootvars
  <2>2. \A j \in Calls : calls'[j].pc = "root" => calls[j].pc = "root"
    BY <1>0, <1>3 DEF Open, NoCall
  <2> QED
    BY <2>1, <2>2, RootRunFrame, NoOrphansFrame
<1>4. CASE OpenFails(k)
  <2>1. Live' = Live /\ UNCHANGED <<phase, active, joining>>
    BY <1>4 DEF OpenFails, rootvars, Live
  <2>2. \A j \in Calls : calls'[j].pc = "root" => calls[j].pc = "root"
    BY <1>0, <1>4 DEF OpenFails, CallType
  <2>3. \A t \in Tasks : status'[t] = "running" => status[t] = "running"
    BY <1>0, <1>4 DEF OpenFails, TypeOK
  <2> QED
    BY <2>1, <2>2, <2>3, RootRunFrame, NoOrphansFrame
<1>5. CASE Reject(k)
  <2>1. UNCHANGED <<tasksv, active, joining>> /\ calls' = [calls EXCEPT ![k] = NoCall]
    BY <1>5 DEF Reject
  <2>2. Live' = Live /\ status' = status
    BY <2>1 DEF Live, tasksv
  <2>3. \A j \in Calls : calls'[j].pc = "root" => j # k /\ calls[j].pc = "root"
    BY <1>0, <2>1 DEF NoCall
  <2>4. CASE calls[k].pc = "root"
    <3>1. phase = "activate" /\ active[Root] /\ phase' = "scan"
          /\ \A j \in Calls : calls'[j].pc # "root"
      BY <1>5, <2>3, <2>4 DEF Reject, RootRun
    <3> QED
      BY <2>1, <3>1, NoOrphansFrame DEF RootRun
  <2>5. CASE calls[k].pc # "root"
    <3>1. phase' = phase
      BY <1>5, <2>5 DEF Reject
    <3> QED
      BY <2>1, <2>2, <2>3, <3>1, RootRunFrame, NoOrphansFrame
  <2> QED
    BY <2>4, <2>5
<1>6. CASE Accept(k)
  <2>1. /\ UNCHANGED <<active, joining>> /\ calls' = [calls EXCEPT ![k] = NoCall]
        /\ active[Root]
    BY <1>6 DEF Accept, Activated, MayExecute
  <2>2. \A j \in Calls : calls'[j].pc = "root" => j # k /\ calls[j].pc = "root"
    BY <1>0, <2>1 DEF NoCall
  <2>3. CASE calls[k].pc = "root"
    <3>1. phase' \in {"model", "scan", "wait"} /\ \A j \in Calls : calls'[j].pc # "root"
      BY <1>6, <2>2, <2>3 DEF Accept, Activated, RootRun
    <3> QED
      BY <2>1, <3>1, NoOrphansFrame DEF RootRun
  <2>4. CASE calls[k].pc # "root"
    <3>1. phase' = phase
      BY <1>6, <2>4 DEF Accept, Activated, AcceptedForRoot
    <3> QED
      BY <2>1, <2>2, <3>1, RootRunFrame, NoOrphansFrame
  <2> QED
    BY <2>3, <2>4
<1> QED
  BY <1>1, <1>2, <1>3, <1>4, <1>5, <1>6 DEF CallStep

LEMMA WorkerRoot ==
  ASSUME Quotas, RootRun, NoOrphans, NEW t \in Tasks, WorkerStep(t)
  PROVE  RootRun' /\ NoOrphans'
<1>1. Quiet /\ UNCHANGED phase /\ active'[Root] = active[Root]
  BY WorkerSteps DEF Quotas
<1>2. joining'[Root] = joining[Root]
  BY TreeConstants DEF WorkerStep, RunChild, CreateFails, BeginGroup, NextInput, Wake, RunFails,
     Cancelled, StopWorkers, Finish, CancelBelow, Quotas, TypeOK
<1> QED
  BY <1>1, <1>2, RootRunFrame, NoOrphansFrame DEF Quiet

\* The root's run ends when all that lives below it has ended.
LEMMA EndIsClear ==
  ASSUME RootRun, EndRoot
  PROVE  Live = {}
  BY DEF RootRun, EndRoot, Joined

LEMMA OwnRoot ==
  ASSUME Quotas, Order, RootRun, NoOrphans, RootStep \/ RootPass
  PROVE  RootRun' /\ NoOrphans'
<1> USE TreeConstants
<1>0. TypeOK /\ calls \in [Calls -> CallType]
  BY CallTypes DEF Quotas
<1>1. EndGroup(Root) => active'[Root] = FALSE
  BY <1>0 DEF EndGroup, TypeOK
<1>2. CASE \E reset \in BOOLEAN : Begin(reset)
  <2>1. phase = "idle" /\ phase' = "model" /\ active'[Root] = TRUE /\ calls' = calls
    BY <1>0, <1>2 DEF Begin, TypeOK
  <2> QED
    BY <2>1 DEF RootRun, NoOrphans
<1>3. CASE StopRoot
  BY <1>1, <1>3 DEF StopRoot, RootRun, NoOrphans
<1>4. CASE StopRootWorkers
  <2>1. /\ phase = "stopping" /\ phase' = "ending" /\ UNCHANGED <<active, work, calls>>
        /\ joining'[Root] = Live \cap Below(Root)
    BY <1>0, <1>4 DEF StopRootWorkers, CancelBelow, TypeOK
  <2>2. Live \subseteq Below(Root) /\ Live' = Live
    BY <2>1 DEF Order, Family, Descent, Live, Ended, Below, Registered
  <2> QED
    BY <2>1, <2>2 DEF RootRun, NoOrphans
<1>5. CASE EndRoot
  <2>1. phase = "ending" /\ phase' = "idle" /\ UNCHANGED <<active, work, calls>>
        /\ status' = CancelledBelow(Root)
    BY <1>5 DEF EndRoot
  <2>2. Live' = {}
    BY <1>5, <2>1, EndIsClear DEF Live
  <2>3. \A t \in Tasks : status'[t] # "running"
    BY <2>1 DEF CancelledBelow, Order, Family, Descent, Below, Registered
  <2> QED
    BY <2>1, <2>2, <2>3 DEF RootRun, NoOrphans
<1>6. CASE RootPass
  <2>1. phase \in {"model", "wait", "scan"}
    BY <1>6 DEF RootPass, Notification, NotificationGoesOn
  <2>2. active[Root] /\ \A k \in Calls : calls[k].pc # "root"
    BY <2>1 DEF RootRun
  <2>3. PICK P \in SUBSET Tasks : Pass(P)
    BY <1>0, <1>6, RootPassIsPass
  <2>4. \/ UNCHANGED <<calls, active>> /\ phase' \in {"scan", "model", "wait"}
        \/ UNCHANGED calls /\ EndGroup(Root) /\ phase' = "stopping"
        \/ /\ phase' = "activate" /\ UNCHANGED active
           /\ \E k \in Calls, p \in Tasks : Reserve(k, Root, p, "root")
    BY <1>0, <2>3, PassSteps
  <2>5. CASE UNCHANGED <<calls, active>> /\ phase' \in {"scan", "model", "wait"}
    BY <2>2, <2>5 DEF RootRun, NoOrphans
  <2>6. CASE UNCHANGED calls /\ EndGroup(Root) /\ phase' = "stopping"
    BY <1>1, <2>2, <2>6 DEF RootRun, NoOrphans
  <2>7. CASE /\ phase' = "activate" /\ UNCHANGED active
             /\ \E k \in Calls, p \in Tasks : Reserve(k, Root, p, "root")
    <3>1. PICK k \in Calls : \E p \in Tasks : Reserve(k, Root, p, "root")
      BY <2>7
    <3>2. \A j \in Calls : j # k => calls'[j] = calls[j]
      BY <1>0, <3>1 DEF Reserve
    <3>3. \A j \in Calls : calls'[j].pc = "root" => j = k
      BY <2>2, <3>2
    <3> QED
      BY <2>2, <2>7, <3>3 DEF RootRun, NoOrphans
  <2> QED
    BY <2>4, <2>5, <2>6, <2>7
<1> QED
  BY <1>2, <1>3, <1>4, <1>5, <1>6 DEF RootStep

\* Who cancelled a worker is still there, when it neither ends nor leaves its call.
LEMMA CancellersFrame ==
  ASSUME Cancellers, phase = "ending" => phase' = "ending",
         \A t \in Tasks : cancel'[t] => cancel[t],
         \A k \in Calls, t \in Tasks :
            cancel'[t] /\ calls[k].pc = "unstart" /\ calls[k].task = t =>
                calls'[k].pc = "unstart" /\ calls'[k].task = t,
         \A s, t \in Tasks :
            cancel'[t] /\ work[s] = "ending" /\ t \in joining[s] =>
                work'[s] = "ending" /\ t \in joining'[s]
  PROVE  Cancellers'
<1>1. ASSUME NEW t \in Tasks, cancel'[t]
      PROVE  \/ phase' = "ending"
             \/ \E k \in Calls : calls'[k].pc = "unstart" /\ calls'[k].task = t
             \/ \E s \in Tasks : work'[s] = "ending" /\ t \in joining'[s]
  <2>1. \/ phase = "ending"
        \/ \E k \in Calls : calls[k].pc = "unstart" /\ calls[k].task = t
        \/ \E s \in Tasks : work[s] = "ending" /\ t \in joining[s]
    BY <1>1 DEF Cancellers
  <2> QED
    BY <1>1, <2>1
<1> QED
  BY <1>1 DEF Cancellers

LEMMA CallCancellers ==
  ASSUME Quotas, Order, RootRun, Cancellers, NEW k \in Calls, CallStep(k)
  PROVE  Cancellers'
<1> USE TreeConstants
<1>0. TypeOK /\ calls \in [Calls -> CallType]
  BY CallTypes DEF Quotas
<1>1. \A t \in Tasks : cancel[t] => t \in Live
  BY DEF Order, Family, Manager
<1>2. CASE OpenFails(k)
  <2>1. PICK t \in Tasks : t = calls[k].task
    BY <1>2, Announced DEF OpenFails
  <2>2. /\ UNCHANGED <<phase, work, joining>> /\ calls[k].pc = "emit"
        /\ calls' = [calls EXCEPT ![k].pc = "unstart"]
        /\ cancel' = [cancel EXCEPT ![t] = t \in Live]
    BY <1>2, <2>1 DEF OpenFails, rootvars
  <2>3. /\ calls'[k].pc = "unstart" /\ calls'[k].task = t
        /\ \A j \in Calls : j # k => calls'[j] = calls[j]
        /\ \A x \in Tasks : x # t => cancel'[x] = cancel[x]
    BY <1>0, <2>1, <2>2 DEF TypeOK, CallType
  <2>4. ASSUME NEW x \in Tasks, cancel'[x]
        PROVE  \/ phase' = "ending"
               \/ \E j \in Calls : calls'[j].pc = "unstart" /\ calls'[j].task = x
               \/ \E s \in Tasks : work'[s] = "ending" /\ x \in joining'[s]
    <3>1. CASE x = t
      BY <2>3, <3>1
    <3>2. CASE x # t
      <4>1. \/ phase = "ending"
            \/ \E j \in Calls : calls[j].pc = "unstart" /\ calls[j].task = x
            \/ \E s \in Tasks : work[s] = "ending" /\ x \in joining[s]
        BY <2>3, <2>4, <3>2 DEF Cancellers
      <4>2. ASSUME NEW j \in Calls, calls[j].pc = "unstart", calls[j].task = x
            PROVE  calls'[j] = calls[j]
        BY <2>2, <2>3, <4>2
      <4> QED
        BY <2>2, <4>1, <4>2
    <3> QED
      BY <3>1, <3>2
  <2> QED
    BY <2>4 DEF Cancellers
<1>3. CASE ~ OpenFails(k)
  <2>1. UNCHANGED cancel /\ UNCHANGED joining
    BY <1>3 DEF CallStep, Start, Continue, Register, RegisterFails, Open, Refund, Accept,
       Activated, Reject, tasksv
  <2>2. phase = "ending" => phase' = "ending"
    <3>1. phase' # phase => calls[k].pc = "root"
      BY <1>3 DEF CallStep, Start, Continue, Register, RegisterFails, Open, Refund, Accept,
         Activated, AcceptedForRoot, Reject, rootvars
    <3> QED
      BY <3>1 DEF RootRun
  <2>3. \A j \in Calls : j # k => calls'[j] = calls[j]
    BY <1>0, <1>3 DEF CallStep, Start, Continue, Reserve, Register, RegisterFails, Open, Refund,
       Accept, Activated, Reject
  <2>4. ASSUME NEW j \in Calls, NEW t \in Tasks, cancel'[t],
               calls[j].pc = "unstart", calls[j].task = t
        PROVE  calls'[j].pc = "unstart" /\ calls'[j].task = t
    <3>1. t \in Live
      BY <1>1, <2>1, <2>4
    <3>2. CallShape(calls[k])
      BY DEF Quotas, Shaped
    <3>3. j # k
      BY <1>3, <2>4, <3>1, <3>2 DEF CallStep, Start, Continue, Reserve, Register, RegisterFails,
         Open, Refund, Accept, Reject, NoCall, CallShape
    <3> QED
      BY <2>3, <2>4, <3>3
  <2>5. ASSUME NEW s \in Tasks, work[s] = "ending"
        PROVE  work'[s] = "ending"
    <3>1. CASE Register(k)
      <4>1. PICK t \in Tasks \ Registered : work' = [work EXCEPT ![t] = "gated"]
        BY <3>1 DEF Register
      <4>2. t # s
        BY <2>5 DEF Order, Family, Descent
      <4> QED
        BY <1>0, <2>5, <4>1, <4>2 DEF TypeOK
    <3>2. CASE Accept(k)
      <4>1. PICK t : t = calls[k].task
        OBVIOUS
      <4>2. work' = [work EXCEPT ![t] = "new"] /\ work[t] = "done"
        BY <3>2, <4>1, Activation DEF Accept, Continuable
      <4> QED
        BY <1>0, <2>5, <4>2 DEF TypeOK
    <3>3. CASE Open(k)
      BY <2>5, <3>3, OpenTree
    <3>4. CASE ~ (Register(k) \/ Accept(k) \/ Open(k))
      BY <1>3, <2>5, <3>4 DEF CallStep, Start, Continue, RegisterFails, Refund, Reject, tasksv
    <3> QED
      BY <3>1, <3>2, <3>3, <3>4
  <2> QED
    BY <2>1, <2>2, <2>4, <2>5, CancellersFrame
<1> QED
  BY <1>2, <1>3

LEMMA WorkerCancellers ==
  ASSUME Quotas, Order, Cancellers, NEW t \in Tasks, WorkerStep(t)
  PROVE  Cancellers'
<1> USE TreeConstants
<1>0. TypeOK
  BY DEF Quotas
<1>1. UNCHANGED <<phase, calls>> /\ \A x \in Tasks : x # t => work'[x] = work[x]
  BY <1>0, WorkerSteps DEF Quiet
<1>2. CASE StopWorkers(t)
  <2>1. /\ work[t] = "stopping" /\ work'[t] = "ending"
        /\ joining'[t] = Live \cap Below(t)
        /\ \A s \in Tasks : s # t => joining'[s] = joining[s]
        /\ \A x \in Tasks : cancel'[x] => cancel[x] \/ x \in Live \cap Below(t)
    BY <1>0, <1>2 DEF StopWorkers, CancelBelow, TypeOK, Agents
  <2>2. ASSUME NEW x \in Tasks, cancel'[x]
        PROVE  \/ phase' = "ending"
               \/ \E j \in Calls : calls'[j].pc = "unstart" /\ calls'[j].task = x
               \/ \E s \in Tasks : work'[s] = "ending" /\ x \in joining'[s]
    <3>1. CASE x \in Live \cap Below(t)
      BY <2>1, <3>1
    <3>2. CASE cancel[x]
      <4>1. \/ phase = "ending"
            \/ \E j \in Calls : calls[j].pc = "unstart" /\ calls[j].task = x
            \/ \E s \in Tasks : work[s] = "ending" /\ x \in joining[s]
        BY <3>2 DEF Cancellers
      <4>2. ASSUME NEW s \in Tasks, work[s] = "ending", x \in joining[s]
            PROVE  work'[s] = "ending" /\ x \in joining'[s]
        BY <1>1, <2>1, <4>2
      <4> QED
        BY <1>1, <4>1, <4>2
    <3> QED
      BY <2>1, <2>2, <3>1, <3>2
  <2> QED
    BY <2>2 DEF Cancellers
<1>3. CASE ~ StopWorkers(t)
  <2>1. \A x \in Tasks : cancel'[x] => cancel[x]
    BY <1>0, <1>3 DEF WorkerStep, RunChild, CreateFails, BeginGroup, NextInput, Wake, RunFails,
       Cancelled, Finish, TypeOK
  <2>2. ASSUME NEW s \in Tasks, NEW x \in Tasks, cancel'[x], work[s] = "ending", x \in joining[s]
        PROVE  work'[s] = "ending" /\ x \in joining'[s]
    <3>1. cancel[x] /\ x \in Live
      BY <2>1, <2>2 DEF Order, Family, Manager
    <3>2. s # t
      <4>1. ASSUME s = t PROVE FALSE
        <5>1. Finish(t)
          BY <1>3, <2>2, <4>1 DEF WorkerStep, RunChild, CreateFails, BeginGroup, NextInput, Wake,
             RunFails, Cancelled
        <5> QED
          BY <2>2, <3>1, <4>1, <5>1 DEF Finish, Joined
      <4> QED
        BY <4>1
    <3>3. joining'[s] = joining[s]
      BY <1>0, <1>3, <3>2 DEF WorkerStep, RunChild, CreateFails, BeginGroup, NextInput, Wake,
         RunFails, Cancelled, Finish, TypeOK, Agents
    <3> QED
      BY <1>1, <2>2, <3>2, <3>3
  <2> QED
    BY <1>1, <2>1, <2>2, CancellersFrame
<1> QED
  BY <1>2, <1>3

LEMMA OwnCancellers ==
  ASSUME Quotas, Order, RootRun, Cancellers, RootStep \/ RootPass
  PROVE  Cancellers'
<1> USE TreeConstants
<1>0. TypeOK
  BY DEF Quotas
<1>1. CASE StopRootWorkers
  BY <1>1 DEF StopRootWorkers, Cancellers
<1>2. CASE EndRoot
  <2>1. Live = {} /\ cancel' = cancel
    BY <1>2, EndIsClear DEF EndRoot
  <2> QED
    BY <2>1 DEF Cancellers, Order, Family, Manager
<1>3. CASE (\E reset \in BOOLEAN : Begin(reset)) \/ StopRoot
  <2>1. phase # "ending" /\ UNCHANGED <<tasksv, joining, calls>>
    BY <1>3 DEF Begin, StopRoot
  <2> QED
    BY <2>1, CancellersFrame DEF tasksv
<1>4. CASE RootPass
  <2>1. PICK P \in SUBSET Tasks : Pass(P)
    BY <1>0, <1>4, RootPassIsPass
  <2>2. phase # "ending" /\ UNCHANGED <<tasksv, joining>>
    BY <1>4, <2>1 DEF RootPass, Notification, NotificationGoesOn, Pass
  <2>3. UNCHANGED calls \/ \E k \in Calls, p \in Tasks : Reserve(k, Root, p, "root")
    BY <1>0, <2>1, PassSteps
  <2>4. \A j \in Calls : calls[j].pc = "unstart" => calls'[j] = calls[j]
    BY <1>0, <2>3 DEF Reserve, NoCall, TypeOK
  <2> QED
    BY <2>2, <2>4, CancellersFrame DEF tasksv
<1> QED
  BY <1>1, <1>2, <1>3, <1>4 DEF RootStep

-----------------------------------------------------------------------------
(* Whoever ends the root's wait *)

\* Somebody who is cancelled without a word leaves somebody else behind.
LEMMA SilentEnd ==
  ASSUME Quotas, Order, Cancellers, NEW t \in Tasks, Cancelled(t), phase = "wait"
  PROVE  Held # {} \/ Live' # {}
<1>0. TypeOK
  BY DEF Quotas
<1>1. cancel[t] /\ work[t] # "ending" /\ \A x \in Tasks : x # t => work'[x] = work[x]
  BY <1>0, WorkerSteps DEF Cancelled, WorkerStep
<1>2. \/ \E k \in Calls : calls[k].pc = "unstart" /\ calls[k].task = t
      \/ \E s \in Tasks : work[s] = "ending" /\ t \in joining[s]
  BY <1>1 DEF Cancellers
<1>3. ASSUME NEW k \in Calls, calls[k].pc = "unstart"
      PROVE  k \in Held
  BY <1>3 DEF Held, NoCall
<1>4. ASSUME NEW s \in Tasks, work[s] = "ending"
      PROVE  s \in Live'
  BY <1>1, <1>4 DEF Live, Ended
<1> QED
  BY <1>2, <1>3, <1>4

\* A published result wakes an active root.
LEMMA PublishWakes ==
  ASSUME TypeOK, NEW t \in Tasks, active[Root], Publish(t)
  PROVE  changed'[Root] = TRUE
<1> DEFINE p == Parent(t)
<1>1. \/ changed' = [changed EXCEPT ![Root] = TRUE]
      \/ changed' = [changed EXCEPT ![Root] = TRUE, ![p] = TRUE]
  BY Zenon DEF Publish
<1> HIDE DEF p
<1> QED
  BY <1>1, TreeConstants DEF TypeOK

LEMMA WokenStep ==
  ASSUME Quotas, Order, RootRun, Cancellers, RootIsWoken, Quotas', Order', [Next]_vars,
         phase' = "wait", ~changed'[Root]
  PROVE  Held' # {} \/ Live' # {}
<1> USE TreeConstants
<1>0. TypeOK /\ Shaped /\ Family /\ calls \in [Calls -> CallType]
  BY CallTypes DEF Quotas, Order
<1>1. phase = "wait" /\ ~changed[Root] => Held # {} \/ Live # {}
  BY <1>0, RootBusy DEF RootIsWoken
<1>2. ASSUME NEW k \in Calls, CallStep(k)
      PROVE  Held' # {} \/ Live' # {}
  <2>1. CASE RegisterFails(k) \/ Open(k) \/ Refund(k) \/ Reject(k)
             \/ \E a \in Agents : Start(k, a)
    <3>1. changed' = AllChanged
      BY <2>1 DEF Start, RegisterFails, Open, Refund, Reject
    <3> QED
      BY <3>1 DEF AllChanged
  <2>2. CASE \E a \in Agents, t \in Tasks : Continue(k, a, t)
    <3>1. calls'[k].op = "continue"
      BY <1>0, <2>2 DEF Continue, Reserve
    <3> QED
      BY <3>1 DEF Held, NoCall
  <2>3. CASE Register(k)
    <3>1. PICK t : calls' = [calls EXCEPT ![k].pc = "emit", ![k].task = t]
      BY <2>3 DEF Register
    <3>2. calls'[k].pc = "emit"
      BY <1>0, <3>1 DEF CallType
    <3> QED
      BY <3>2 DEF Held, NoCall
  <2>4. CASE OpenFails(k)
    <3>1. calls'[k].pc = "unstart"
      BY <1>0, <2>4 DEF OpenFails, CallType
    <3> QED
      BY <3>1 DEF Held, NoCall
  <2>5. CASE Accept(k)
    <3>1. PICK t : t = calls[k].task
      OBVIOUS
    <3>2. Live' = Live \cup {t}
      BY <2>5, <3>1, Activation
    <3> QED
      BY <3>2
  <2> QED
    BY <1>2, <2>1, <2>2, <2>3, <2>4, <2>5 DEF CallStep
<1>3. ASSUME NEW t \in Tasks, WorkerStep(t)
      PROVE  Held' # {} \/ Live' # {}
  <2>1. /\ UNCHANGED <<phase, calls>> /\ active[Root]
        /\ \A x \in Tasks : x # t => work'[x] = work[x]
    BY <1>0, <1>3, WorkerSteps DEF Quiet, RootRun
  <2>2. Held' = Held
    BY <2>1 DEF Held
  <2>3. CASE CreateFails(t) \/ Finish(t)
    <3>1. Publish(t)
      BY <2>3 DEF CreateFails, Finish
    <3> QED
      BY <1>0, <2>1, <3>1, PublishWakes
  <2>4. CASE Cancelled(t)
    BY <2>1, <2>2, <2>4, SilentEnd
  <2>5. CASE ~ (CreateFails(t) \/ Finish(t) \/ Cancelled(t))
    <3>1. Live' = Live
      BY <1>0, <1>3, <2>5 DEF WorkerStep, RunChild, BeginGroup, NextInput, Wake, RunFails,
         StopWorkers, Live, TypeOK, Ended
    <3>2. changed[Root] => changed'[Root]
      BY <1>0, <1>3, <2>5 DEF WorkerStep, RunChild, BeginGroup, NextInput, Wake, RunFails,
         StopWorkers, TypeOK, inbox
    <3> QED
      BY <1>1, <2>1, <2>2, <3>1, <3>2
  <2> QED
    BY <2>3, <2>4, <2>5
<1>4. CASE RootStep
  BY <1>4 DEF RootStep, Begin, StopRoot, StopRootWorkers, EndRoot
<1>5. CASE RootPass
  <2>1. PICK P \in SUBSET Tasks : Pass(P)
    BY <1>0, <1>5, RootPassIsPass
  <2>2. UNCHANGED <<calls, tasksv>> /\ Busy(Root)
    BY <1>0, <2>1, PassSteps
  <2>3. Held # {} \/ Live # {}
    BY <1>0, <2>2, RootBusy
  <2> QED
    BY <2>2, <2>3 DEF Held, Live, tasksv
<1>6. CASE UNCHANGED vars
  BY <1>1, <1>6 DEF vars, rootvars, inbox, tasksv, Held, Live
<1> QED
  BY <1>2, <1>3, <1>4, <1>5, <1>6, NextSteps

-----------------------------------------------------------------------------
(* The inductive invariant *)

LEMMA InitIInv == Init => IInv
<1> SUFFICES ASSUME Init PROVE IInv
  OBVIOUS
<1> USE TreeConstants
<1>1. TypeOK
  <2>1. NoCall \in CallType
    BY EmptyCall
  <2>2. lineage \in [Tasks -> Seq(Agents)]
    BY EmptySeq DEF Init
  <2> QED
    BY <2>1, <2>2 DEF Init, TypeOK, CallType, Ended
<1>2. Held = {} /\ Slots = {} /\ Occupied = {} /\ Live = {} /\ Registered = {}
  BY DEF Init, Held, Slots, Reserving, Activating, NoCall, Occupied, Live, Registered, Ended
<1>3. QuotasHold
  <2>1. Cardinality(Held) = 0 /\ Cardinality(Slots) = 0 /\ Cardinality(Occupied) = 0
    BY <1>2, FS_EmptySet
  <2> QED
    BY <2>1 DEF Init, QuotasHold, BudgetExact, SlotsBounded, Starting, Held, Slots
<1>4. Shaped
  BY DEF Init, Shaped, CallShape
<1>5. Order
  <2>1. \A t \in Tasks : Above(t) = {}
    BY EmptySeq DEF Init, Above, Lineage
  <2> QED
    BY <1>2, <2>1 DEF Init, Order, Family, Descent, Manager, Clear, Awaited
<1>6. RootRun /\ Cancellers /\ RootAgreesWithTree
  BY <1>2 DEF Init, RootRun, Cancellers, RootAgreesWithTree, NoOrphans, RootIsWoken, NoCall
<1> QED
  BY <1>1, <1>3, <1>4, <1>5, <1>6 DEF IInv, Quotas

LEMMA Inductive == IInv /\ [Next]_vars => IInv'
<1> SUFFICES ASSUME IInv, [Next]_vars PROVE IInv'
  OBVIOUS
<1>1. Quotas /\ Order /\ Family /\ RootRun /\ Cancellers /\ NoOrphans /\ RootIsWoken
  BY DEF IInv, Order, RootAgreesWithTree
<1>2. Quotas'
  BY <1>1, QuotasStep
<1>3. Order'
  BY <1>1, OrderStep
<1>4. RootRun' /\ NoOrphans'
  <2>1. CASE UNCHANGED vars
    BY <1>1, <2>1 DEF vars, rootvars, tasksv, RootRun, NoOrphans, Live
  <2> QED
    BY <1>1, <2>1, NextSteps, CallRoot, WorkerRoot, OwnRoot
<1>5. Cancellers'
  <2>1. CASE UNCHANGED vars
    BY <1>1, <2>1 DEF vars, rootvars, tasksv, Cancellers
  <2> QED
    BY <1>1, <2>1, NextSteps, CallCancellers, WorkerCancellers, OwnCancellers
<1>6. RootIsWoken'
  <2>1. phase' = "wait" /\ ~changed'[Root] => Held' # {} \/ Live' # {}
    BY <1>1, <1>2, <1>3, WokenStep
  <2>2. (Shaped /\ Family)'
    BY <1>2, <1>3 DEF Quotas, Order
  <2>3. (Busy(Root) <=> Held # {} \/ Live # {})'
    BY <2>2, RootBusy, PTL
  <2> QED
    BY <2>1, <2>3 DEF RootIsWoken
<1> QED
  BY <1>2, <1>3, <1>4, <1>5, <1>6 DEF IInv, RootAgreesWithTree

LEMMA Invariance == Spec => []IInv
  BY InitIInv, Inductive, PTL DEF Spec

\* Every variable keeps its type, for any tasks, calls and quotas.
THEOREM TypeCorrect == Spec => []TypeOK
<1>1. IInv => TypeOK
  BY DEF IInv, Quotas
<1> QED
  BY <1>1, Invariance, PTL

\* No order of starts, continuations, failures and resets loses a refund, doubles
\* one, or has more executions or more tasks at a time than were configured.
THEOREM QuotasAreKept == Spec => []QuotasHold
<1>1. IInv => QuotasHold
  BY DEF IInv, Quotas
<1> QED
  BY <1>1, Invariance, PTL

\* When the root's run is over nothing runs below it, and while it waits somebody
\* will end the wait.
THEOREM RootAndTreeAgree == Spec => []RootAgreesWithTree
<1>1. IInv => RootAgreesWithTree
  BY DEF IInv
<1> QED
  BY <1>1, Invariance, PTL

\* No agent is over, and none starts, above work that still runs.
THEOREM SubtreesEndInOrder == Spec => []SubtreesAreClear
<1>1. IInv => SubtreesAreClear
  BY DEF IInv, Order, Clear, SubtreesAreClear, CancelledSubtree, NoStartOverLiveSubtree
<1> QED
  BY <1>1, Invariance, PTL

=============================================================================
