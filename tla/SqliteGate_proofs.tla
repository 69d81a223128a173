------------------------- MODULE SqliteGate_proofs --------------------------
(***************************************************************************)
(* Proofs about SqliteGate: the gates exclude writers of one database from *)
(* each other and admit them in their order, for any number of tasks and   *)
(* databases; and about LocalDelivery, whose transactions are operations   *)
(* accepted by such a gate, for any deliveries and roots.                  *)
(***************************************************************************)
EXTENDS MCSqliteGate, FiniteSetTheorems, SequenceTheorems, WellFoundedInduction, TLAPS

-----------------------------------------------------------------------------
(* Lemmas about the operators of the model *)

\* Min of a non-empty set of naturals is its least element.
LEMMA MinProperties ==
    ASSUME NEW S \in SUBSET Nat, S # {}
    PROVE  /\ Min(S) \in S
           /\ \A y \in S : Min(S) <= y
<1> DEFINE R == {ss \in Nat \X Nat : ss[1] < ss[2]}
<1>1. IsWellFoundedOn(R, Nat)
  BY NatLessThanWellFounded DEF OpToRel
<1>2. PICK x \in S : \A y \in S : ~ (<<y, x>> \in R)
  <2> HIDE DEF R
  <2>1. QED BY <1>1, WFMin
<1>3. ASSUME NEW y \in S PROVE x <= y
  <2> DEFINE yx == <<y, x>>
  <2>1. yx \in Nat \X Nat /\ yx[1] = y /\ yx[2] = x
    OBVIOUS
  <2>2. ~ (yx[1] < yx[2])
    BY <1>2, <2>1
  <2>3. QED BY <2>1, <2>2
<1>4. QED
  BY <1>2, <1>3 DEF Min

NoDuplicates(s) == \A i, j \in 1..Len(s) : s[i] = s[j] => i = j

\* deque.remove on a queue without duplicates: the others stay, the head
\* stays unless it is the one removed.
LEMMA RemoveFirstProperties ==
    ASSUME NEW T, NEW s \in Seq(T), NEW e \in T, NoDuplicates(s)
    PROVE  /\ RemoveFirst(s, e) \in Seq(T)
           /\ NoDuplicates(RemoveFirst(s, e))
           /\ ToSet(RemoveFirst(s, e)) = ToSet(s) \ {e}
           /\ (s # <<>> /\ Head(s) # e) =>
                RemoveFirst(s, e) # <<>> /\ Head(RemoveFirst(s, e)) = Head(s)
<1>1. CASE ~ \E i \in 1..Len(s) : s[i] = e
  BY <1>1 DEF RemoveFirst, ToSet
<1>2. CASE \E i \in 1..Len(s) : s[i] = e
  <2> DEFINE k == SelectInSeq(s, LAMBDA v : v = e)
             I == {i \in 1..Len(s) : s[i] = e}
             r == RemoveFirst(s, e)
  <2>1. k = Min(I)
    BY <1>2 DEF SelectInSeq
  <2>2. k \in 1..Len(s) /\ s[k] = e
    <3>1. I \in SUBSET Nat /\ I # {}
      BY <1>2
    <3>2. Min(I) \in I
      BY <3>1, MinProperties
    <3>3. QED
      BY <2>1, <3>2
  <2> HIDE DEF k
  <2>3. r = SubSeq(s, 1, k - 1) \o SubSeq(s, k + 1, Len(s))
    BY <1>2 DEF RemoveFirst, RemoveAt, k
  <2>4. /\ r \in Seq(T)
        /\ Len(r) = Len(s) - 1
        /\ \A i \in 1..Len(r) : r[i] = IF i < k THEN s[i] ELSE s[i + 1]
    <3> DEFINE a == SubSeq(s, 1, k - 1)
               b == SubSeq(s, k + 1, Len(s))
    <3>1. a \in Seq(T) /\ Len(a) = k - 1 /\ \A i \in 1..(k - 1) : a[i] = s[i]
      BY <2>2, SubSeqProperties
    <3>2. /\ b \in Seq(T) /\ Len(b) = Len(s) - k
          /\ \A i \in 1..(Len(s) - k) : b[i] = s[k + i]
      BY <2>2, SubSeqProperties
    <3> HIDE DEF a, b
    <3>3. /\ a \o b \in Seq(T)
          /\ Len(a \o b) = Len(a) + Len(b)
          /\ \A i \in 1..(Len(a) + Len(b)) :
               (a \o b)[i] = IF i <= Len(a) THEN a[i] ELSE b[i - Len(a)]
      BY <3>1, <3>2, ConcatProperties
    <3>4. r = a \o b
      BY <2>3 DEF a, b
    <3> HIDE DEF r
    <3>5. r \in Seq(T) /\ Len(r) = Len(s) - 1
      <4>1. r \in Seq(T) /\ Len(r) = Len(a) + Len(b)
        BY <3>3, <3>4
      <4>2. Len(s) \in Nat /\ k \in Nat
        BY <2>2
      <4>3. QED BY <4>1, <4>2, <3>1, <3>2
    <3>6. ASSUME NEW i \in 1..Len(r) PROVE r[i] = IF i < k THEN s[i] ELSE s[i + 1]
      <4>1. i \in 1..(Len(a) + Len(b))
        BY <2>2, <3>1, <3>2, <3>5
      <4>2. CASE i < k
        BY <4>1, <4>2, <2>2, <3>1, <3>3, <3>4
      <4>3. CASE i >= k
        <5>1. i - Len(a) \in 1..(Len(s) - k) /\ k + (i - Len(a)) = i + 1
          BY <4>3, <2>2, <3>1, <3>5
        <5>2. r[i] = b[i - Len(a)]
          BY <4>1, <4>3, <2>2, <3>1, <3>3, <3>4
        <5>3. b[i - Len(a)] = s[i + 1]
          BY <5>1, <3>2
        <5>4. QED BY <4>3, <5>2, <5>3, <2>2
      <4>4. QED BY <4>2, <4>3, <2>2
    <3>7. QED BY <3>5, <3>6
  <2> HIDE DEF r
  <2>5. NoDuplicates(r)
    <3> SUFFICES ASSUME NEW i \in 1..Len(r), NEW j \in 1..Len(r), r[i] = r[j]
                 PROVE  i = j
      BY DEF NoDuplicates
    <3> DEFINE at(n) == IF n < k THEN n ELSE n + 1
    <3>1. at(i) \in 1..Len(s) /\ at(j) \in 1..Len(s)
      BY <2>2, <2>4
    <3>2. r[i] = s[at(i)] /\ r[j] = s[at(j)]
      BY <2>2, <2>4
    <3>3. at(i) = at(j)
      BY <3>1, <3>2 DEF NoDuplicates
    <3>4. QED BY <3>3, <2>2, <2>4
  <2>6. ASSUME NEW x \in T
        PROVE  (\E i \in 1..Len(r) : r[i] = x) <=> (x # e /\ \E i \in 1..Len(s) : s[i] = x)
    <3>1. ASSUME NEW i \in 1..Len(r), r[i] = x
          PROVE  x # e /\ \E j \in 1..Len(s) : s[j] = x
      BY <3>1, <2>2, <2>4 DEF NoDuplicates
    <3>2. ASSUME x # e, NEW i \in 1..Len(s), s[i] = x
          PROVE  \E j \in 1..Len(r) : r[j] = x
      <4>1. CASE i < k
        BY <4>1, <3>2, <2>2, <2>4
      <4>2. CASE i > k
        <5>1. i - 1 \in 1..Len(r) /\ r[i - 1] = x
          BY <4>2, <3>2, <2>2, <2>4
        <5>2. QED BY <5>1
      <4>3. QED BY <4>1, <4>2, <3>2, <2>2
    <3>3. QED BY <3>1, <3>2
  <2>7. ToSet(r) = ToSet(s) \ {e}
    <3>1. /\ DOMAIN r = 1..Len(r) /\ DOMAIN s = 1..Len(s)
          /\ \A i \in 1..Len(r) : r[i] \in T
          /\ \A i \in 1..Len(s) : s[i] \in T
      BY <2>4
    <3>2. QED BY <2>6, <3>1 DEF ToSet
  <2>8. (s # <<>> /\ Head(s) # e) => r # <<>> /\ Head(r) = Head(s)
    <3> SUFFICES ASSUME s # <<>>, Head(s) # e PROVE r # <<>> /\ Head(r) = Head(s)
      OBVIOUS
    <3>1. k > 1 /\ Len(r) >= 1
      BY <2>2, <2>4
    <3>2. QED BY <3>1, <2>4
  <2>9. QED BY <2>4, <2>5, <2>8, <2>7 DEF r
<1>3. QED BY <1>1, <1>2

-----------------------------------------------------------------------------
(* The inductive invariant *)

\* Task t is in the middle of database_write(p), waiting or inside.
Uses(t, p) == frame[t][p] # NoGate

\* Task t awaits the lock of path p.
Waits(t, p) == Uses(t, p) /\ p \in todo[t]

UsersOf(p) == {t \in Tasks : Uses(t, p)}

\* The registry knows every gate in use, under one path only, and nothing else.
RegistryInv ==
    /\ \A t \in Tasks, p \in Paths : Uses(t, p) => gates[p] = frame[t][p]
    /\ \A p, q \in Paths : gates[p] = gates[q] /\ gates[p] # NoGate => p = q
    /\ \A p \in Paths : gates[p] # NoGate =>
          /\ \E t \in Tasks : Uses(t, p)
          /\ gate[gates[p]].users = Cardinality(UsersOf(p))

\* A task awaits at most one lock, the one of the path it wants next, and has
\* accepted no work meanwhile.
WaitInv ==
    \A t \in Tasks :
        /\ fut[t] # "none" <=> \E p \in Paths : Waits(t, p)
        /\ \A p \in Paths : Waits(t, p) => p = Wanted(t)
        /\ work[t] # "none" => todo[t] = {} /\ \E p \in Paths : Uses(t, p)

\* The queue of a gate holds its waiters once each; a woken waiter is the head
\* of the queue and finds the lock free.
QueueInv ==
    \A p \in Paths : gates[p] # NoGate =>
        LET l == gate[gates[p]] IN
        /\ NoDuplicates(l.waiters)
        /\ \A t \in Tasks : t \in ToSet(l.waiters) <=> Waits(t, p)
        /\ \A t \in Tasks : Waits(t, p) /\ fut[t] = "woken" =>
              ~l.locked /\ t = Head(l.waiters)

\* The lock is taken exactly when its single owner is inside.
LockInv ==
    \A p \in Paths : gates[p] # NoGate =>
        LET l == gate[gates[p]] IN
        /\ \A t \in Tasks : t \in l.owners <=> Inside(t, p)
        /\ l.locked <=> l.owners # {}
        /\ \A t, u \in l.owners : t = u

IInv == TypeOK /\ RegistryInv /\ WaitInv /\ QueueInv /\ LockInv

LEMMA InitInv == ASSUME GateAssumption, Init PROVE IInv
<1> USE DEF Init, Uses, Waits, Inside, GateType, FreshGate
<1>1. TypeOK
  BY DEF TypeOK
<1>2. RegistryInv
  BY GateAssumption DEF RegistryInv
<1>3. WaitInv
  BY DEF WaitInv
<1>4. QueueInv /\ LockInv
  BY DEF QueueInv, LockInv
<1>5. QED BY <1>1, <1>2, <1>3, <1>4 DEF IInv

\* The users of a path are finitely many, like the tasks.
LEMMA UsersFinite ==
    ASSUME GateAssumption, NEW p \in Paths
    PROVE  IsFiniteSet(UsersOf(p)) /\ Cardinality(UsersOf(p)) \in Nat
<1>1. IsFiniteSet(Tasks) /\ UsersOf(p) \subseteq Tasks
  BY GateAssumption DEF UsersOf
<1>2. QED BY <1>1, FS_Subset, FS_CardinalityType

\* The gate a task refers to is the registered gate of one path it uses.
LEMMA GoneGate ==
    ASSUME GateAssumption, IInv, NEW t \in Tasks, NEW g \in Gates, Gone(t, g)
    PROVE  \E p \in Paths : Uses(t, p) /\ gates[p] = g
<1>1. PICK p \in Paths : frame[t][p] = g
  BY DEF Gone
<1>2. Uses(t, p)
  BY <1>1, GateAssumption DEF Uses
<1>3. QED BY <1>1, <1>2 DEF IInv, RegistryInv

LEMMA LeaveAllInv ==
    ASSUME GateAssumption, IInv, NEW t \in Tasks, LeaveAll(t)
    PROVE  IInv'
<1> USE DEF IInv
<1>1. ASSUME NEW p \in Paths, gates[p] # NoGate
      PROVE  /\ gates[p] \in Gates
             /\ Gone(t, gates[p]) <=> Uses(t, p)
             /\ gate'[gates[p]] = IF Uses(t, p) THEN LeftBy(t, gates[p]) ELSE gate[gates[p]]
             /\ gate[gates[p]] \in GateType
             /\ NoDuplicates(gate[gates[p]].waiters)
  <2>1. gates[p] \in Gates /\ gate[gates[p]] \in GateType
    BY <1>1 DEF TypeOK
  <2>2. Gone(t, gates[p]) <=> Uses(t, p)
    <3>1. ASSUME Gone(t, gates[p]) PROVE Uses(t, p)
      BY <3>1, <2>1, <1>1, GoneGate DEF RegistryInv
    <3>2. ASSUME Uses(t, p) PROVE Gone(t, gates[p])
      BY <3>2 DEF RegistryInv, Gone
    <3>3. QED BY <3>1, <3>2
  <2>3. QED BY <2>1, <2>2, <1>1 DEF LeaveAll, QueueInv
<1>2. ASSUME NEW u \in Tasks, NEW p \in Paths
      PROVE  /\ Uses(u, p)' <=> (u # t /\ Uses(u, p))
             /\ Waits(u, p)' <=> (u # t /\ Waits(u, p))
             /\ Inside(u, p)' <=> (u # t /\ Inside(u, p))
             /\ u # t => frame'[u] = frame[u]
  BY DEF LeaveAll, TypeOK, Uses, Waits, Inside
<1>3. ASSUME NEW p \in Paths, gates'[p] # NoGate
      PROVE  gates'[p] = gates[p] /\ (Uses(t, p) => gate[gates[p]].users # 1)
  <2>1. gates'[p] = IF Emptied(t, p) THEN NoGate ELSE gates[p]
    BY DEF LeaveAll
  <2>2. QED BY <2>1, <1>3 DEF Emptied, Uses, RegistryInv
<1>4. ASSUME NEW p \in Paths, Uses(t, p)
      PROVE  /\ gates[p] = frame[t][p] /\ gates[p] # NoGate
             /\ gate[gates[p]].users = Cardinality(UsersOf(p))
             /\ gate[gates[p]].users \in Nat \ {0}
             /\ Cardinality(UsersOf(p) \ {t}) = gate[gates[p]].users - 1
             /\ IsFiniteSet(UsersOf(p) \ {t})
  <2>1. gates[p] = frame[t][p] /\ gates[p] # NoGate
    BY <1>4 DEF RegistryInv, Uses
  <2>2. gate[gates[p]].users = Cardinality(UsersOf(p))
    BY <2>1 DEF RegistryInv
  <2>3. t \in UsersOf(p)
    BY <1>4 DEF UsersOf
  <2>4. IsFiniteSet(UsersOf(p)) /\ Cardinality(UsersOf(p)) \in Nat
    BY UsersFinite
  <2>5. UsersOf(p) # {} /\ Cardinality(UsersOf(p)) # 0
    BY <2>3, <2>4, FS_EmptySet
  <2>6. /\ IsFiniteSet(UsersOf(p) \ {t})
        /\ Cardinality(UsersOf(p) \ {t}) = Cardinality(UsersOf(p)) - 1
    BY <2>3, <2>4, FS_RemoveElement
  <2>7. QED BY <2>1, <2>2, <2>4, <2>5, <2>6
<1>5. ASSUME NEW g \in Gates, Gone(t, g)
      PROVE  /\ gate[g].users \in Nat \ {0}
             /\ gate[g] \in GateType
             /\ LeftBy(t, g) \in GateType
             /\ NoDuplicates(LeftBy(t, g).waiters)
  <2>1. PICK p \in Paths : Uses(t, p) /\ gates[p] = g
    BY <1>5, GoneGate
  <2>2. gate[g].users \in Nat \ {0}
    BY <2>1, <1>4
  <2>3. gate[g] \in GateType /\ NoDuplicates(gate[g].waiters)
    BY <2>1, <1>4, <1>1
  <2>4. gate[g].waiters \in Seq(Tasks)
    BY <2>3 DEF GateType
  <2>5. /\ RemoveFirst(gate[g].waiters, t) \in Seq(Tasks)
        /\ NoDuplicates(RemoveFirst(gate[g].waiters, t))
    BY <2>3, <2>4, RemoveFirstProperties
  <2>6. LeftBy(t, g) \in GateType
    <3>1. /\ gate[g].users - 1 \in Nat
          /\ gate[g].owners \ {t} \in SUBSET Tasks
          /\ gate[g].locked \in BOOLEAN
      BY <2>2, <2>3 DEF GateType
    <3> DEFINE b == IF t \in gate[g].owners THEN FALSE ELSE gate[g].locked
    <3>2. b \in BOOLEAN
      BY <3>1
    <3> HIDE DEF b
    <3>3. LeftBy(t, g) = [users |-> gate[g].users - 1, owners |-> gate[g].owners \ {t},
                          locked |-> b, waiters |-> RemoveFirst(gate[g].waiters, t)]
      BY DEF LeftBy, b
    <3>4. QED BY <3>1, <3>2, <3>3, <2>5 DEF GateType
  <2>7. LeftBy(t, g).waiters = RemoveFirst(gate[g].waiters, t)
    BY DEF LeftBy
  <2>8. QED BY <2>2, <2>3, <2>5, <2>6, <2>7
<1>6. TypeOK'
  <2>1. gate' \in [Gates -> GateType]
    <3>1. ASSUME NEW g \in Gates
          PROVE  (IF Gone(t, g) THEN LeftBy(t, g) ELSE gate[g]) \in GateType
      BY <1>5 DEF TypeOK
    <3>2. QED BY <3>1 DEF LeaveAll
  <2>2. gates' \in [Paths -> Gates \cup {NoGate}]
    BY DEF LeaveAll, TypeOK
  <2>3. /\ frame' \in [Tasks -> [Paths -> Gates \cup {NoGate}]]
        /\ todo' \in [Tasks -> SUBSET Paths]
        /\ work' \in [Tasks -> {"none", "running", "done"}]
        /\ cancel' \in [Tasks -> BOOLEAN]
    BY DEF LeaveAll, TypeOK
  <2>4. fut' \in [Tasks -> {"none", "pending", "woken", "cancelled"}]
    BY DEF LeaveAll, TypeOK
  <2>5. QED BY <2>1, <2>2, <2>3, <2>4 DEF TypeOK
<1>7. RegistryInv'
  <2>1. ASSUME NEW u \in Tasks, NEW p \in Paths, Uses(u, p)'
        PROVE  gates'[p] = frame'[u][p]
    <3>1. u # t /\ Uses(u, p) /\ frame'[u][p] = frame[u][p] /\ gates[p] = frame[u][p]
      BY <2>1, <1>2 DEF RegistryInv
    <3>2. ~Emptied(t, p)
      <4> SUFFICES ASSUME Emptied(t, p) PROVE FALSE
        OBVIOUS
      <4>1. Uses(t, p) /\ gate[gates[p]].users = 1
        BY <3>1 DEF Emptied, Uses, RegistryInv
      <4>2. Cardinality(UsersOf(p) \ {t}) = 0 /\ IsFiniteSet(UsersOf(p) \ {t})
        BY <4>1, <1>4
      <4>3. u \in UsersOf(p) \ {t}
        BY <3>1 DEF UsersOf
      <4>4. QED BY <4>2, <4>3, FS_EmptySet
    <3>3. QED BY <3>1, <3>2 DEF LeaveAll
  <2>2. ASSUME NEW p \in Paths, NEW q \in Paths, gates'[p] = gates'[q], gates'[p] # NoGate
        PROVE  p = q
    BY <2>2, <1>3 DEF RegistryInv
  <2>3. ASSUME NEW p \in Paths, gates'[p] # NoGate
        PROVE  /\ \E u \in Tasks : Uses(u, p)'
               /\ gate'[gates'[p]].users = Cardinality(UsersOf(p)')
    <3>1. gates'[p] = gates[p] /\ gates[p] # NoGate
      BY <2>3, <1>3
    <3>2. UsersOf(p)' = UsersOf(p) \ {t}
      BY <1>2 DEF UsersOf
    <3>3. CASE Uses(t, p)
      <4>0. gate'[gates'[p]] = LeftBy(t, gates[p])
        BY <3>1, <3>3, <1>1
      <4>1. gate'[gates'[p]].users = gate[gates[p]].users - 1
        BY <4>0 DEF LeftBy
      <4>2. gate[gates[p]].users # 1
        BY <2>3, <3>3, <1>3
      <4>3. Cardinality(UsersOf(p) \ {t}) # 0
        BY <3>3, <4>2, <1>4
      <4>4. UsersOf(p) \ {t} # {}
        BY <4>3, FS_EmptySet
      <4>5. PICK u \in UsersOf(p) \ {t} : TRUE
        BY <4>4
      <4>6. u \in Tasks /\ Uses(u, p)'
        BY <4>5, <1>2 DEF UsersOf
      <4>7. Cardinality(UsersOf(p) \ {t}) = gate[gates[p]].users - 1
        BY <3>3, <1>4
      <4>8. gate'[gates'[p]].users = Cardinality(UsersOf(p)')
        BY <4>1, <4>7, <3>2
      <4>9. QED BY <4>6, <4>8
    <3>4. CASE ~Uses(t, p)
      <4>1. gate'[gates'[p]] = gate[gates[p]]
        BY <3>1, <3>4, <1>1
      <4>2. UsersOf(p) \ {t} = UsersOf(p)
        BY <3>4 DEF UsersOf
      <4>3. PICK u \in Tasks : Uses(u, p)
        BY <3>1 DEF RegistryInv
      <4>4. Uses(u, p)'
        BY <4>3, <3>4, <1>2
      <4>5. gate[gates[p]].users = Cardinality(UsersOf(p))
        BY <3>1 DEF RegistryInv
      <4>6. gate'[gates'[p]].users = Cardinality(UsersOf(p)')
        BY <4>1, <4>2, <4>5, <3>2
      <4>7. QED BY <4>4, <4>6
    <3>5. QED BY <3>3, <3>4
  <2>4. QED BY <2>1, <2>2, <2>3 DEF RegistryInv
<1> DEFINE Woken == UNION {WokenWhenLeft(t, g) : g \in {h \in Gates : Gone(t, h)}}
<1>8. ASSUME NEW u \in Tasks, u # t
      PROVE  /\ fut'[u] = IF u \in Woken THEN "woken" ELSE fut[u]
             /\ u \in Woken =>
                  /\ fut[u] = "pending"
                  /\ \E q \in Paths : /\ Uses(t, q) /\ ~LeftBy(t, gates[q]).locked
                                       /\ LeftBy(t, gates[q]).waiters # <<>>
                                       /\ u = Head(LeftBy(t, gates[q]).waiters)
  <2>1. fut'[u] = IF u \in Woken THEN "woken" ELSE fut[u]
    BY <1>8 DEF LeaveAll
  <2>2. ASSUME u \in Woken
        PROVE  /\ fut[u] = "pending"
               /\ \E q \in Paths : /\ Uses(t, q) /\ ~LeftBy(t, gates[q]).locked
                                    /\ LeftBy(t, gates[q]).waiters # <<>>
                                    /\ u = Head(LeftBy(t, gates[q]).waiters)
    <3>1. PICK g \in Gates : Gone(t, g) /\ u \in WokenWhenLeft(t, g)
      BY <2>2
    <3>2. /\ fut[u] = "pending" /\ ~LeftBy(t, g).locked
          /\ LeftBy(t, g).waiters # <<>> /\ u = Head(LeftBy(t, g).waiters)
      BY <3>1 DEF WokenWhenLeft, WokenBy
    <3>3. QED BY <3>1, <3>2, GoneGate
  <2>3. QED BY <2>1, <2>2
<1> HIDE DEF Woken
<1>9. WaitInv'
  <2> SUFFICES ASSUME NEW u \in Tasks
               PROVE  /\ fut'[u] # "none" <=> \E p \in Paths : Waits(u, p)'
                      /\ \A p \in Paths : Waits(u, p)' => p = Wanted(u)'
                      /\ work'[u] # "none" => todo'[u] = {} /\ \E p \in Paths : Uses(u, p)'
    BY DEF WaitInv
  <2>1. CASE u = t
    BY <2>1, <1>2 DEF LeaveAll, TypeOK
  <2>2. CASE u # t
    <3>1. fut'[u] # "none" <=> fut[u] # "none"
      BY <2>2, <1>8
    <3>2. todo'[u] = todo[u] /\ work'[u] = work[u]
      BY <2>2 DEF LeaveAll, TypeOK
    <3>3. Wanted(u)' = Wanted(u)
      BY <3>2 DEF Wanted
    <3>4. \A p \in Paths : Waits(u, p)' <=> Waits(u, p)
      BY <2>2, <1>2
    <3>5. fut[u] # "none" <=> \E p \in Paths : Waits(u, p)
      BY DEF WaitInv
    <3>6. \A p \in Paths : Uses(u, p)' <=> Uses(u, p)
      BY <2>2, <1>2
    <3>7. QED BY <3>1, <3>2, <3>3, <3>4, <3>5, <3>6 DEF WaitInv
  <2>3. QED BY <2>1, <2>2
<1>10. ASSUME NEW p \in Paths, Uses(t, p)
       PROVE  LET w == gate[gates[p]].waiters
                  r == LeftBy(t, gates[p]).waiters
              IN  /\ w \in Seq(Tasks) /\ NoDuplicates(w)
                  /\ r \in Seq(Tasks) /\ NoDuplicates(r)
                  /\ \A u \in Tasks : u \in ToSet(r) <=> (u # t /\ Waits(u, p))
                  /\ (w # <<>> /\ Head(w) # t) => r # <<>> /\ Head(r) = Head(w)
  <2> DEFINE w == gate[gates[p]].waiters
             r == RemoveFirst(w, t)
  <2>1. gates[p] # NoGate
    BY <1>10, <1>4
  <2>2. w \in Seq(Tasks) /\ NoDuplicates(w)
    BY <2>1, <1>1 DEF GateType
  <2>3. \A u \in Tasks : u \in ToSet(w) <=> Waits(u, p)
    BY <2>1 DEF QueueInv
  <2>4. LeftBy(t, gates[p]).waiters = r
    BY DEF LeftBy
  <2> HIDE DEF w
  <2>5. /\ r \in Seq(Tasks) /\ NoDuplicates(r)
        /\ (w # <<>> /\ Head(w) # t) => r # <<>> /\ Head(r) = Head(w)
    BY <2>2, RemoveFirstProperties
  <2>6. \A u \in Tasks : u \in ToSet(r)
                            <=> (u # t /\ u \in ToSet(w))
    <3> SUFFICES ASSUME NEW u \in Tasks
                 PROVE  u \in ToSet(r)
                            <=> (u # t /\ u \in ToSet(w))
      OBVIOUS
    <3>1. QED BY <2>2, RemoveFirstProperties
  <2> HIDE DEF r
  <2>7. QED BY <2>2, <2>3, <2>4, <2>5, <2>6 DEF w
<1>11. QueueInv'
  <2> SUFFICES ASSUME NEW p \in Paths, gates'[p] # NoGate
               PROVE  LET l == gate'[gates'[p]] IN
                      /\ NoDuplicates(l.waiters)
                      /\ \A u \in Tasks : u \in ToSet(l.waiters) <=> Waits(u, p)'
                      /\ \A u \in Tasks : Waits(u, p)' /\ fut'[u] = "woken" =>
                            ~l.locked /\ u = Head(l.waiters)
    BY DEF QueueInv
  <2>1. gates'[p] = gates[p] /\ gates[p] # NoGate
    BY <1>3
  <2> DEFINE k == gate[gates[p]]
             l == gate'[gates'[p]]
  <2>2. CASE Uses(t, p)
    <3>1. l = LeftBy(t, gates[p])
      BY <2>1, <2>2, <1>1
    <3>2. /\ k.waiters \in Seq(Tasks)
          /\ NoDuplicates(l.waiters) /\ l.waiters \in Seq(Tasks)
          /\ \A u \in Tasks : u \in ToSet(l.waiters)
                                 <=> (u # t /\ Waits(u, p))
          /\ (k.waiters # <<>> /\ Head(k.waiters) # t) => Head(l.waiters) = Head(k.waiters)
      BY <2>2, <3>1, <1>10
    <3>3. ASSUME NEW u \in Tasks, Waits(u, p)', fut'[u] = "woken"
          PROVE  ~l.locked /\ u = Head(l.waiters)
      <4>1. u # t /\ Waits(u, p)
        BY <3>3, <1>2
      <4>2. CASE fut[u] = "woken"
        <5>1. ~k.locked /\ u = Head(k.waiters)
          BY <2>1, <4>1, <4>2 DEF QueueInv
        <5>2. u \in ToSet(k.waiters)
          BY <2>1, <4>1 DEF QueueInv
        <5>3. k.waiters # <<>>
          BY <5>2, <3>2 DEF ToSet
        <5>4. l.locked = (IF t \in k.owners THEN FALSE ELSE k.locked)
          BY <3>1 DEF LeftBy
        <5>5. QED BY <5>1, <5>3, <5>4, <3>2, <4>1
      <4>3. CASE fut[u] # "woken"
        <5>1. u \in Woken
          BY <3>3, <4>1, <4>3, <1>8
        <5>2. PICK q \in Paths : /\ Uses(t, q) /\ ~LeftBy(t, gates[q]).locked
                                 /\ LeftBy(t, gates[q]).waiters # <<>>
                                 /\ u = Head(LeftBy(t, gates[q]).waiters)
          BY <4>1, <5>1, <1>8
        <5> DEFINE r == LeftBy(t, gates[q]).waiters
        <5>3. /\ r \in Seq(Tasks)
              /\ u \in ToSet(r) <=> (u # t /\ Waits(u, q))
          BY <5>2, <1>10
        <5>4. 1 \in 1..Len(r) /\ r[1] = u
          BY <5>2, <5>3
        <5> HIDE DEF r
        <5>5. u \in ToSet(r)
          BY <5>3, <5>4 DEF ToSet
        <5>6. Waits(u, q)
          BY <5>3, <5>5
        <5>7. p = q
          BY <4>1, <5>6 DEF WaitInv
        <5>8. QED BY <5>2, <5>7, <3>1
      <4>4. QED BY <4>2, <4>3
    <3>4. QED BY <3>2, <3>3, <1>2
  <2>3. CASE ~Uses(t, p)
    <3>1. l = k
      BY <2>1, <2>3, <1>1
    <3>2. \A u \in Tasks : Waits(u, p)' <=> Waits(u, p)
      BY <2>3, <1>2 DEF Waits
    <3>3. ASSUME NEW u \in Tasks, Waits(u, p)', fut'[u] = "woken"
          PROVE  ~l.locked /\ u = Head(l.waiters)
      <4>1. u # t /\ Waits(u, p)
        BY <3>3, <1>2
      <4>2. u \notin Woken
        <5> SUFFICES ASSUME u \in Woken PROVE FALSE
          OBVIOUS
        <5>2. PICK q \in Paths : /\ Uses(t, q) /\ ~LeftBy(t, gates[q]).locked
                                 /\ LeftBy(t, gates[q]).waiters # <<>>
                                 /\ u = Head(LeftBy(t, gates[q]).waiters)
          BY <4>1, <1>8
        <5> DEFINE r == LeftBy(t, gates[q]).waiters
        <5>3. /\ r \in Seq(Tasks)
              /\ u \in ToSet(r) <=> (u # t /\ Waits(u, q))
          BY <5>2, <1>10
        <5>4. 1 \in 1..Len(r) /\ r[1] = u
          BY <5>2, <5>3
        <5> HIDE DEF r
        <5>5. u \in ToSet(r)
          BY <5>3, <5>4 DEF ToSet
        <5>6. Waits(u, q)
          BY <5>3, <5>5
        <5>7. p = q
          BY <4>1, <5>6 DEF WaitInv
        <5>8. QED BY <5>2, <5>7, <2>3
      <4>3. fut[u] = "woken"
        BY <4>1, <4>2, <3>3, <1>8
      <4>4. QED BY <4>1, <4>3, <3>1, <2>1 DEF QueueInv
    <3>4. QED BY <3>1, <3>2, <3>3, <2>1 DEF QueueInv
  <2>4. QED BY <2>2, <2>3
<1>12. LockInv'
  <2> SUFFICES ASSUME NEW p \in Paths, gates'[p] # NoGate
               PROVE  LET l == gate'[gates'[p]] IN
                      /\ \A u \in Tasks : u \in l.owners <=> Inside(u, p)'
                      /\ l.locked <=> l.owners # {}
                      /\ \A u, v \in l.owners : u = v
    BY DEF LockInv
  <2> DEFINE k == gate[gates[p]]
             l == gate'[gates'[p]]
  <2>1. gates'[p] = gates[p] /\ gates[p] # NoGate
    BY <1>3
  <2>2. /\ \A u \in Tasks : u \in k.owners <=> Inside(u, p)
        /\ k.locked <=> k.owners # {}
        /\ \A u, v \in k.owners : u = v
        /\ k.owners \subseteq Tasks
    BY <2>1, <1>1 DEF LockInv, GateType
  <2>3. CASE Uses(t, p)
    <3>1. l = LeftBy(t, gates[p])
      BY <2>1, <2>3, <1>1
    <3>2. /\ l.owners = k.owners \ {t}
          /\ l.locked = IF t \in k.owners THEN FALSE ELSE k.locked
      BY <3>1 DEF LeftBy
    <3> HIDE DEF k, l
    <3>3. QED BY <3>2, <2>2, <1>2 DEF l
  <2>4. CASE ~Uses(t, p)
    <3>1. l = k
      BY <2>1, <2>4, <1>1
    <3>2. ~Inside(t, p)
      BY <2>4 DEF Inside, Uses
    <3>3. QED BY <3>1, <3>2, <2>2, <1>2
  <2>5. QED BY <2>3, <2>4
<1>13. QED BY <1>6, <1>7, <1>9, <1>11, <1>12

LEMMA CallInv ==
    ASSUME IInv, NEW t \in Tasks, Call(t)
    PROVE  IInv'
<1> USE DEF IInv
<1>1. PICK S \in (SUBSET Paths) \ {{}} : todo' = [todo EXCEPT ![t] = S]
  BY DEF Call
<1>2. UNCHANGED <<gates, gate, frame, fut, work, cancel>>
  BY DEF Call
<1>3. \A p \in Paths : ~Uses(t, p)
  BY DEF Call, Idle, Uses
<1>4. ASSUME NEW u \in Tasks, NEW p \in Paths
      PROVE  /\ Uses(u, p)' <=> Uses(u, p)
             /\ Waits(u, p)' <=> Waits(u, p)
             /\ Inside(u, p)' <=> Inside(u, p)
  BY <1>1, <1>2, <1>3 DEF Uses, Waits, Inside, TypeOK
<1>5. TypeOK'
  BY <1>1, <1>2 DEF TypeOK
<1>6. RegistryInv'
  <2>1. \A p \in Paths : UsersOf(p)' = UsersOf(p)
    BY <1>4 DEF UsersOf
  <2>2. QED BY <1>2, <1>4, <2>1 DEF RegistryInv
<1>7. WaitInv'
  <2> SUFFICES ASSUME NEW u \in Tasks
               PROVE  /\ fut'[u] # "none" <=> \E p \in Paths : Waits(u, p)'
                      /\ \A p \in Paths : Waits(u, p)' => p = Wanted(u)'
                      /\ work'[u] # "none" => todo'[u] = {} /\ \E p \in Paths : Uses(u, p)'
    BY DEF WaitInv
  <2>1. fut[u] # "none" <=> \E p \in Paths : Waits(u, p)
    BY DEF WaitInv
  <2>2. CASE u = t
    <3>1. work[u] = "none"
      BY <1>3, <2>2 DEF WaitInv
    <3>2. \A p \in Paths : ~Waits(u, p)
      BY <1>3, <2>2 DEF Waits
    <3>3. QED BY <1>2, <1>4, <2>1, <3>1, <3>2
  <2>3. CASE u # t
    <3>1. todo'[u] = todo[u] /\ Wanted(u)' = Wanted(u)
      BY <1>1, <2>3 DEF TypeOK, Wanted
    <3>2. QED BY <1>2, <1>4, <2>1, <3>1 DEF WaitInv
  <2>4. QED BY <2>2, <2>3
<1>8. QueueInv'
  BY <1>2, <1>4 DEF QueueInv
<1>9. LockInv'
  BY <1>2, <1>4 DEF LockInv
<1>10. QED BY <1>5, <1>6, <1>7, <1>8, <1>9

\* Steps that leave registry, queues and frames alone.
LEMMA QuietInv ==
    ASSUME IInv, NEW t \in Tasks, Cancel(t) \/ Start(t) \/ Finish(t)
    PROVE  IInv'
<1> USE DEF IInv
<1>1. UNCHANGED <<gates, gate, frame, todo>>
  BY DEF Cancel, Start, Finish
<1>2. TypeOK'
  BY DEF Cancel, Start, Finish, TypeOK
<1>3. ASSUME NEW u \in Tasks, NEW p \in Paths
      PROVE  /\ Uses(u, p)' <=> Uses(u, p)
             /\ Waits(u, p)' <=> Waits(u, p)
             /\ Inside(u, p)' <=> Inside(u, p)
  BY <1>1 DEF Uses, Waits, Inside
<1>4. ASSUME NEW u \in Tasks
      PROVE  /\ fut'[u] # "none" <=> fut[u] # "none"
             /\ fut'[u] = "woken" => fut[u] = "woken"
             /\ work'[u] # "none" => (work[u] # "none" \/ (u = t /\ Admitted(t)))
  BY DEF Cancel, Start, Finish, TypeOK
<1>5. RegistryInv'
  <2>1. \A p \in Paths : UsersOf(p)' = UsersOf(p)
    BY <1>3 DEF UsersOf
  <2>2. QED BY <1>1, <1>3, <2>1 DEF RegistryInv
<1>6. WaitInv'
  <2> SUFFICES ASSUME NEW u \in Tasks
               PROVE  /\ fut'[u] # "none" <=> \E p \in Paths : Waits(u, p)'
                      /\ \A p \in Paths : Waits(u, p)' => p = Wanted(u)'
                      /\ work'[u] # "none" => todo'[u] = {} /\ \E p \in Paths : Uses(u, p)'
    BY DEF WaitInv
  <2>1. fut[u] # "none" <=> \E p \in Paths : Waits(u, p)
    BY DEF WaitInv
  <2>2. Wanted(u)' = Wanted(u)
    BY <1>1 DEF Wanted
  <2>3. Admitted(t) => todo[t] = {} /\ \E p \in Paths : Uses(t, p)
    BY DEF Admitted, Idle, Uses, TypeOK
  <2>4. QED BY <1>1, <1>3, <1>4, <2>1, <2>2, <2>3 DEF WaitInv
<1>7. QueueInv'
  BY <1>1, <1>3, <1>4 DEF QueueInv
<1>8. LockInv'
  BY <1>1, <1>3 DEF LockInv
<1>9. QED BY <1>2, <1>5, <1>6, <1>7, <1>8

LEMMA ResumeInv ==
    ASSUME GateAssumption, IInv, NEW t \in Tasks, Resume(t)
    PROVE  IInv'
<1> USE DEF IInv
<1> DEFINE p == Wanted(t)
           g == frame[t][p]
           k == gate[g]
<1>1. /\ p \in Paths /\ Waits(t, p) /\ g \in Gates /\ gates[p] = g /\ g # NoGate
      /\ \A q \in Paths : Waits(t, q) <=> q = p
  <2>1. PICK q \in Paths : Waits(t, q)
    BY DEF Resume, WaitInv
  <2>2. q = p
    BY <2>1 DEF WaitInv
  <2>3. \A r \in Paths : Waits(t, r) => r = p
    BY DEF WaitInv
  <2> HIDE DEF p
  <2>4. QED BY <2>1, <2>2, <2>3 DEF Waits, Uses, RegistryInv, TypeOK
<1> DEFINE l == TakenBy([k EXCEPT !.waiters = RemoveFirst(@, t)], t)
<1>2. /\ gate' = [gate EXCEPT ![g] = l]
      /\ todo' = [todo EXCEPT ![t] = @ \ {p}]
      /\ fut' = [fut EXCEPT ![t] = "none"]
      /\ UNCHANGED <<gates, frame, work, cancel>>
      /\ fut[t] = "woken"
  BY DEF Resume
<1>3. /\ k \in GateType /\ ~k.locked /\ k.owners = {} /\ NoDuplicates(k.waiters)
      /\ t = Head(k.waiters)
      /\ \A u \in Tasks : u \in ToSet(k.waiters) <=> Waits(u, p)
  <2> HIDE DEF p, g
  <2>1. k \in GateType
    BY <1>1 DEF TypeOK
  <2>2. /\ ~k.locked /\ t = Head(k.waiters) /\ NoDuplicates(k.waiters)
        /\ \A u \in Tasks : u \in ToSet(k.waiters) <=> Waits(u, p)
    BY <1>1, <1>2 DEF QueueInv
  <2>3. k.owners = {}
    BY <1>1, <2>2 DEF LockInv
  <2>4. QED BY <2>1, <2>2, <2>3
<1>4. /\ RemoveFirst(k.waiters, t) \in Seq(Tasks)
      /\ NoDuplicates(RemoveFirst(k.waiters, t))
      /\ ToSet(RemoveFirst(k.waiters, t)) = ToSet(k.waiters) \ {t}
  <2>1. k.waiters \in Seq(Tasks)
    BY <1>3 DEF GateType
  <2>2. QED BY <2>1, <1>3, RemoveFirstProperties
<1>5. /\ l.users = k.users /\ l.owners = {t} /\ l.locked = TRUE
      /\ l.waiters = RemoveFirst(k.waiters, t)
      /\ l \in GateType
  BY <1>3, <1>4 DEF GateType, TakenBy
<1> HIDE DEF p, g, k, l
<1>6. ASSUME NEW u \in Tasks, NEW q \in Paths
      PROVE  /\ Uses(u, q)' <=> Uses(u, q)
             /\ Waits(u, q)' <=> (u # t /\ Waits(u, q))
             /\ Inside(u, q)' <=> (Inside(u, q) \/ (u = t /\ q = p))
  BY <1>1, <1>2 DEF Uses, Waits, Inside, TypeOK
<1>7. /\ \A q \in Paths : gates[q] # NoGate => (gates[q] = g <=> q = p) /\ gates[q] \in Gates
      /\ gate'[g] = l
      /\ \A h \in Gates : h # g => gate'[h] = gate[h]
  BY <1>1, <1>2 DEF RegistryInv, TypeOK
<1>8. TypeOK'
  BY <1>1, <1>2, <1>5 DEF TypeOK
<1>9. RegistryInv'
  <2>1. \A q \in Paths : UsersOf(q)' = UsersOf(q)
    BY <1>6 DEF UsersOf
  <2>2. \A q \in Paths : gates[q] # NoGate => gate'[gates[q]].users = gate[gates[q]].users
    BY <1>5, <1>7 DEF k
  <2>3. QED BY <1>2, <1>6, <2>1, <2>2 DEF RegistryInv
<1>10. WaitInv'
  <2> SUFFICES ASSUME NEW u \in Tasks
               PROVE  /\ fut'[u] # "none" <=> \E q \in Paths : Waits(u, q)'
                      /\ \A q \in Paths : Waits(u, q)' => q = Wanted(u)'
                      /\ work'[u] # "none" => todo'[u] = {} /\ \E q \in Paths : Uses(u, q)'
    BY DEF WaitInv
  <2>1. work'[u] # "none" => todo'[u] = {} /\ \E q \in Paths : Uses(u, q)'
    BY <1>2, <1>6 DEF WaitInv, TypeOK
  <2>2. CASE u = t
    BY <2>1, <2>2, <1>2, <1>6 DEF TypeOK
  <2>3. CASE u # t
    <3>1. todo'[u] = todo[u] /\ Wanted(u)' = Wanted(u) /\ fut'[u] = fut[u]
      BY <1>2, <2>3 DEF TypeOK, Wanted
    <3>2. fut[u] # "none" <=> \E q \in Paths : Waits(u, q)
      BY DEF WaitInv
    <3>3. QED BY <1>6, <2>1, <2>3, <3>1, <3>2 DEF WaitInv
  <2>4. QED BY <2>2, <2>3
<1>11. QueueInv'
  <2> SUFFICES ASSUME NEW q \in Paths, gates'[q] # NoGate
               PROVE  LET m == gate'[gates'[q]] IN
                      /\ NoDuplicates(m.waiters)
                      /\ \A u \in Tasks : u \in ToSet(m.waiters) <=> Waits(u, q)'
                      /\ \A u \in Tasks : Waits(u, q)' /\ fut'[u] = "woken" =>
                            ~m.locked /\ u = Head(m.waiters)
    BY DEF QueueInv
  <2>1. gates'[q] = gates[q] /\ gates[q] \in Gates
    BY <1>2, <1>7
  <2>2. CASE q = p
    <3>1. gate'[gates'[q]] = l
      BY <2>1, <2>2, <1>1, <1>7
    <3>2. ASSUME NEW u \in Tasks, Waits(u, q)', fut'[u] = "woken" PROVE FALSE
      <4>1. u # t /\ Waits(u, p) /\ fut[u] = "woken"
        BY <3>2, <2>2, <1>2, <1>6 DEF TypeOK
      <4>2. u = Head(k.waiters)
        BY <4>1, <1>1 DEF QueueInv, k
      <4>3. QED BY <4>1, <4>2, <1>3
    <3>3. QED BY <2>2, <3>1, <3>2, <1>3, <1>4, <1>5, <1>6
  <2>3. CASE q # p
    <3>1. gate'[gates'[q]] = gate[gates[q]]
      BY <2>1, <2>3, <1>7
    <3>2. \A u \in Tasks : Waits(u, q)' <=> Waits(u, q)
      BY <2>3, <1>1, <1>6
    <3>3. \A u \in Tasks : fut'[u] = "woken" => fut[u] = "woken"
      BY <1>2 DEF TypeOK
    <3>4. QED BY <2>1, <3>1, <3>2, <3>3 DEF QueueInv
  <2>4. QED BY <2>2, <2>3
<1>12. LockInv'
  <2> SUFFICES ASSUME NEW q \in Paths, gates'[q] # NoGate
               PROVE  LET m == gate'[gates'[q]] IN
                      /\ \A u \in Tasks : u \in m.owners <=> Inside(u, q)'
                      /\ m.locked <=> m.owners # {}
                      /\ \A u, v \in m.owners : u = v
    BY DEF LockInv
  <2>1. gates'[q] = gates[q] /\ gates[q] \in Gates
    BY <1>2, <1>7
  <2>2. CASE q = p
    <3>1. gate'[gates'[q]] = l
      BY <2>1, <2>2, <1>1, <1>7
    <3>2. \A u \in Tasks : ~Inside(u, p)
      BY <1>1, <1>3 DEF LockInv, k
    <3>3. QED BY <2>2, <3>1, <3>2, <1>5, <1>6
  <2>3. CASE q # p
    <3>1. gate'[gates'[q]] = gate[gates[q]]
      BY <2>1, <2>3, <1>7
    <3>2. QED BY <2>1, <2>3, <3>1, <1>6 DEF LockInv
  <2>4. QED BY <2>2, <2>3
<1>13. QED BY <1>8, <1>9, <1>10, <1>11, <1>12

\* What Reserve makes of a gate, field by field.
LEMMA TakenGate ==
    ASSUME NEW l \in GateType, NEW t \in Tasks
    PROVE  LET n == TakenBy(CountedIn(l), t) IN
           /\ n \in GateType /\ n.users = l.users + 1 /\ n.owners = l.owners \cup {t}
           /\ n.locked = TRUE /\ n.waiters = l.waiters
<1> DEFINE m == CountedIn(l)
<1>1. /\ m \in GateType /\ m.users = l.users + 1 /\ m.owners = l.owners
      /\ m.locked = l.locked /\ m.waiters = l.waiters
  BY DEF GateType, CountedIn
<1> HIDE DEF m
<1>2. LET n == TakenBy(m, t) IN
      /\ n \in GateType /\ n.users = m.users /\ n.owners = m.owners \cup {t}
      /\ n.locked = TRUE /\ n.waiters = m.waiters
  BY <1>1 DEF GateType, TakenBy
<1>3. QED BY <1>1, <1>2 DEF m

LEMMA QueuedGate ==
    ASSUME NEW l \in GateType, NEW t \in Tasks
    PROVE  LET n == QueuedBy(CountedIn(l), t) IN
           /\ n \in GateType /\ n.users = l.users + 1 /\ n.owners = l.owners
           /\ n.locked = l.locked /\ n.waiters = Append(l.waiters, t)
<1> DEFINE m == CountedIn(l)
<1>1. /\ m \in GateType /\ m.users = l.users + 1 /\ m.owners = l.owners
      /\ m.locked = l.locked /\ m.waiters = l.waiters
  BY DEF GateType, CountedIn
<1> HIDE DEF m
<1>2. Append(m.waiters, t) \in Seq(Tasks)
  BY <1>1 DEF GateType
<1>3. LET n == QueuedBy(m, t) IN
      /\ n \in GateType /\ n.users = m.users /\ n.owners = m.owners
      /\ n.locked = m.locked /\ n.waiters = Append(m.waiters, t)
  BY <1>1, <1>2 DEF GateType, QueuedBy
<1>4. QED BY <1>1, <1>3 DEF m

LEMMA ReserveInv ==
    ASSUME GateAssumption, IInv, NEW t \in Tasks, Reserve(t)
    PROVE  IInv'
<1> USE DEF IInv
<1>1. PICK p \in Paths :
        /\ p = Wanted(t) /\ p \in todo[t] /\ fut[t] = "none"
        /\ ~Uses(t, p) /\ \A q \in Paths : ~Waits(t, q)
  <2>1. todo[t] # {} /\ todo[t] \in SUBSET Nat /\ fut[t] = "none"
    BY GateAssumption DEF Reserve, TypeOK
  <2>2. Wanted(t) \in todo[t]
    BY <2>1, MinProperties DEF Wanted
  <2>3. \A q \in Paths : ~Waits(t, q)
    BY <2>1 DEF WaitInv
  <2>4. QED BY <2>1, <2>2, <2>3 DEF Waits, TypeOK
<1> DEFINE step(g, l) ==
        /\ t \notin l.owners
        /\ gates' = [gates EXCEPT ![p] = g]
        /\ frame' = [frame EXCEPT ![t][p] = g]
        /\ IF Immediate(l)
           THEN /\ gate' = [gate EXCEPT ![g] = TakenBy(CountedIn(l), t)]
                /\ todo' = [todo EXCEPT ![t] = @ \ {p}]
                /\ UNCHANGED fut
           ELSE /\ gate' = [gate EXCEPT ![g] = QueuedBy(CountedIn(l), t)]
                /\ fut' = [fut EXCEPT ![t] = "pending"]
                /\ UNCHANGED todo
<1>2. PICK g \in Lookup(p) : step(g, Registered(p, g))
  BY <1>1 DEF Reserve
<1> DEFINE l == Registered(p, g)
<1>3. /\ g \in Gates /\ g # NoGate
      /\ gates[p] = NoGate \/ gates[p] = g
      /\ \A q \in Paths : q # p /\ gates[q] # NoGate => gates[q] # g /\ gates[q] \in Gates
  <2>1. CASE gates[p] # NoGate
    <3>1. g = gates[p]
      BY <2>1 DEF Lookup
    <3>2. QED BY <2>1, <3>1, <1>1 DEF RegistryInv, TypeOK
  <2>2. CASE gates[p] = NoGate
    <3>1. g \in Gates /\ ~Referenced(g)
      BY <2>2 DEF Lookup
    <3>2. ASSUME NEW q \in Paths, gates[q] # NoGate PROVE gates[q] # g /\ gates[q] \in Gates
      <4>1. PICK u \in Tasks : Uses(u, q)
        BY <3>2 DEF RegistryInv
      <4>2. frame[u][q] = gates[q]
        BY <4>1 DEF RegistryInv
      <4>3. QED BY <4>2, <3>1, <3>2 DEF Referenced, TypeOK
    <3>3. QED BY <2>2, <3>1, <3>2, GateAssumption
  <2>3. QED BY <2>1, <2>2
<1>4. /\ l \in GateType /\ NoDuplicates(l.waiters)
      /\ \A u \in Tasks : u \in ToSet(l.waiters) <=> Waits(u, p)
      /\ \A u \in Tasks : Waits(u, p) /\ fut[u] = "woken" => ~l.locked /\ u = Head(l.waiters)
      /\ \A u \in Tasks : u \in l.owners <=> Inside(u, p)
      /\ l.locked <=> l.owners # {}
      /\ \A u, v \in l.owners : u = v
      /\ l.users = Cardinality(UsersOf(p))
  <2>1. CASE gates[p] # NoGate
    <3>1. l = gate[gates[p]]
      BY <2>1, <1>3 DEF Registered
    <3>2. l \in GateType
      BY <3>1, <2>1, <1>1 DEF TypeOK
    <3> HIDE DEF l
    <3>3. QED BY <3>1, <3>2, <2>1, <1>1 DEF QueueInv, LockInv, RegistryInv
  <2>2. CASE gates[p] = NoGate
    <3>1. l = FreshGate
      BY <2>2 DEF Registered
    <3>2. \A u \in Tasks : ~Uses(u, p)
      BY <2>2, <1>1 DEF RegistryInv, Uses
    <3>3. \A u \in Tasks : ~Waits(u, p) /\ ~Inside(u, p)
      BY <3>2 DEF Waits, Inside, Uses
    <3>4. UsersOf(p) = {}
      BY <3>2 DEF UsersOf
    <3> HIDE DEF l
    <3>5. /\ l.users = 0 /\ l.owners = {} /\ l.locked = FALSE /\ l.waiters = <<>>
          /\ l \in GateType
      BY <3>1 DEF FreshGate, GateType
    <3>6. ToSet(<<>>) = {} /\ NoDuplicates(<<>>)
      BY DEF ToSet, NoDuplicates
    <3>7. QED BY <3>3, <3>4, <3>5, <3>6, FS_EmptySet
  <2>3. QED BY <2>1, <2>2
<1>5. /\ step(g, l) /\ UNCHANGED <<work, cancel>>
  BY <1>2 DEF Reserve
<1> DEFINE m == gate'[g]
<1> HIDE DEF l
<1>6. /\ m \in GateType /\ m.users = l.users + 1
      /\ \A h \in Gates : h # g => gate'[h] = gate[h]
      /\ Immediate(l) => /\ m.owners = l.owners \cup {t} /\ m.locked = TRUE
                         /\ m.waiters = l.waiters
      /\ ~Immediate(l) => /\ m.owners = l.owners /\ m.locked = l.locked
                          /\ m.waiters = Append(l.waiters, t)
  <2>1. CASE Immediate(l)
    <3> DEFINE n == TakenBy(CountedIn(l), t)
    <3>1. gate' = [gate EXCEPT ![g] = n]
      BY <2>1, <1>5
    <3>2. /\ n \in GateType /\ n.users = l.users + 1 /\ n.owners = l.owners \cup {t}
          /\ n.locked = TRUE /\ n.waiters = l.waiters
      BY <1>4, TakenGate
    <3> HIDE DEF n
    <3>3. m = n /\ \A h \in Gates : h # g => gate'[h] = gate[h]
      BY <3>1, <1>3 DEF TypeOK
    <3> HIDE DEF m
    <3>4. QED BY <2>1, <3>2, <3>3
  <2>2. CASE ~Immediate(l)
    <3> DEFINE n == QueuedBy(CountedIn(l), t)
    <3>1. gate' = [gate EXCEPT ![g] = n]
      BY <2>2, <1>5
    <3>2. /\ n \in GateType /\ n.users = l.users + 1 /\ n.owners = l.owners
          /\ n.locked = l.locked /\ n.waiters = Append(l.waiters, t)
      BY <1>4, QueuedGate
    <3> HIDE DEF n
    <3>3. m = n /\ \A h \in Gates : h # g => gate'[h] = gate[h]
      BY <3>1, <1>3 DEF TypeOK
    <3> HIDE DEF m
    <3>4. QED BY <2>2, <3>2, <3>3
  <2>3. QED BY <2>1, <2>2
<1> HIDE DEF m
<1>7. /\ gates' = [gates EXCEPT ![p] = g]
      /\ frame' = [frame EXCEPT ![t][p] = g]
      /\ Immediate(l) => todo' = [todo EXCEPT ![t] = @ \ {p}] /\ fut' = fut
      /\ ~Immediate(l) => todo' = todo /\ fut' = [fut EXCEPT ![t] = "pending"]
      /\ UNCHANGED <<work, cancel>>
  BY <1>5
<1> HIDE DEF step
<1>8. ASSUME NEW u \in Tasks, NEW q \in Paths
      PROVE  /\ Uses(u, q)' <=> (Uses(u, q) \/ (u = t /\ q = p))
             /\ Waits(u, q)' <=> (Waits(u, q) \/ (u = t /\ q = p /\ ~Immediate(l)))
             /\ Inside(u, q)' <=> (Inside(u, q) \/ (u = t /\ q = p /\ Immediate(l)))
  <2>1. Uses(u, q)' <=> (Uses(u, q) \/ (u = t /\ q = p))
    BY <1>3, <1>7 DEF Uses, TypeOK
  <2>2. CASE Immediate(l)
    BY <2>1, <2>2, <1>1, <1>3, <1>7 DEF Waits, Inside, Uses, TypeOK
  <2>3. CASE ~Immediate(l)
    BY <2>1, <2>3, <1>1, <1>3, <1>7 DEF Waits, Inside, Uses, TypeOK
  <2>4. QED BY <2>1, <2>2, <2>3
<1>9. TypeOK'
  <2>1. gate' \in [Gates -> GateType]
    BY <1>3, <1>5, <1>6 DEF TypeOK, step, m
  <2>2. QED BY <2>1, <1>1, <1>3, <1>7 DEF TypeOK
<1>10. ASSUME NEW q \in Paths, gates'[q] # NoGate
       PROVE  \/ q = p /\ gate'[gates'[q]] = m
              \/ q # p /\ gates'[q] = gates[q] /\ gate'[gates'[q]] = gate[gates[q]]
  BY <1>3, <1>6, <1>7, <1>10 DEF TypeOK, m
<1>11. RegistryInv'
  <2>1. ASSUME NEW u \in Tasks, NEW q \in Paths, Uses(u, q)'
        PROVE  gates'[q] = frame'[u][q]
    <3>1. CASE q = p
      <4>1. gates'[p] = g
        BY <1>1, <1>7 DEF TypeOK
      <4>2. CASE u = t
        BY <3>1, <4>1, <4>2, <1>1, <1>7 DEF TypeOK
      <4>3. CASE u # t
        <5>1. Uses(u, p) /\ frame'[u][p] = frame[u][p]
          BY <2>1, <3>1, <4>3, <1>7, <1>8 DEF TypeOK
        <5>2. gates[p] = frame[u][p] /\ gates[p] # NoGate
          BY <5>1, <1>1 DEF RegistryInv, Uses
        <5>3. QED BY <3>1, <4>1, <5>1, <5>2, <1>3
      <4>4. QED BY <4>2, <4>3
    <3>2. CASE q # p
      BY <2>1, <3>2, <1>7, <1>8 DEF RegistryInv, TypeOK
    <3>3. QED BY <3>1, <3>2
  <2>2. ASSUME NEW q \in Paths, NEW r \in Paths, gates'[q] = gates'[r], gates'[q] # NoGate
        PROVE  q = r
    BY <2>2, <1>1, <1>3, <1>7 DEF RegistryInv, TypeOK
  <2>3. ASSUME NEW q \in Paths, gates'[q] # NoGate
        PROVE  /\ \E u \in Tasks : Uses(u, q)'
               /\ gate'[gates'[q]].users = Cardinality(UsersOf(q)')
    <3>1. CASE q = p
      <4>1. UsersOf(p)' = UsersOf(p) \cup {t} /\ t \notin UsersOf(p)
        BY <1>1, <1>8 DEF UsersOf
      <4>2. Cardinality(UsersOf(p) \cup {t}) = Cardinality(UsersOf(p)) + 1
        BY <4>1, <1>1, GateAssumption, UsersFinite, FS_AddElement
      <4>3. Uses(t, p)'
        BY <1>1, <1>8
      <4>4. QED BY <2>3, <3>1, <4>1, <4>2, <4>3, <1>4, <1>6, <1>10
    <3>2. CASE q # p
      <4>1. UsersOf(q)' = UsersOf(q)
        BY <3>2, <1>8 DEF UsersOf
      <4>2. gates[q] # NoGate /\ gate'[gates'[q]] = gate[gates[q]]
        BY <2>3, <3>2, <1>10
      <4>3. PICK u \in Tasks : Uses(u, q)
        BY <4>2 DEF RegistryInv
      <4>4. QED BY <4>1, <4>2, <4>3, <1>8 DEF RegistryInv
    <3>3. QED BY <3>1, <3>2
  <2>4. QED BY <2>1, <2>2, <2>3 DEF RegistryInv
<1>12. WaitInv'
  <2> SUFFICES ASSUME NEW u \in Tasks
               PROVE  /\ fut'[u] # "none" <=> \E q \in Paths : Waits(u, q)'
                      /\ \A q \in Paths : Waits(u, q)' => q = Wanted(u)'
                      /\ work'[u] # "none" => todo'[u] = {} /\ \E q \in Paths : Uses(u, q)'
    BY DEF WaitInv
  <2>1. work'[u] # "none" => todo'[u] = {} /\ \E q \in Paths : Uses(u, q)'
    <3>1. work'[u] = work[u] /\ (todo[u] = {} => todo'[u] = {})
      BY <1>7 DEF TypeOK
    <3>2. QED BY <3>1, <1>8 DEF WaitInv
  <2>2. fut[u] # "none" <=> \E q \in Paths : Waits(u, q)
    BY DEF WaitInv
  <2>3. CASE u = t
    <3>1. CASE Immediate(l)
      BY <2>1, <2>2, <2>3, <3>1, <1>1, <1>7, <1>8
    <3>2. CASE ~Immediate(l)
      <4>1. fut'[t] = "pending" /\ Wanted(t)' = p
        BY <3>2, <1>1, <1>7 DEF TypeOK, Wanted
      <4>2. QED BY <2>1, <2>3, <3>2, <4>1, <1>1, <1>8
    <3>3. QED BY <3>1, <3>2
  <2>4. CASE u # t
    <3>1. todo'[u] = todo[u] /\ Wanted(u)' = Wanted(u) /\ fut'[u] = fut[u]
      BY <1>7, <2>4 DEF TypeOK, Wanted
    <3>2. QED BY <1>8, <2>1, <2>2, <2>4, <3>1 DEF WaitInv
  <2>5. QED BY <2>3, <2>4
<1>13. ASSUME NEW u \in Tasks PROVE fut'[u] = "woken" => fut[u] = "woken"
  BY <1>7 DEF TypeOK
<1>14. QueueInv'
  <2> SUFFICES ASSUME NEW q \in Paths, gates'[q] # NoGate
               PROVE  LET n == gate'[gates'[q]] IN
                      /\ NoDuplicates(n.waiters)
                      /\ \A u \in Tasks : u \in ToSet(n.waiters) <=> Waits(u, q)'
                      /\ \A u \in Tasks : Waits(u, q)' /\ fut'[u] = "woken" =>
                            ~n.locked /\ u = Head(n.waiters)
    BY DEF QueueInv
  <2>1. CASE q = p
    <3>1. gate'[gates'[q]] = m
      BY <2>1, <1>10
    <3>2. CASE Immediate(l)
      <4>1. ASSUME NEW u \in Tasks, Waits(u, p) PROVE fut[u] # "woken"
        <5>1. u \in ToSet(l.waiters)
          BY <4>1, <1>4
        <5>2. PICK i \in 1..Len(l.waiters) : l.waiters[i] = u
          BY <5>1, <1>4 DEF ToSet, GateType
        <5>3. QED BY <3>2, <5>2 DEF Immediate
      <4>2. QED BY <2>1, <3>1, <3>2, <4>1, <1>4, <1>6, <1>8, <1>13
    <3>3. CASE ~Immediate(l)
      <4>1. l.waiters \in Seq(Tasks) /\ t \notin ToSet(l.waiters)
        BY <1>1, <1>4 DEF GateType
      <4>2. /\ m.waiters = Append(l.waiters, t) /\ m.locked = l.locked
        BY <3>3, <1>6
      <4> DEFINE w == l.waiters
      <4>3. NoDuplicates(w)
        BY <1>4
      <4> HIDE DEF w
      <4>4. w \in Seq(Tasks) /\ t \notin ToSet(w)
        BY <4>1 DEF w
      <4>5. NoDuplicates(Append(w, t))
        BY <4>3, <4>4 DEF NoDuplicates, ToSet
      <4>6. ToSet(Append(w, t)) = ToSet(w) \cup {t}
        <5>1. /\ DOMAIN w = 1..Len(w) /\ DOMAIN Append(w, t) = 1..(Len(w) + 1)
              /\ Append(w, t)[Len(w) + 1] = t
              /\ \A i \in 1..Len(w) : Append(w, t)[i] = w[i]
              /\ Len(w) \in Nat
          BY <4>4
        <5>2. ASSUME NEW i \in 1..(Len(w) + 1)
              PROVE  Append(w, t)[i] \in ToSet(w) \cup {t}
          BY <5>1 DEF ToSet
        <5>3. ASSUME NEW i \in 1..Len(w)
              PROVE  w[i] \in ToSet(Append(w, t))
          <6>1. i \in DOMAIN Append(w, t) /\ w[i] = Append(w, t)[i]
            BY <5>1
          <6>2. QED BY <6>1 DEF ToSet
        <5>4. t \in ToSet(Append(w, t))
          <6>1. Len(w) + 1 \in DOMAIN Append(w, t)
            BY <5>1
          <6>2. QED BY <5>1, <6>1 DEF ToSet
        <5>5. ToSet(Append(w, t)) \subseteq ToSet(w) \cup {t}
          BY <5>1, <5>2 DEF ToSet
        <5>6. ToSet(w) \subseteq ToSet(Append(w, t))
          BY <5>1, <5>3 DEF ToSet
        <5>7. QED BY <5>4, <5>5, <5>6
      <4>7. ASSUME NEW u \in Tasks, u \in ToSet(w) PROVE Head(Append(w, t)) = Head(w)
        BY <4>4, <4>7 DEF ToSet
      <4>8. ASSUME NEW u \in Tasks, Waits(u, p)', fut'[u] = "woken"
            PROVE  ~m.locked /\ u = Head(m.waiters)
        <5>1. u # t
          BY <4>8, <3>3, <1>7 DEF TypeOK
        <5>2. Waits(u, p) /\ fut[u] = "woken"
          BY <5>1, <4>8, <1>1, <1>8, <1>13
        <5>3. QED BY <5>2, <4>2, <4>7, <1>4 DEF w
      <4>9. QED BY <2>1, <3>1, <3>3, <4>2, <4>5, <4>6, <4>8, <1>1, <1>4, <1>8 DEF w
    <3>4. QED BY <3>2, <3>3
  <2>2. CASE q # p
    <3>1. gates[q] # NoGate /\ gate'[gates'[q]] = gate[gates[q]]
      BY <2>2, <1>10
    <3>2. \A u \in Tasks : Waits(u, q)' <=> Waits(u, q)
      BY <2>2, <1>8
    <3>3. QED BY <3>1, <3>2, <1>13 DEF QueueInv
  <2>3. QED BY <2>1, <2>2
<1>15. LockInv'
  <2> SUFFICES ASSUME NEW q \in Paths, gates'[q] # NoGate
               PROVE  LET n == gate'[gates'[q]] IN
                      /\ \A u \in Tasks : u \in n.owners <=> Inside(u, q)'
                      /\ n.locked <=> n.owners # {}
                      /\ \A u, v \in n.owners : u = v
    BY DEF LockInv
  <2>1. CASE q = p
    <3>1. gate'[gates'[q]] = m
      BY <2>1, <1>10
    <3>2. CASE Immediate(l)
      <4>1. l.owners = {}
        BY <3>2, <1>4 DEF Immediate
      <4>2. QED BY <2>1, <3>1, <3>2, <4>1, <1>4, <1>6, <1>8
    <3>3. CASE ~Immediate(l)
      BY <2>1, <3>1, <3>3, <1>4, <1>6, <1>8
    <3>4. QED BY <3>2, <3>3
  <2>2. CASE q # p
    <3>1. gates[q] # NoGate /\ gate'[gates'[q]] = gate[gates[q]]
      BY <2>2, <1>10
    <3>2. QED BY <2>2, <3>1, <1>8 DEF LockInv
  <2>3. QED BY <2>1, <2>2
<1>16. QED BY <1>9, <1>11, <1>12, <1>14, <1>15

-----------------------------------------------------------------------------
(* Theorems *)

LEMMA StutterInv == ASSUME IInv, UNCHANGED vars PROVE IInv'
<1> USE DEF vars, IInv
<1>1. TypeOK'
  BY DEF TypeOK
<1>2. RegistryInv'
  BY DEF RegistryInv, Uses, UsersOf
<1>3. WaitInv'
  BY DEF WaitInv, Uses, Waits, Wanted
<1>4. QueueInv'
  BY DEF QueueInv, Uses, Waits
<1>5. LockInv'
  BY DEF LockInv, Inside
<1>6. QED BY <1>1, <1>2, <1>3, <1>4, <1>5

LEMMA NextInv == ASSUME GateAssumption, IInv, [Next]_vars PROVE IInv'
<1>1. ASSUME NEW t \in Tasks, Call(t) PROVE IInv'
  BY <1>1, CallInv
<1>2. ASSUME NEW t \in Tasks, Reserve(t) PROVE IInv'
  BY <1>2, ReserveInv
<1>3. ASSUME NEW t \in Tasks, Resume(t) PROVE IInv'
  BY <1>3, ResumeInv
<1>4. ASSUME NEW t \in Tasks, Cancel(t) \/ Start(t) \/ Finish(t) PROVE IInv'
  BY <1>4, QuietInv
<1>5. ASSUME NEW t \in Tasks, Unwind(t) \/ Reenter(t) \/ Leave(t) PROVE IInv'
  BY <1>5, LeaveAllInv DEF Unwind, Reenter, Leave
<1>6. CASE UNCHANGED vars
  BY <1>6, StutterInv
<1>7. QED BY <1>1, <1>2, <1>3, <1>4, <1>5, <1>6 DEF Next

THEOREM Invariance == Spec => []IInv
<1>1. Init => IInv
  BY GateAssumption, InitInv
<1>2. IInv /\ [Next]_vars => IInv'
  BY GateAssumption, NextInv
<1>3. QED BY <1>1, <1>2, PTL DEF Spec

\* Every variable of the writer admission has its type.
THEOREM TypeCorrect == Spec => []TypeOK
<1>1. IInv => TypeOK
  BY DEF IInv
<1>2. QED BY <1>1, Invariance, PTL

\* database_write admits one writer per path: for any number of tasks, paths and
\* cancellations, two tasks are never inside the gate of one database together.
THEOREM WritersExclude == Spec => []OneWriter
<1>1. ASSUME IInv PROVE OneWriter
  <2> SUFFICES ASSUME NEW p \in Paths, NEW t \in Tasks, NEW u \in Tasks,
                      Inside(t, p), Inside(u, p)
               PROVE  t = u
    BY DEF OneWriter
  <2>1. gates[p] # NoGate
    BY <1>1 DEF IInv, RegistryInv, Inside, Uses
  <2>2. t \in gate[gates[p]].owners /\ u \in gate[gates[p]].owners
    BY <1>1, <2>1 DEF IInv, LockInv
  <2>3. QED BY <1>1, <2>1, <2>2 DEF IInv, LockInv
<1>2. QED BY <1>1, Invariance, PTL

\* The registry holds exactly the gates in use, each with its number of users.
THEOREM RegistryIsExact == Spec => []RegistryExact
<1>1. ASSUME IInv PROVE RegistryExact
  BY <1>1 DEF IInv, RegistryInv, RegistryExact, Uses, UsersOf
<1>2. QED BY <1>1, Invariance, PTL

\* Cancellation never separates a running operation from its gates.
THEOREM AcceptedWorkFinishesInside == Spec => AcceptedWorkKeepsGate
<1> DEFINE Keeps == \A t \in Tasks :
                      work[t] = "running" => frame'[t] = frame[t] /\ work'[t] # "none"
<1>1. ASSUME IInv, [Next]_vars PROVE Keeps
  <2> SUFFICES ASSUME NEW t \in Tasks, work[t] = "running"
               PROVE  frame'[t] = frame[t] /\ work'[t] # "none"
    OBVIOUS
  <2>1. todo[t] = {} /\ fut[t] = "none"
    <3>1. todo[t] = {}
      BY <1>1 DEF IInv, WaitInv
    <3>2. fut[t] = "none"
      BY <1>1, <3>1 DEF IInv, WaitInv, Waits
    <3>3. QED BY <3>1, <3>2
  <2>2. CASE UNCHANGED vars
    BY <2>2 DEF vars
  <2>3. ASSUME NEW u \in Tasks,
               Call(u) \/ Cancel(u) \/ Start(u) \/ Finish(u) \/ Resume(u) \/ Reserve(u)
        PROVE  frame'[t] = frame[t] /\ work'[t] # "none"
    BY <1>1, <2>1, <2>3 DEF Call, Cancel, Start, Finish, Resume, Reserve, IInv, TypeOK
  <2>4. ASSUME NEW u \in Tasks, Unwind(u) \/ Reenter(u) \/ Leave(u)
        PROVE  frame'[t] = frame[t] /\ work'[t] # "none"
    <3>1. LeaveAll(u) /\ u # t
      BY <2>1, <2>4 DEF Unwind, Reenter, Leave
    <3>2. QED BY <1>1, <3>1 DEF LeaveAll, IInv, TypeOK
  <2>5. QED BY <1>1, <2>2, <2>3, <2>4 DEF Next
<1>2. QED BY <1>1, Invariance, PTL DEF Spec, AcceptedWorkKeepsGate

\* Who leaves is not inside afterwards, and nobody else moves.
LEMMA LeaversAreOutside ==
    ASSUME IInv, NEW u \in Tasks, LeaveAll(u), NEW t \in Tasks, NEW p \in Paths, Inside(t, p)'
    PROVE  Inside(t, p)
BY DEF LeaveAll, Inside, IInv, TypeOK

\* A waiter that gets the lock was the head of the queue; and who gets it at
\* once found only cancelled waiters.
LEMMA ResumeInOrder ==
    ASSUME GateAssumption, IInv, NEW u \in Tasks, Resume(u), NEW t \in Tasks, NEW p \in Paths,
           ~Inside(t, p), Inside(t, p)', gates[p] # NoGate
    PROVE  gate[gates[p]].waiters # <<>> /\ gate[gates[p]].waiters[1] = t
<1>1. frame' = frame /\ todo' = [todo EXCEPT ![u] = @ \ {Wanted(u)}] /\ fut[u] = "woken"
  BY DEF Resume
<1>2. Uses(t, p) /\ p \in todo[t] /\ p \notin todo'[t]
  BY <1>1 DEF Inside, Uses
<1>3. t = u /\ Waits(t, p)
  BY <1>1, <1>2 DEF IInv, TypeOK, Waits
<1>4. t \in ToSet(gate[gates[p]].waiters) /\ t = Head(gate[gates[p]].waiters)
  BY <1>1, <1>3 DEF IInv, QueueInv
<1>5. QED BY <1>4 DEF ToSet

LEMMA ReserveInOrder ==
    ASSUME GateAssumption, IInv, NEW u \in Tasks, Reserve(u), NEW t \in Tasks, NEW p \in Paths,
           ~Inside(t, p), Inside(t, p)', gates[p] # NoGate
    PROVE  \A i \in 1..Len(gate[gates[p]].waiters) : fut[gate[gates[p]].waiters[i]] = "cancelled"
<1>1. PICK g \in Lookup(Wanted(u)) :
        /\ frame' = [frame EXCEPT ![u][Wanted(u)] = g]
        /\ IF Immediate(Registered(Wanted(u), g))
           THEN todo' = [todo EXCEPT ![u] = @ \ {Wanted(u)}]
           ELSE todo' = todo
  BY DEF Reserve
<1>2. t = u /\ p = Wanted(u)
  <2>1. ASSUME t # u \/ p # Wanted(u) PROVE frame'[t][p] = frame[t][p] /\ (p \in todo'[t] <=> p \in todo[t])
    BY <1>1, <2>1 DEF IInv, TypeOK
  <2>2. QED BY <2>1 DEF Inside
<1>3. p \in todo[t]
  <2>1. todo[u] \in SUBSET Nat /\ todo[u] # {}
    BY GateAssumption DEF Reserve, IInv, TypeOK
  <2>2. QED BY <1>2, <2>1, MinProperties DEF Wanted
<1>4. Immediate(Registered(p, g))
  BY <1>1, <1>2, <1>3 DEF Inside
<1>5. Registered(p, g) = gate[gates[p]]
  BY <1>1, <1>2 DEF Registered, Lookup
<1>6. QED BY <1>4, <1>5 DEF Immediate

\* Admission is in the order of arrival, whoever is cancelled: a task that gets
\* the lock of a path was the first in its queue, or found only cancelled waiters.
THEOREM AdmissionIsFifo == Spec => FifoAdmission
<1> DEFINE Ordered ==
             \A t \in Tasks, p \in Paths :
               (~Inside(t, p) /\ Inside(t, p)') =>
                  LET ws == gate[gates[p]].waiters IN
                  gates[p] # NoGate =>
                    \A i \in 1..Len(ws) :
                       (ws[i] # t /\ fut[ws[i]] \in {"pending", "woken"} /\ ~cancel[ws[i]]) =>
                          \E j \in 1..Len(ws) : j < i /\ ws[j] = t
<1>1. ASSUME IInv, [Next]_vars PROVE Ordered
  <2> SUFFICES ASSUME NEW t \in Tasks, NEW p \in Paths, ~Inside(t, p), Inside(t, p)', gates[p] # NoGate,
                      NEW i \in 1..Len(gate[gates[p]].waiters),
                      gate[gates[p]].waiters[i] # t,
                      fut[gate[gates[p]].waiters[i]] \in {"pending", "woken"}
               PROVE  \E j \in 1..Len(gate[gates[p]].waiters) : j < i /\ gate[gates[p]].waiters[j] = t
    OBVIOUS
  <2> USE GateAssumption
  <2>1. ASSUME NEW u \in Tasks, Resume(u)
        PROVE  \E j \in 1..Len(gate[gates[p]].waiters) : j < i /\ gate[gates[p]].waiters[j] = t
    <3>1. gate[gates[p]].waiters[1] = t
      BY <1>1, <2>1, ResumeInOrder
    <3>2. gate[gates[p]].waiters \in Seq(Tasks)
      BY <1>1 DEF IInv, TypeOK, GateType
    <3>3. 1 \in 1..Len(gate[gates[p]].waiters) /\ 1 < i
      BY <3>1, <3>2
    <3>4. QED BY <3>1, <3>3
  <2>2. ASSUME NEW u \in Tasks, Reserve(u) PROVE FALSE
    BY <1>1, <2>2, ReserveInOrder
  <2>3. ASSUME NEW u \in Tasks, Unwind(u) \/ Reenter(u) \/ Leave(u) PROVE FALSE
    BY <1>1, <2>3, LeaversAreOutside DEF Unwind, Reenter, Leave
  <2>4. ASSUME NEW u \in Tasks, Call(u) PROVE FALSE
    BY <1>1, <2>4 DEF Call, Idle, Inside, IInv, TypeOK
  <2>5. ASSUME NEW u \in Tasks, Cancel(u) \/ Start(u) \/ Finish(u) PROVE FALSE
    BY <1>1, <2>5 DEF Cancel, Start, Finish, Inside
  <2>6. CASE UNCHANGED vars
    BY <2>6 DEF vars, Inside
  <2>7. QED BY <1>1, <2>1, <2>2, <2>3, <2>4, <2>5, <2>6 DEF Next
<1>2. QED BY <1>1, Invariance, PTL DEF Spec, FifoAdmission

-----------------------------------------------------------------------------
(***************************************************************************)
(* The local sends, over the instance D: ReportsAreTrue and                *)
(* RootsAreRespected.                                                      *)
(***************************************************************************)

\* Where the outcome of a send is settled.
Settled(p) == p \in {"leave", "notify", "done"}

\* How far a send is, from its position: before its transaction has committed
\* nothing is written, and the outcome is settled exactly when the thread is over.
Position(d) ==
    /\ pc[d] = "idle" <=> outcome[d] = "prepared"
    /\ Settled(pc[d]) => outcome[d] \in D!Final
    /\ outcome[d] \in D!Final => Settled(pc[d])
    /\ pc[d] \in {"idle", "init", "gate", "open", "inserted"} => d \notin written
    /\ pc[d] = "confirm" => d \in written

\* A transaction that may still commit holds the write lock, and found its root
\* active and its anchor stored.
Transaction(d) ==
    pc[d] = "inserted" => lock = d /\ membership[RootOf[d]] = "active" /\ d \in anchors

\* A send is in the gate exactly while its accepted operation runs.
Admission(d) ==
    /\ admitted = d => pc[d] \in {"open", "inserted", "confirm", "recover", "leave"}
    /\ pc[d] \in {"open", "inserted", "confirm", "recover", "leave"} => admitted = d

\* What a send that is over has told its caller.
Report(d) ==
    /\ pc[d] = "done" => result[d] \in {outcome[d], "cancelled"}
    /\ pc[d] = "notify" => outcome[d] = "committed"
    /\ receipt[d] => outcome[d] = "committed"

\* The inductive invariant.
SendsInv ==
    /\ D!TypeOK
    /\ D!OutcomeHonest
    /\ D!PurgedIsEmpty
    /\ rows \subseteq written
    /\ \A d \in Deliveries : Position(d) /\ Transaction(d) /\ Admission(d) /\ Report(d)

-----------------------------------------------------------------------------

LEMMA InitSendsInv == ASSUME D!DeliveryAssumption, D!Init PROVE SendsInv
  BY DEF D!DeliveryAssumption, D!Init, SendsInv, D!TypeOK, D!OutcomeHonest,
         D!PurgedIsEmpty, Position, Transaction, Admission, Report, Settled, D!Final,
         D!Owned

\* The steps of a send keep the invariant.
LEMMA SendStep ==
  ASSUME D!DeliveryAssumption, SendsInv, NEW d \in Deliveries,
         \/ D!Send(d) \/ D!InitializeFails(d) \/ D!CancelUnsent(d)
         \/ D!Initialized(d) \/ D!Enter(d) \/ D!Cancel(d) \/ D!Insert(d)
         \/ D!InsertFails(d) \/ D!Commit(d) \/ D!RolledBack(d) \/ D!CommitLost(d)
         \/ D!Confirm(d) \/ D!Recover(d) \/ D!Leave(d) \/ D!Notify(d)
  PROVE  SendsInv'
<1>0. NoDelivery \notin Deliveries
  BY DEF D!DeliveryAssumption
<1> USE DEF SendsInv, D!TypeOK, D!OutcomeHonest, D!PurgedIsEmpty, Position, Transaction,
            Admission, Report, Settled, D!Final, D!Owned, D!database, D!caller
<1>1. CASE D!Send(d)
  BY <1>0, <1>1 DEF D!Send
<1>2. CASE D!InitializeFails(d)
  BY <1>0, <1>2 DEF D!InitializeFails, D!EndUnsent
<1>3. CASE D!CancelUnsent(d)
  BY <1>0, <1>3 DEF D!CancelUnsent, D!EndUnsent
<1>4. CASE D!Initialized(d)
  BY <1>0, <1>4 DEF D!Initialized
<1>5. CASE D!Enter(d)
  <2>1. D!TypeOK' /\ D!OutcomeHonest' /\ D!PurgedIsEmpty' /\ (rows \subseteq written)'
    BY <1>0, <1>5 DEF D!Enter
  <2>2. ASSUME NEW e \in Deliveries
        PROVE  (Position(e) /\ Transaction(e) /\ Admission(e) /\ Report(e))'
    <3>1. (Position(e) /\ Transaction(e))'
      BY <1>0, <1>5 DEF D!Enter
    <3>2. Admission(e)'
      <4>1. CASE e = d
        BY <1>0, <1>5, <4>1 DEF D!Enter
      <4>2. CASE e # d
        <5>1. pc'[e] = pc[e] /\ admitted = NoDelivery /\ admitted' # e
          BY <1>0, <1>5, <4>2 DEF D!Enter
        <5>2. pc[e] \notin {"open", "inserted", "confirm", "recover", "leave"}
          BY <1>0, <4>2, <5>1
        <5> QED
          BY <5>1, <5>2
      <4> QED
        BY <4>1, <4>2
    <3>3. Report(e)'
      BY <1>0, <1>5 DEF D!Enter
    <3> QED
      BY <3>1, <3>2, <3>3
  <2> QED
    BY <2>1, <2>2
<1>6. CASE D!Cancel(d)
  BY <1>0, <1>6 DEF D!Cancel
<1>7. CASE D!Insert(d)
  BY <1>0, <1>7 DEF D!Insert
<1>8. CASE D!InsertFails(d)
  BY <1>0, <1>8 DEF D!InsertFails, D!Failed
<1>9. CASE D!Commit(d)
  BY <1>0, <1>9 DEF D!Commit, D!Durable
<1>10. CASE D!RolledBack(d)
  BY <1>0, <1>10 DEF D!RolledBack, D!Failed
<1>11. CASE D!CommitLost(d)
  BY <1>0, <1>11 DEF D!CommitLost, D!Durable
<1>12. CASE D!Confirm(d)
  BY <1>0, <1>12 DEF D!Confirm, D!Confirmed
<1>13. CASE D!Recover(d)
  <2>1. D!TypeOK' /\ D!OutcomeHonest' /\ D!PurgedIsEmpty' /\ (rows \subseteq written)'
    <3>1. D!TypeOK'
      <4>1. lock' \in Deliveries \cup {NoDelivery} /\ pc' = [pc EXCEPT ![d] = "leave"]
        BY <1>13 DEF D!Recover
      <4>2. /\ outcome' \in [Deliveries -> {"prepared", "pending"} \cup D!Final]
            /\ receipt' \in [Deliveries -> BOOLEAN]
        <5>1. CASE D!Confirmed(d)
          BY <5>1 DEF D!Confirmed
        <5>2. CASE outcome' = [outcome EXCEPT ![d] = "unknown"] /\ receipt' = receipt
          BY <5>2
        <5> QED
          BY <1>13, <5>1, <5>2 DEF D!Recover
      <4>3. UNCHANGED <<membership, anchors, rows, written, admitted, cancelled, result>>
        BY <1>13 DEF D!Recover
      <4> QED
        BY <4>1, <4>2, <4>3
    <3>2. D!OutcomeHonest'
      <4>1. ASSUME NEW e \in Deliveries
            PROVE  (outcome[e] = "failed" => e \notin written) /\ (receipt[e] => e \in written)
        BY DEF SendsInv
      <4>2. ASSUME NEW e \in Deliveries, e # d
            PROVE  outcome'[e] = outcome[e] /\ receipt'[e] = receipt[e]
        BY <1>13, <4>2 DEF D!Recover, D!Confirmed
      <4>3. outcome'[d] # "failed" /\ (receipt'[d] => d \in written)
        BY <1>13, <4>1 DEF D!Recover, D!Confirmed
      <4>4. written' = written
        BY <1>13 DEF D!Recover
      <4> QED
        BY <4>1, <4>2, <4>3, <4>4
    <3>3. D!PurgedIsEmpty' /\ (rows \subseteq written)'
      BY <1>13 DEF D!Recover
    <3> QED
      BY <3>1, <3>2, <3>3
  <2>2. ASSUME NEW e \in Deliveries
        PROVE  (Position(e) /\ Transaction(e) /\ Admission(e) /\ Report(e))'
    <3>1. (Position(e) /\ Transaction(e))'
      BY <1>0, <1>13 DEF D!Recover, D!Confirmed
    <3>2. Admission(e)'
      BY <1>0, <1>13 DEF D!Recover, D!Confirmed
    <3>3. Report(e)'
      BY <1>0, <1>13 DEF D!Recover, D!Confirmed
    <3> QED
      BY <3>1, <3>2, <3>3
  <2> QED
    BY <2>1, <2>2
<1>14. CASE D!Leave(d)
  <2>1. D!TypeOK' /\ D!OutcomeHonest' /\ D!PurgedIsEmpty' /\ (rows \subseteq written)'
    BY <1>0, <1>14 DEF D!Leave, D!End
  <2>2. ASSUME NEW e \in Deliveries
        PROVE  (Position(e) /\ Transaction(e) /\ Admission(e) /\ Report(e))'
    <3>1. (Position(e) /\ Transaction(e))'
      BY <1>0, <1>14 DEF D!Leave, D!End
    <3>2. Admission(e)'
      <4>1. CASE e = d
        BY <1>0, <1>14, <4>1 DEF D!Leave, D!End
      <4>2. CASE e # d
        <5>1. pc'[e] = pc[e] /\ admitted = d /\ admitted' # e
          BY <1>0, <1>14, <4>2 DEF D!Leave, D!End
        <5>2. pc[e] \notin {"open", "inserted", "confirm", "recover", "leave"}
          BY <1>0, <4>2, <5>1
        <5> QED
          BY <5>1, <5>2
      <4> QED
        BY <4>1, <4>2
    <3>3. Report(e)'
      BY <1>0, <1>14 DEF D!Leave, D!End
    <3> QED
      BY <3>1, <3>2, <3>3
  <2> QED
    BY <2>1, <2>2
<1>15. CASE D!Notify(d)
  BY <1>0, <1>15 DEF D!Notify, D!End
<1> QED
  BY <1>1, <1>2, <1>3, <1>4, <1>5, <1>6, <1>7, <1>8, <1>9, <1>10, <1>11, <1>12, <1>13,
     <1>14, <1>15

\* The transactions on a root keep it: they wait for the write lock.
LEMMA RootStep ==
  ASSUME D!DeliveryAssumption, SendsInv, NEW r \in Roots,
         D!Trash(r) \/ D!Restore(r) \/ D!Purge(r) \/ D!Clear(r)
  PROVE  SendsInv'
<1>0. RootOf \in [Deliveries -> Roots] /\ NoDelivery \notin Deliveries
  BY DEF D!DeliveryAssumption
<1> USE DEF SendsInv, D!TypeOK, D!OutcomeHonest, D!PurgedIsEmpty, Position, Transaction,
            Admission, Report, Settled, D!Final, D!Owned, D!Membership, D!Of, D!caller
<1>1. CASE D!Trash(r)
  BY <1>0, <1>1 DEF D!Trash
<1>2. CASE D!Restore(r)
  BY <1>0, <1>2 DEF D!Restore
<1>3. CASE D!Purge(r)
  BY <1>0, <1>3 DEF D!Purge
<1>4. CASE D!Clear(r)
  <2>1. membership' = membership
    BY <1>4 DEF D!Clear
  <2>2. /\ anchors' = anchors \ {d \in Deliveries : RootOf[d] = r}
        /\ rows' = rows \ {d \in Deliveries : RootOf[d] = r}
        /\ lock = NoDelivery
        /\ UNCHANGED <<lock, written, admitted, pc, outcome, receipt, cancelled, result>>
    BY <1>4 DEF D!Clear, D!caller
  <2> QED
    BY <1>0, <2>1, <2>2
<1> QED
  BY <1>1, <1>2, <1>3, <1>4

LEMMA NextSendsInv ==
  ASSUME D!DeliveryAssumption, SendsInv, [D!Next]_(D!vars)
  PROVE  SendsInv'
<1>1. CASE UNCHANGED D!vars
  BY <1>1 DEF SendsInv, D!TypeOK, D!OutcomeHonest, D!PurgedIsEmpty, Position, Transaction,
              Admission, Report, Settled, D!Final, D!Owned, D!vars, D!database, D!caller
<1>2. CASE D!Next
  BY <1>2, SendStep, RootStep DEF D!Next
<1> QED
  BY <1>1, <1>2

\* The invariant holds throughout.
THEOREM SendsInvariance ==
  ASSUME D!DeliveryAssumption
  PROVE  D!Spec => []SendsInv
<1>1. D!Init => SendsInv
  BY InitSendsInv
<1>2. SendsInv /\ [D!Next]_(D!vars) => SendsInv'
  BY NextSendsInv
<1> QED
  BY <1>1, <1>2, PTL DEF D!Spec

\* Every variable keeps its type.
THEOREM SendsTypeCorrect ==
  ASSUME D!DeliveryAssumption
  PROVE  D!Spec => []D!TypeOK
<1>1. SendsInv => D!TypeOK
  BY DEF SendsInv
<1> QED
  BY <1>1, SendsInvariance, PTL

\* "Failed" is never said of a send that is durable, nor a receipt given for one
\* that is not, whatever is cancelled, lost or purged (PreparedDelivery.commit);
\* a send that is over has left the gate and told its caller its outcome, unless
\* the caller was cancelled (LocalDeliveryService.send).
THEOREM SendsAreHonest ==
  ASSUME D!DeliveryAssumption
  PROVE  D!Spec => []ReportsAreTrue
<1>1. SendsInv => D!OutcomeHonest
  BY DEF SendsInv
<1>2. SendsInv => D!CallerInformed
  BY DEF SendsInv, D!CallerInformed, D!TypeOK, Position, Admission, Report, Settled,
         D!Final, D!Owned
<1>3. SendsInv => ReportsAreTrue
  BY <1>1, <1>2 DEF ReportsAreTrue, D!ReportsAreTrue
<1> QED
  BY <1>3, SendsInvariance, PTL

\* A delivery is written only into an active root that stores its anchor
\* (_active and _anchor inside the transaction of _insert), and none outlives the
\* purge of its root or the deletion of its anchor (_purge_rows, clear_session).
THEOREM RootsAreLive ==
  ASSUME D!DeliveryAssumption
  PROVE  D!Spec => RootsAreRespected
<1>1. ASSUME SendsInv, [D!Next]_(D!vars), NEW e \in Deliveries, e \in rows' \ rows
      PROVE  membership[RootOf[e]] = "active" /\ e \in anchors
  <2>1. pc[e] = "inserted"
    BY <1>1 DEF D!Next, D!vars, D!database, D!Send, D!InitializeFails, D!CancelUnsent,
                D!EndUnsent, D!Initialized, D!Enter, D!Cancel, D!Insert, D!InsertFails,
                D!Failed, D!Commit, D!RolledBack, D!CommitLost, D!Durable, D!Confirm,
                D!Recover, D!Leave, D!Notify, D!Trash, D!Restore, D!Purge, D!Clear,
                D!Membership
  <2> QED
    BY <1>1, <2>1 DEF SendsInv, Transaction
<1>2. SendsInv /\ [D!Next]_(D!vars) =>
        [\A d \in Deliveries : d \in rows' \ rows =>
           membership[RootOf[d]] = "active" /\ d \in anchors]_(D!vars)
  BY <1>1
<1>3. SendsInv => D!PurgedIsEmpty
  BY DEF SendsInv
<1> QED
  BY <1>2, <1>3, SendsInvariance, PTL DEF D!Spec, D!OnlyIntoLiveRoots, RootsAreRespected, D!RootsAreRespected

-----------------------------------------------------------------------------
(* The two of them, of which one rests while the other one runs *)

LEMMA EachByItself == WritersSpec => Spec /\ D!Spec
<1>1. WritersInit => Init /\ D!Init
  BY DEF WritersInit
<1>2. [WritersNext]_<<which, vars, sends>> => [Next]_vars /\ [D!Next]_(D!vars)
  BY DEF WritersNext, sends, D!vars, D!database, D!caller
<1> QED
  BY <1>1, <1>2, PTL DEF WritersSpec, Spec, D!Spec

(* What is promised of the gates holds where the sends rest or run.         *)
THEOREM GatesHoldAmongBoth ==
  WritersSpec => []OneWriter /\ AcceptedWorkKeepsGate /\ FifoAdmission
BY EachByItself, WritersExclude, AcceptedWorkFinishesInside, AdmissionIsFifo, PTL

(* And what is promised of the sends, where the gates rest or run.          *)
THEOREM SendsAreHonestAmongBoth == WritersSpec => []ReportsAreTrue /\ RootsAreRespected
BY EachByItself, SendsAreHonest, RootsAreLive, SendsAssumption, PTL
=============================================================================
