-------------------------- MODULE MCServices_proofs --------------------------
(***************************************************************************)
(* Theorems about the services, for every value of their constants: of     *)
(* each by itself, and of the specification in which the others rest while *)
(* one of them runs.  The chains of wakeups come first, then the receipts, *)
(* the requests of a voice call, the removal of chats, the A2A server, the *)
(* generations of tools, and the voice calls themselves.                   *)
(***************************************************************************)
EXTENDS MCServices, FiniteSetTheorems, SequenceTheorems, TLAPS

-----------------------------------------------------------------------------
(***************************************************************************)
(* The wakeups: ChainsAreBounded.                                          *)
(***************************************************************************)

\* The types of a chain, a timer and a run.
ChainRecord == [root : Chats \cup {NoId}, activations : Nat, cancelled : BOOLEAN]
TimerRecord == [status : {"free", "pending", "claimed", "cancelled", "failed"},
                chain : Chains \cup {NoId}, due : BOOLEAN]
RunRecord == [stage : {"none", "created", "running", "stopping"},
              chain : Chains \cup {NoId}, timer : Timers \cup {NoId}]

Types ==
    /\ wchain \in [Chains -> ChainRecord] /\ wtimer \in [Timers -> TimerRecord]
    /\ wclaimed \in [Chats -> Timers \cup {NoId}] /\ wrun \in [Chats -> RunRecord]
    /\ wlanes \subseteq Chats /\ wmutating \in Chats \cup {NoId} /\ wguarded \in BOOLEAN
    /\ wserve \in [waits : BOOLEAN, for : SUBSET Timers]
    /\ wchanged \in BOOLEAN /\ wclosed \in BOOLEAN /\ wfaults \in 0..MaxFaults

\* What runs in a chat belongs to a chain of that chat, and what does not run
\* has no stage, chain or timer left.
RunsAreOwned == \A r \in Chats :
    /\ wrun[r].stage = "none" => wrun[r] = W!NoRun
    /\ wrun[r].stage # "none" => wrun[r].chain \in Chains /\ wchain[wrun[r].chain].root = r

\* A timer somebody scheduled belongs to a chain of a chat.
TimersAreOwned == \A t \in Timers : wtimer[t].status # "free" =>
    wtimer[t].chain \in Chains /\ wchain[wtimer[t].chain].root \in Chats

\* The timers of a chain that were claimed.
ClaimedOf(c) == {t \in Timers : wtimer[t].chain = c /\ wtimer[t].status = "claimed"}

\* The parts of ChainsAreBounded.
Budget == \A c \in Chains :
    wchain[c].activations <= MaxActivations /\ wchain[c].activations = Cardinality(ClaimedOf(c))
CancelledAreDone == \A c \in Chains : wchain[c].cancelled => \A t \in W!Pending : wtimer[t].chain # c
FewPending == Cardinality(W!Pending) <= MaxPending
FewRuns == Cardinality(W!Occupied) <= MaxParallel
ClaimIsOwn == \A r \in Chats :
    wrun[r].timer # NoId => wclaimed[r] = wrun[r].timer /\ r \notin wlanes

Owned == Types /\ RunsAreOwned /\ TimersAreOwned
WInv == Owned /\ Budget /\ CancelledAreDone /\ FewPending /\ FewRuns /\ ClaimIsOwn

-----------------------------------------------------------------------------
(* Facts about the constants *)

LEMMA SameFinite == \A T : W!IsFiniteSet(T) <=> IsFiniteSet(T)
BY Zenon DEF IsFiniteSet, W!IsFiniteSet

LEMMA SameCardinality == \A T : W!Cardinality(T) = Cardinality(T)
BY Zenon DEF Cardinality, W!Cardinality

LEMMA Constants ==
    /\ NoId \notin Chats /\ NoId \notin Chains /\ NoId \notin Timers
    /\ IsFiniteSet(Chats) /\ IsFiniteSet(Timers)
    /\ MaxPending \in Nat /\ MaxActivations \in Nat /\ MaxParallel \in Nat /\ MaxFaults \in Nat
    /\ MaxPending > 0 /\ MaxParallel > 0
BY ServicesAssumption, SameFinite DEF ServicesAssumption, W!WakeupsAssumption

LEMMA ChainUpdates ==
    ASSUME NEW k \in ChainRecord
    PROVE  /\ \A b \in BOOLEAN : [k EXCEPT !.cancelled = b] \in ChainRecord
           /\ [k EXCEPT !.activations = @ + 1] \in ChainRecord
           /\ \A r \in Chats : [k EXCEPT !.root = r] \in ChainRecord
BY DEF ChainRecord

LEMMA TimerUpdates ==
    ASSUME NEW k \in TimerRecord
    PROVE  /\ [k EXCEPT !.status = "cancelled"] \in TimerRecord
           /\ [k EXCEPT !.status = "claimed"] \in TimerRecord
           /\ [k EXCEPT !.status = "failed"] \in TimerRecord
           /\ [k EXCEPT !.due = TRUE] \in TimerRecord
BY DEF TimerRecord

LEMMA RunUpdates ==
    ASSUME NEW k \in RunRecord
    PROVE  /\ [k EXCEPT !.stage = "running"] \in RunRecord
           /\ [k EXCEPT !.stage = IF @ = "none" THEN @ ELSE "stopping"] \in RunRecord
BY DEF RunRecord

LEMMA NoRunIs == W!NoRun = [stage |-> "none", chain |-> NoId, timer |-> NoId]
BY DEF W!NoRun

\* At most n of a finite set, after one was added below the limit.
LEMMA OneMore ==
    ASSUME NEW T, IsFiniteSet(T), NEW x, NEW n \in Nat, Cardinality(T) < n
    PROVE  Cardinality(T \cup {x}) <= n
<1>1. Cardinality(T) \in Nat
      BY FS_CardinalityType
<1>2. Cardinality(T \cup {x}) = IF x \in T THEN Cardinality(T) ELSE Cardinality(T) + 1
      BY FS_AddElement
<1> QED BY <1>1, <1>2

LEMMA NoMore ==
    ASSUME NEW T, IsFiniteSet(T), NEW U, U \subseteq T, NEW n \in Nat, Cardinality(T) <= n
    PROVE  Cardinality(U) <= n
<1>1. IsFiniteSet(U) /\ Cardinality(U) <= Cardinality(T)
      BY FS_Subset
<1>2. Cardinality(T) \in Nat /\ Cardinality(U) \in Nat
      BY <1>1, FS_CardinalityType
<1> QED BY <1>1, <1>2

-----------------------------------------------------------------------------
(* Types *)

\* Cancelling chains keeps the types of the chains and of the timers.
LEMMA RevokeTyped ==
    ASSUME Types, NEW revoked, W!Revoke(revoked)
    PROVE  /\ wchain' \in [Chains -> ChainRecord]
           /\ wtimer' \in [Timers -> TimerRecord]
<1>1. \A c \in Chains : [wchain[c] EXCEPT !.cancelled = @ \/ c \in revoked] \in ChainRecord
  <2>1. \A c \in Chains : wchain[c] \in ChainRecord
        BY DEF Types
  <2>2. \A c \in Chains : (wchain[c].cancelled \/ c \in revoked) \in BOOLEAN
        BY Zenon
  <2> QED BY <2>1, <2>2, ChainUpdates, Zenon
<1>2. \A t \in Timers : [wtimer[t] EXCEPT !.status = "cancelled"] \in TimerRecord
  <2>1. \A t \in Timers : wtimer[t] \in TimerRecord
        BY DEF Types
  <2> QED BY <2>1, TimerUpdates, Zenon
<1>3. \A t \in Timers : wtimer[t] \in TimerRecord
      BY DEF Types
<1> QED BY <1>1, <1>2, <1>3 DEF W!Revoke

\* Stopping a run keeps the type of the runs.
LEMMA StopTyped ==
    ASSUME Types, NEW r, W!StopRun(r)
    PROVE  wrun' \in [Chats -> RunRecord]
<1>1. ASSUME NEW q \in Chats
      PROVE  [wrun[q] EXCEPT !.stage = IF @ = "none" THEN @ ELSE "stopping"]
                 \in RunRecord
  <2>1. wrun[q] \in RunRecord
        BY DEF Types
  <2> QED BY <2>1, RunUpdates, Zenon
<1> QED BY <1>1 DEF W!StopRun, Types

\* What Look changes of it keeps its type.
LookTyped ==
    /\ wchain' \in [Chains -> ChainRecord]
    /\ wtimer' \in [Timers -> TimerRecord]
    /\ wclaimed' \in [Chats -> Timers \cup {NoId}]
    /\ wrun' \in [Chats -> RunRecord]

LEMMA TypeNext == Types /\ [W!Next]_(W!vars) => Types'
<1> SUFFICES ASSUME Types, [W!Next]_(W!vars) PROVE Types'
    OBVIOUS
<1> USE DEF W!Notify
<1>fault. W!Fault => wfaults' \in 0..MaxFaults
      BY Constants DEF W!Fault, Types
<1>1. CASE UNCHANGED W!vars
      BY <1>1 DEF W!vars, Types
<1>2. CASE W!Look
  <2>0. (IF wguarded THEN {} ELSE W!Eligible) \subseteq Timers /\ W!Eligible \subseteq Timers /\ W!Due \subseteq Timers
        BY DEF W!Eligible, W!Due, W!Pending
  <2>1. wserve' \in [waits : BOOLEAN, for : SUBSET Timers]
    <3>1. CASE wserve' = [waits |-> TRUE, for |-> IF wguarded THEN {} ELSE W!Eligible]
          BY <3>1, <2>0
    <3>2. ASSUME NEW t, wserve' = [waits |-> TRUE, for |-> W!Eligible \ {t}]
          PROVE  wserve' \in [waits : BOOLEAN, for : SUBSET Timers]
          BY <3>2, <2>0
    <3>3. ASSUME NEW r, wserve' = [waits |-> TRUE,
                     for |-> {u \in W!Eligible : W!RootOf(u) # r /\ W!Cardinality(W!Occupied) + 1 < MaxParallel}]
          PROVE  wserve' \in [waits : BOOLEAN, for : SUBSET Timers]
          BY <3>3, <2>0
    <3> QED BY <1>2, <3>1, <3>2, <3>3, Zenon DEF W!Look
  <2>2. LookTyped
    <3>1. CASE UNCHANGED <<wchain, wtimer, wclaimed, wrun>>
          BY <3>1 DEF Types, LookTyped
    <3>2. ASSUME NEW t \in W!Due, NEW c, c = wtimer[t].chain, NEW r, r = W!RootOf(t),
                 wtimer' = [wtimer EXCEPT ![t].status = "claimed"],
                 wchain' = [wchain EXCEPT ![c].activations = @ + 1],
                 wclaimed' = [wclaimed EXCEPT ![r] = t],
                 wrun' = [wrun EXCEPT ![r] = [stage |-> "created", chain |-> c, timer |-> t]]
          PROVE LookTyped
      <4>1. \A d \in Chains : [wchain[d] EXCEPT !.activations = @ + 1]
                \in ChainRecord
        <5>1. \A d \in Chains : wchain[d] \in ChainRecord
              BY DEF Types
        <5> QED BY <5>1, ChainUpdates, Zenon
      <4>2. wchain' \in [Chains -> ChainRecord]
            BY <3>2, <4>1 DEF Types
      <4>3. [wtimer[t] EXCEPT !.status = "claimed"] \in TimerRecord
        <5>1. wtimer[t] \in TimerRecord
              BY <2>0 DEF Types
        <5> QED BY <5>1, TimerUpdates, Zenon
      <4>4. wtimer' \in [Timers -> TimerRecord]
            BY <3>2, <4>3 DEF Types
      <4>5. t \in Timers /\ c \in Chains \cup {NoId}
            BY <2>0, <3>2 DEF Types, TimerRecord
      <4>6. [stage |-> "created", chain |-> c, timer |-> t] \in RunRecord
            BY <4>5 DEF RunRecord
      <4>7. wclaimed' \in [Chats -> Timers \cup {NoId}]
            BY <3>2, <4>5 DEF Types
      <4>8. wrun' \in [Chats -> RunRecord]
            BY <3>2, <4>6 DEF Types
      <4> QED BY <4>2, <4>4, <4>7, <4>8 DEF LookTyped
    <3>3. ASSUME NEW t \in W!Due, wtimer' = [wtimer EXCEPT ![t].status = "failed"],
                 UNCHANGED <<wchain, wclaimed, wrun>>
          PROVE LookTyped
      <4>1. [wtimer[t] EXCEPT !.status = "failed"] \in TimerRecord
        <5>1. wtimer[t] \in TimerRecord
              BY <2>0 DEF Types
        <5> QED BY <5>1, TimerUpdates, Zenon
      <4>2. wtimer' \in [Timers -> TimerRecord]
            BY <3>3, <4>1 DEF Types
      <4> QED BY <3>3, <4>2 DEF Types, LookTyped
    <3> QED BY <1>2, <3>1, <3>2, <3>3 DEF W!Look
  <2> QED BY <1>2, <2>1, <2>2 DEF W!Look, Types, LookTyped
<1>3. CASE W!Wake
      BY <1>3 DEF W!Wake, Types
<1>4. ASSUME NEW t \in Timers, W!BecomesDue(t) PROVE Types'
  <2>1. [wtimer[t] EXCEPT !.due = TRUE] \in TimerRecord
    <3>1. wtimer[t] \in TimerRecord
          BY DEF Types
    <3> QED BY <3>1, TimerUpdates, Zenon
  <2>2. wtimer' \in [Timers -> TimerRecord]
        BY <1>4, <2>1 DEF Types, W!BecomesDue
  <2> QED BY <1>4, <2>2 DEF W!BecomesDue, Types
<1>5. CASE W!Shutdown
      BY <1>5, RevokeTyped DEF W!Shutdown, Types
<1>6. ASSUME NEW r \in Chats, NEW c \in Chains, W!HumanStarts(r, c) PROVE Types'
  <2>1. [wchain[c] EXCEPT !.root = r] \in ChainRecord
    <3>1. wchain[c] \in ChainRecord
          BY DEF Types
    <3> QED BY <3>1, ChainUpdates, Zenon
  <2>2. wchain' \in [Chains -> ChainRecord]
        BY <1>6, <2>1 DEF Types, W!HumanStarts
  <2>3. [stage |-> "running", chain |-> c, timer |-> NoId] \in RunRecord
        BY DEF RunRecord
  <2>4. wrun' \in [Chats -> RunRecord]
        BY <1>6, <2>3 DEF Types, W!HumanStarts
  <2> QED BY <1>6, <2>2, <2>4 DEF W!HumanStarts, Types
<1>7. ASSUME NEW r \in Chats, W!WakeRuns(r) PROVE Types'
  <2>1. [wrun[r] EXCEPT !.stage = "running"] \in RunRecord
    <3>1. wrun[r] \in RunRecord
          BY DEF Types
    <3> QED BY <3>1, RunUpdates, Zenon
  <2>2. wrun' \in [Chats -> RunRecord]
        BY <1>7, <2>1 DEF Types, W!WakeRuns
  <2> QED BY <1>7, <2>2 DEF W!WakeRuns, Types
<1>8. ASSUME NEW r \in Chats, W!RunEnds(r) PROVE Types'
  <2>1. wrun' \in [Chats -> RunRecord]
        BY <1>8, NoRunIs DEF Types, W!RunEnds, RunRecord
  <2> QED BY <1>8, <2>1 DEF W!RunEnds, Types
<1>9. ASSUME NEW r \in Chats, W!LaneFrees(r) PROVE Types'
      BY <1>9 DEF W!LaneFrees, W!Notify, Types
<1>10. ASSUME NEW r \in Chats, W!ClaimEnds(r) PROVE Types'
      BY <1>10 DEF W!ClaimEnds, Types
<1>11. ASSUME NEW r \in Chats, W!Stop(r) PROVE Types'
      BY <1>11, <1>fault, RevokeTyped, StopTyped DEF W!Stop, Types
<1>12. ASSUME NEW r \in Chats, W!CloseStops(r) PROVE Types'
      BY <1>12, RevokeTyped, StopTyped DEF W!CloseStops, Types
<1>13. CASE W!BeginMutation
      BY <1>13, <1>fault DEF W!BeginMutation, Types
<1>14. CASE W!ReleaseRoot
      BY <1>14, RevokeTyped, StopTyped DEF W!ReleaseRoot, Types
<1>15. CASE W!EndMutation
      BY <1>15 DEF W!EndMutation, Types
<1>16. ASSUME NEW r \in Chats, NEW t \in Timers, W!Schedule(r, t) PROVE Types'
  <2>1. [status |-> "pending", chain |-> wrun[r].chain, due |-> FALSE] \in TimerRecord
        BY DEF Types, TimerRecord, RunRecord
  <2>2. wtimer' \in [Timers -> TimerRecord]
        BY <1>16, <2>1 DEF Types, W!Schedule
  <2> QED BY <1>16, <2>2 DEF W!Schedule, Types
<1> QED BY <1>1, <1>2, <1>3, <1>4, <1>5, <1>6, <1>7, <1>8, <1>9, <1>10, <1>11, <1>12, <1>13, <1>14, <1>15, <1>16
        DEF W!Next, W!ServeStep, W!MutationStep, W!RunStep

-----------------------------------------------------------------------------
(* Steps that start nothing *)

\* No chain or timer is new, claimed or free again.
TimersKept ==
    /\ \A c \in Chains : wchain'[c].root = wchain[c].root /\ wchain'[c].activations = wchain[c].activations
    /\ \A t \in Timers :
          /\ wtimer'[t].chain = wtimer[t].chain
          /\ wtimer[t].status = "free" => wtimer'[t].status = "free"
          /\ wtimer'[t].status = "claimed" <=> wtimer[t].status = "claimed"
          /\ wtimer'[t].status # "free" => wtimer[t].status # "free"
          /\ wtimer'[t].status = "pending" => wtimer[t].status = "pending"

\* A run stays, goes on in another stage, or is over.
RunsKept == \A r \in Chats :
    \/ wrun'[r] = wrun[r]
    \/ wrun'[r] = W!NoRun
    \/ /\ wrun[r].stage # "none" /\ wrun'[r].stage # "none"
       /\ wrun'[r].chain = wrun[r].chain /\ wrun'[r].timer = wrun[r].timer

Quiet ==
    /\ TimersKept /\ (CancelledAreDone => CancelledAreDone')
    /\ RunsKept /\ wlanes' \subseteq wlanes
    /\ \A r \in Chats : wrun[r].timer = wclaimed[r] => wclaimed'[r] = wclaimed[r]

LEMMA PendingIs == W!Pending = {t \in Timers : wtimer[t].status = "pending"}
BY DEF W!Pending

LEMMA OccupiedIs == W!Occupied = {r \in Chats : wrun[r] # W!NoRun} \cup wlanes
BY DEF W!Occupied, W!Running

\* What counts is finite.
LEMMA Finite ==
    Types => IsFiniteSet(W!Pending) /\ IsFiniteSet(W!Occupied) /\ \A c \in Chains : IsFiniteSet(ClaimedOf(c))
<1> SUFFICES ASSUME Types
             PROVE  IsFiniteSet(W!Pending) /\ IsFiniteSet(W!Occupied) /\ \A c \in Chains : IsFiniteSet(ClaimedOf(c))
    OBVIOUS
<1>1. W!Pending \subseteq Timers /\ \A c \in Chains : ClaimedOf(c) \subseteq Timers
      BY DEF W!Pending, ClaimedOf
<1>2. W!Occupied \subseteq Chats
      BY OccupiedIs DEF Types
<1> QED BY <1>1, <1>2, Constants, FS_Subset

LEMMA QuietTimers ==
    ASSUME Types, TimersAreOwned, Budget, FewPending, Types', TimersKept
    PROVE  TimersAreOwned' /\ Budget' /\ FewPending'
<1>1. TimersAreOwned'
      BY DEF TimersAreOwned, TimersKept, Types, TimerRecord
<1>2. \A c \in Chains : ClaimedOf(c)' = ClaimedOf(c)
      BY DEF ClaimedOf, TimersKept
<1>3. Budget'
      BY <1>2 DEF Budget, TimersKept
<1>4. W!Pending' \subseteq W!Pending
      BY DEF W!Pending, TimersKept
<1>5. Cardinality(W!Pending') <= MaxPending
      BY <1>4, Finite, NoMore, Constants DEF FewPending
<1> QED BY <1>1, <1>3, <1>5 DEF FewPending

LEMMA QuietRuns ==
    ASSUME Types, RunsAreOwned, FewRuns, ClaimIsOwn, Types', Quiet
    PROVE  RunsAreOwned' /\ FewRuns' /\ ClaimIsOwn'
<1>1. ASSUME NEW r \in Chats
      PROVE  /\ wrun'[r].stage = "none" => wrun'[r] = W!NoRun
             /\ wrun'[r].stage # "none" => wrun'[r].chain \in Chains /\ wchain'[wrun'[r].chain].root = r
      BY NoRunIs DEF RunsAreOwned, Quiet, RunsKept, TimersKept
<1>2. RunsAreOwned'
      BY <1>1, NoRunIs DEF RunsAreOwned, W!NoRun
<1>3. ASSUME NEW r \in Chats, wrun[r] = W!NoRun PROVE wrun'[r] = W!NoRun
      BY <1>3, NoRunIs DEF Quiet, RunsKept
<1>4. W!NoRun' = W!NoRun
      BY DEF W!NoRun
<1>5. W!Occupied' \subseteq W!Occupied
      BY <1>3, <1>4 DEF W!Occupied, W!Running, Quiet
<1>6. Cardinality(W!Occupied') <= MaxParallel
      BY <1>5, Finite, NoMore, Constants DEF FewRuns
<1>7. ASSUME NEW r \in Chats, wrun'[r].timer # NoId
      PROVE  wclaimed'[r] = wrun'[r].timer /\ r \notin wlanes'
  <2>1. wrun'[r].timer = wrun[r].timer
        BY <1>7, NoRunIs DEF Quiet, RunsKept
  <2>2. wclaimed[r] = wrun[r].timer /\ r \notin wlanes
        BY <1>7, <2>1 DEF ClaimIsOwn
  <2> QED BY <2>1, <2>2 DEF Quiet
<1> QED BY <1>2, <1>6, <1>7 DEF FewRuns, ClaimIsOwn

LEMMA QuietKeeps == WInv /\ Types' /\ Quiet => WInv'
BY QuietTimers, QuietRuns DEF WInv, Owned, Quiet

\* Cancelling chains starts nothing, and leaves none of their timers.
LEMMA RevokeIsQuiet ==
    ASSUME Types, NEW revoked, W!Revoke(revoked)
    PROVE  TimersKept /\ (CancelledAreDone => CancelledAreDone')
<1>1. \A c \in Chains : wchain'[c] = [wchain[c] EXCEPT !.cancelled = @ \/ c \in revoked]
      BY DEF W!Revoke
<1>2. \A c \in Chains : /\ wchain'[c].root = wchain[c].root /\ wchain'[c].activations = wchain[c].activations
                        /\ wchain'[c].cancelled => wchain[c].cancelled \/ c \in revoked
  <2>1. \A c \in Chains : wchain[c] \in ChainRecord
        BY DEF Types
  <2> QED BY <1>1, <2>1 DEF ChainRecord
<1>3. \A t \in Timers : wtimer'[t] = IF t \in W!Pending /\ wtimer[t].chain \in revoked
                                     THEN [wtimer[t] EXCEPT !.status = "cancelled"] ELSE wtimer[t]
      BY DEF W!Revoke
<1>4. \A t \in Timers : /\ wtimer'[t].chain = wtimer[t].chain
                        /\ wtimer'[t].status = IF wtimer[t].status = "pending" /\ wtimer[t].chain \in revoked
                                               THEN "cancelled" ELSE wtimer[t].status
  <2>1. \A t \in Timers : wtimer[t] \in TimerRecord
        BY DEF Types
  <2> QED BY <1>3, <2>1 DEF TimerRecord, W!Pending
<1>5. TimersKept
      BY <1>2, <1>4 DEF TimersKept
<1>6. CancelledAreDone => CancelledAreDone'
      BY <1>2, <1>4 DEF CancelledAreDone, W!Pending
<1> QED BY <1>5, <1>6

\* Neither does a step that leaves the chains and what the timers are of.
LEMMA SameIsQuiet ==
    ASSUME wchain' = wchain,
           \A t \in Timers : /\ wtimer'[t].chain = wtimer[t].chain
                             /\ wtimer'[t].status = wtimer[t].status
    PROVE  TimersKept /\ (CancelledAreDone => CancelledAreDone')
BY DEF TimersKept, CancelledAreDone, W!Pending

LEMMA StopIsQuiet ==
    ASSUME Types, NEW r, W!StopRun(r)
    PROVE  RunsKept
<1> SUFFICES ASSUME NEW q \in Chats
             PROVE  \/ wrun'[q] = wrun[q]
                    \/ wrun[q].stage # "none" /\ wrun'[q].stage # "none"
                       /\ wrun'[q].chain = wrun[q].chain /\ wrun'[q].timer = wrun[q].timer
    BY DEF RunsKept
<1>1. wrun[q] \in RunRecord
      BY DEF Types
<1>2. CASE q # r
      BY <1>2 DEF W!StopRun, Types
<1>3. CASE q = r
  <2>1. wrun'[q] = [wrun[q] EXCEPT !.stage = IF @ = "none" THEN @ ELSE "stopping"]
        BY <1>3 DEF W!StopRun, Types
  <2> QED BY <1>1, <2>1 DEF RunRecord
<1> QED BY <1>2, <1>3

LEMMA SameRuns ==
    ASSUME wrun' = wrun PROVE RunsKept
BY DEF RunsKept

-----------------------------------------------------------------------------
(* Steps that start something *)

\* A timer is scheduled: it was free, and the chain it joins is not cancelled.
LEMMA ScheduleKeeps ==
    ASSUME WInv, Types', NEW r \in Chats, NEW t \in Timers, W!Schedule(r, t)
    PROVE  WInv'
<1> DEFINE c == wrun[r].chain
<1>0. /\ wrun[r].stage = "running" /\ wtimer[t].status = "free" /\ ~wchain[c].cancelled
      /\ Cardinality(W!Pending) < MaxPending
      /\ UNCHANGED <<wchain, wclaimed, wrun, wlanes>>
      BY SameCardinality DEF W!Schedule
<1>1. c \in Chains /\ wchain[c].root = r
      BY <1>0 DEF WInv, Owned, RunsAreOwned
<1> HIDE DEF c
<1>2. /\ wtimer'[t] = [status |-> "pending", chain |-> c, due |-> FALSE]
      /\ \A u \in Timers \ {t} : wtimer'[u] = wtimer[u]
      BY DEF W!Schedule, WInv, Owned, Types, c
<1>3. TimersAreOwned'
      BY <1>0, <1>1, <1>2 DEF TimersAreOwned, WInv, Owned
<1>4. RunsAreOwned' /\ ClaimIsOwn'
      BY <1>0 DEF RunsAreOwned, ClaimIsOwn, WInv, Owned, W!NoRun
<1>5. \A d \in Chains : ClaimedOf(d)' = ClaimedOf(d)
      BY <1>0, <1>2 DEF ClaimedOf
<1>6. Budget'
      BY <1>0, <1>5 DEF Budget, WInv
<1>7. CancelledAreDone'
  <2>1. \A u \in Timers \ {t} : wtimer'[u].status = "pending" => u \in W!Pending /\ wtimer'[u].chain = wtimer[u].chain
        BY <1>2 DEF W!Pending
  <2>2. wtimer'[t].chain = c
        BY <1>2
  <2> QED BY <1>0, <2>1, <2>2 DEF CancelledAreDone, WInv, W!Pending
<1>8. W!Pending' = W!Pending \cup {t}
      BY <1>2 DEF W!Pending
<1>9. FewPending'
      BY <1>0, <1>8, Finite, OneMore, Constants DEF FewPending, WInv, Owned
<1>10. W!Occupied' = W!Occupied
      BY <1>0 DEF W!Occupied, W!Running, W!NoRun
<1>11. FewRuns'
      BY <1>10 DEF FewRuns, WInv
<1> QED BY <1>3, <1>4, <1>6, <1>7, <1>9, <1>11 DEF WInv, Owned

\* A human run takes a free slot, with a chain nothing belongs to yet.
LEMMA HumanKeeps ==
    ASSUME WInv, Types', NEW r \in Chats, NEW c \in Chains, W!HumanStarts(r, c)
    PROVE  WInv'
<1>0. /\ r \notin W!Occupied /\ Cardinality(W!Occupied) < MaxParallel /\ wchain[c].root = NoId
      /\ UNCHANGED <<wtimer, wclaimed>> /\ wlanes' = wlanes \cup {r}
      BY SameCardinality DEF W!HumanStarts, W!Available
<1>1. /\ wrun'[r] = [stage |-> "running", chain |-> c, timer |-> NoId]
      /\ \A q \in Chats \ {r} : wrun'[q] = wrun[q]
      BY DEF W!HumanStarts, WInv, Owned, Types
<1>2. /\ wchain'[c].root = r
      /\ \A d \in Chains : /\ wchain'[d].activations = wchain[d].activations
                           /\ wchain'[d].cancelled = wchain[d].cancelled
                           /\ d # c => wchain'[d].root = wchain[d].root
  <2>1. \A d \in Chains : wchain[d] \in ChainRecord
        BY DEF WInv, Owned, Types
  <2>2. wchain'[c] = [wchain[c] EXCEPT !.root = r] /\ \A d \in Chains \ {c} : wchain'[d] = wchain[d]
        BY DEF W!HumanStarts, WInv, Owned, Types
  <2> QED BY <2>1, <2>2 DEF ChainRecord
<1>3. TimersAreOwned'
      BY <1>0, <1>2, Constants DEF TimersAreOwned, WInv, Owned
<1>4. \A q \in Chats : /\ wrun'[q].stage = "none" => wrun'[q] = W!NoRun
                       /\ wrun'[q].stage # "none" => wrun'[q].chain \in Chains /\ wchain'[wrun'[q].chain].root = q
      BY <1>0, <1>1, <1>2, Constants DEF RunsAreOwned, WInv, Owned
<1>5. RunsAreOwned'
      BY <1>4 DEF RunsAreOwned, W!NoRun
<1>6. \A d \in Chains : ClaimedOf(d)' = ClaimedOf(d)
      BY <1>0 DEF ClaimedOf
<1>7. Budget'
      BY <1>2, <1>6 DEF Budget, WInv
<1>8. CancelledAreDone' /\ FewPending'
      BY <1>0, <1>2 DEF CancelledAreDone, FewPending, WInv, W!Pending
<1>9. W!Occupied' \subseteq W!Occupied \cup {r}
      BY <1>0, <1>1 DEF W!Occupied, W!Running, W!NoRun
<1>10. IsFiniteSet(W!Occupied \cup {r}) /\ Cardinality(W!Occupied \cup {r}) <= MaxParallel
      BY <1>0, Finite, OneMore, FS_AddElement, Constants DEF WInv, Owned
<1>11. FewRuns'
      BY <1>9, <1>10, NoMore, Constants DEF FewRuns
<1>12. ClaimIsOwn'
      BY <1>0, <1>1 DEF ClaimIsOwn, WInv
<1> QED BY <1>3, <1>5, <1>7, <1>8, <1>11, <1>12 DEF WInv, Owned

\* A timer that is due is claimed with its root, within its chain's budget.
Claims(t, c, r) ==
    /\ t \in W!Due /\ c = wtimer[t].chain /\ r = W!RootOf(t)
    /\ wchain[c].activations < MaxActivations
    /\ wtimer' = [wtimer EXCEPT ![t].status = "claimed"]
    /\ wchain' = [wchain EXCEPT ![c].activations = @ + 1]
    /\ wclaimed' = [wclaimed EXCEPT ![r] = t]
    /\ wrun' = [wrun EXCEPT ![r] = [stage |-> "created", chain |-> c, timer |-> t]]

LEMMA ClaimKeeps ==
    ASSUME WInv, Types', NEW t, NEW c, NEW r, Claims(t, c, r), wlanes' = wlanes
    PROVE  WInv'
<1>0. /\ t \in Timers /\ wtimer[t].status = "pending" /\ wclaimed[r] = NoId
      /\ r \notin W!Occupied /\ Cardinality(W!Occupied) < MaxParallel
      BY SameCardinality DEF Claims, W!Due, W!Eligible, W!Available, W!Pending
<1>1. c \in Chains /\ r \in Chats /\ wchain[c].root = r
      BY <1>0 DEF Claims, W!RootOf, WInv, Owned, TimersAreOwned
<1>2. /\ wtimer'[t].status = "claimed" /\ wtimer'[t].chain = c
      /\ \A u \in Timers \ {t} : wtimer'[u] = wtimer[u]
  <2>1. wtimer[t] \in TimerRecord
        BY <1>0 DEF WInv, Owned, Types
  <2>2. wtimer'[t] = [wtimer[t] EXCEPT !.status = "claimed"] /\ \A u \in Timers \ {t} : wtimer'[u] = wtimer[u]
        BY <1>0 DEF Claims, WInv, Owned, Types
  <2> QED BY <2>1, <2>2 DEF TimerRecord, Claims
<1>3. /\ wchain'[c].activations = wchain[c].activations + 1
      /\ \A d \in Chains : /\ wchain'[d].root = wchain[d].root /\ wchain'[d].cancelled = wchain[d].cancelled
                           /\ d # c => wchain'[d].activations = wchain[d].activations
  <2>1. \A d \in Chains : wchain[d] \in ChainRecord
        BY DEF WInv, Owned, Types
  <2>2. wchain'[c] = [wchain[c] EXCEPT !.activations = @ + 1] /\ \A d \in Chains \ {c} : wchain'[d] = wchain[d]
        BY <1>1 DEF Claims, WInv, Owned, Types
  <2> QED BY <1>1, <2>1, <2>2 DEF ChainRecord
<1>4. /\ wrun'[r] = [stage |-> "created", chain |-> c, timer |-> t]
      /\ \A q \in Chats \ {r} : wrun'[q] = wrun[q]
      BY <1>1 DEF Claims, WInv, Owned, Types
<1>5. wclaimed'[r] = t /\ \A q \in Chats \ {r} : wclaimed'[q] = wclaimed[q]
      BY <1>1 DEF Claims, WInv, Owned, Types
<1>6. TimersAreOwned'
      BY <1>0, <1>1, <1>2, <1>3 DEF TimersAreOwned, WInv, Owned
<1>7. \A q \in Chats : /\ wrun'[q].stage = "none" => wrun'[q] = W!NoRun
                       /\ wrun'[q].stage # "none" => wrun'[q].chain \in Chains /\ wchain'[wrun'[q].chain].root = q
      BY <1>1, <1>3, <1>4 DEF RunsAreOwned, WInv, Owned
<1>8. RunsAreOwned'
      BY <1>7 DEF RunsAreOwned, W!NoRun
<1>9. /\ ClaimedOf(c)' = ClaimedOf(c) \cup {t} /\ t \notin ClaimedOf(c)
      /\ \A d \in Chains \ {c} : ClaimedOf(d)' = ClaimedOf(d)
      BY <1>0, <1>1, <1>2 DEF ClaimedOf, Claims
<1>10. Cardinality(ClaimedOf(c)') = Cardinality(ClaimedOf(c)) + 1
      BY <1>1, <1>9, Finite, FS_AddElement DEF WInv, Owned
<1>11. wchain'[c].activations <= MaxActivations
  <2>1. wchain[c].activations \in Nat
        BY <1>1 DEF WInv, Owned, Types, ChainRecord
  <2>2. wchain[c].activations < MaxActivations
        BY DEF Claims
  <2> QED BY <1>3, <2>1, <2>2, Constants
<1>12. wchain'[c].activations = Cardinality(ClaimedOf(c)')
      BY <1>1, <1>3, <1>10 DEF Budget, WInv
<1>13. Budget'
  <2> SUFFICES ASSUME NEW d \in Chains
               PROVE  wchain'[d].activations <= MaxActivations /\ wchain'[d].activations = Cardinality(ClaimedOf(d)')
      BY DEF Budget
  <2>1. CASE d = c
        BY <2>1, <1>11, <1>12
  <2>2. CASE d # c
        BY <2>2, <1>3, <1>9 DEF Budget, WInv
  <2> QED BY <2>1, <2>2
<1>14. W!Pending' \subseteq W!Pending
      BY <1>2 DEF W!Pending
<1>15. CancelledAreDone'
  <2>1. \A u \in W!Pending' : u \in W!Pending /\ wtimer'[u].chain = wtimer[u].chain
        BY <1>2, <1>14 DEF W!Pending
  <2> QED BY <1>3, <2>1 DEF CancelledAreDone, WInv
<1>16. FewPending'
      BY <1>14, Finite, NoMore, Constants DEF FewPending, WInv, Owned
<1>17. W!Occupied' \subseteq W!Occupied \cup {r}
      BY <1>4 DEF W!Occupied, W!Running, W!NoRun
<1>18. IsFiniteSet(W!Occupied \cup {r}) /\ Cardinality(W!Occupied \cup {r}) <= MaxParallel
      BY <1>0, Finite, OneMore, FS_AddElement, Constants DEF WInv, Owned
<1>19. FewRuns'
      BY <1>17, <1>18, NoMore, Constants DEF FewRuns
<1>20. r \notin wlanes
      BY <1>0 DEF W!Occupied
<1>21. ClaimIsOwn'
      BY <1>4, <1>5, <1>20 DEF ClaimIsOwn, WInv
<1> QED BY <1>6, <1>8, <1>13, <1>15, <1>16, <1>19, <1>21 DEF WInv, Owned

-----------------------------------------------------------------------------
(* Every step *)

LEMMA WInvNext == WInv /\ [W!Next]_(W!vars) => WInv'
<1> SUFFICES ASSUME WInv, [W!Next]_(W!vars) PROVE WInv'
    OBVIOUS
<1>types. Types /\ Types'
      BY TypeNext DEF WInv, Owned
<1>quiet. Quiet => WInv'
      BY <1>types, QuietKeeps
<1>1. CASE UNCHANGED W!vars
      BY <1>1, <1>quiet, SameIsQuiet, SameRuns DEF W!vars, Quiet
<1>2. CASE W!Look
  <2>1. CASE UNCHANGED <<wchain, wtimer, wclaimed, wrun>>
        BY <1>2, <2>1, <1>quiet, SameIsQuiet, SameRuns DEF Quiet, W!Look
  <2>2. ASSUME NEW t \in W!Due, Claims(t, wtimer[t].chain, W!RootOf(t))
        PROVE  WInv'
        BY <1>2, <2>2, <1>types, ClaimKeeps DEF W!Look
  <2>3. ASSUME NEW t \in W!Due, wtimer' = [wtimer EXCEPT ![t].status = "failed"],
               UNCHANGED <<wchain, wclaimed, wrun>>
        PROVE  WInv'
    <3>1. t \in Timers /\ wtimer[t].status = "pending" /\ wtimer[t] \in TimerRecord
          BY <1>types DEF W!Due, W!Eligible, W!Pending, Types
    <3>2. wtimer'[t] = [wtimer[t] EXCEPT !.status = "failed"] /\ \A u \in Timers \ {t} : wtimer'[u] = wtimer[u]
          BY <2>3, <3>1, <1>types DEF Types
    <3>3. wtimer'[t].status = "failed" /\ wtimer'[t].chain = wtimer[t].chain
          BY <3>1, <3>2 DEF TimerRecord
    <3>4. TimersKept
          BY <2>3, <3>1, <3>2, <3>3 DEF TimersKept
    <3>5. CancelledAreDone => CancelledAreDone'
          BY <2>3, <3>1, <3>2, <3>3 DEF CancelledAreDone, W!Pending
    <3> QED BY <1>2, <2>3, <3>4, <3>5, <1>quiet, SameRuns DEF Quiet, W!Look
  <2> QED BY <1>2, <2>1, <2>2, <2>3, Zenon DEF W!Look, W!WithinBudget, Claims
<1>3. CASE W!Wake
      BY <1>3, <1>quiet, SameIsQuiet, SameRuns DEF Quiet, W!Wake
<1>4. ASSUME NEW t \in Timers, W!BecomesDue(t) PROVE WInv'
  <2>1. \A u \in Timers : wtimer'[u].chain = wtimer[u].chain /\ wtimer'[u].status = wtimer[u].status
    <3>1. wtimer'[t] = [wtimer[t] EXCEPT !.due = TRUE] /\ \A u \in Timers \ {t} : wtimer'[u] = wtimer[u]
          BY <1>4, <1>types DEF Types, W!BecomesDue
    <3>2. wtimer[t] \in TimerRecord
          BY <1>types DEF Types
    <3> QED BY <3>1, <3>2 DEF TimerRecord
  <2> QED BY <1>4, <2>1, <1>quiet, SameIsQuiet, SameRuns DEF Quiet, W!BecomesDue
<1>5. CASE W!Shutdown
      BY <1>5, <1>types, <1>quiet, RevokeIsQuiet, SameRuns DEF Quiet, W!Shutdown
<1>6. ASSUME NEW r \in Chats, NEW c \in Chains, W!HumanStarts(r, c) PROVE WInv'
      BY <1>6, <1>types, HumanKeeps
<1>7. ASSUME NEW r \in Chats, W!WakeRuns(r) PROVE WInv'
  <2>1. wrun[r] \in RunRecord /\ wrun'[r] = [wrun[r] EXCEPT !.stage = "running"]
        /\ \A q \in Chats \ {r} : wrun'[q] = wrun[q]
        BY <1>7, <1>types DEF Types, W!WakeRuns
  <2>2. wrun[r].stage = "created" /\ wrun'[r].stage = "running" /\ wrun'[r].chain = wrun[r].chain /\ wrun'[r].timer = wrun[r].timer
        BY <1>7, <2>1 DEF RunRecord, W!WakeRuns
  <2>3. RunsKept
        BY <2>1, <2>2 DEF RunsKept
  <2> QED BY <1>7, <2>3, <1>quiet, SameIsQuiet DEF Quiet, W!WakeRuns
<1>8. ASSUME NEW r \in Chats, W!RunEnds(r) PROVE WInv'
  <2>1. RunsKept
        BY <1>8, <1>types DEF RunsKept, W!RunEnds, Types
  <2> QED BY <1>8, <2>1, <1>quiet, SameIsQuiet DEF Quiet, W!RunEnds
<1>9. ASSUME NEW r \in Chats, W!LaneFrees(r) PROVE WInv'
      BY <1>9, <1>quiet, SameIsQuiet, SameRuns DEF Quiet, W!LaneFrees
<1>10. ASSUME NEW r \in Chats, W!ClaimEnds(r) PROVE WInv'
  <2>1. \A q \in Chats : wrun[q].timer = wclaimed[q] => wclaimed'[q] = wclaimed[q]
        BY <1>10, <1>types DEF Types, W!ClaimEnds
  <2> QED BY <1>10, <2>1, <1>quiet, SameIsQuiet, SameRuns DEF Quiet, W!ClaimEnds
<1>11. ASSUME NEW r \in Chats, W!Stop(r) PROVE WInv'
      BY <1>11, <1>types, <1>quiet, RevokeIsQuiet, StopIsQuiet DEF Quiet, W!Stop
<1>12. ASSUME NEW r \in Chats, W!CloseStops(r) PROVE WInv'
      BY <1>12, <1>types, <1>quiet, RevokeIsQuiet, StopIsQuiet DEF Quiet, W!CloseStops
<1>13. CASE W!BeginMutation
      BY <1>13, <1>quiet, SameIsQuiet, SameRuns DEF Quiet, W!BeginMutation
<1>14. CASE W!ReleaseRoot
      BY <1>14, <1>types, <1>quiet, RevokeIsQuiet, StopIsQuiet DEF Quiet, W!ReleaseRoot
<1>15. CASE W!EndMutation
      BY <1>15, <1>quiet, SameIsQuiet, SameRuns DEF Quiet, W!EndMutation
<1>16. ASSUME NEW r \in Chats, NEW t \in Timers, W!Schedule(r, t) PROVE WInv'
      BY <1>16, <1>types, ScheduleKeeps
<1> QED BY <1>1, <1>2, <1>3, <1>4, <1>5, <1>6, <1>7, <1>8, <1>9, <1>10, <1>11, <1>12, <1>13, <1>14, <1>15, <1>16
        DEF W!Next, W!ServeStep, W!MutationStep, W!RunStep

LEMMA WInvInit == W!Init => WInv
<1> SUFFICES ASSUME W!Init PROVE WInv
    OBVIOUS
<1>1. Types
  <2>1. wchain \in [Chains -> ChainRecord]
        BY DEF W!Init, ChainRecord
  <2>2. wtimer \in [Timers -> TimerRecord]
        BY DEF W!Init, TimerRecord
  <2>3. wrun \in [Chats -> RunRecord]
        BY DEF W!Init, W!NoRun, RunRecord
  <2>4. wserve \in [waits : BOOLEAN, for : SUBSET Timers]
        BY DEF W!Init
  <2>5. wclaimed \in [Chats -> Timers \cup {NoId}]
        BY DEF W!Init
  <2>6. wfaults = 0 /\ 0 \in 0..MaxFaults
        BY Constants DEF W!Init
  <2>7. wlanes = {} /\ wmutating = NoId /\ wguarded = FALSE /\ wchanged = FALSE /\ wclosed = FALSE
        BY Zenon DEF W!Init
  <2> QED BY <2>1, <2>2, <2>3, <2>4, <2>5, <2>6, <2>7 DEF Types
<1>2. RunsAreOwned /\ TimersAreOwned
      BY DEF W!Init, W!NoRun, RunsAreOwned, TimersAreOwned
<1>3. W!Pending = {} /\ W!Occupied = {} /\ \A c \in Chains : ClaimedOf(c) = {}
      BY DEF W!Init, W!Pending, W!Occupied, W!Running, ClaimedOf
<1>4. Cardinality(W!Pending) = 0 /\ Cardinality(W!Occupied) = 0 /\ \A c \in Chains : Cardinality(ClaimedOf(c)) = 0
      BY <1>3, FS_EmptySet, Zenon
<1>5. \A c \in Chains : wchain[c].activations = 0
      BY DEF W!Init
<1>6. Budget
  <2>1. 0 <= MaxActivations
        BY Constants
  <2> QED BY <1>4, <1>5, <2>1, Zenon DEF Budget
<1>7. FewPending /\ FewRuns
      BY <1>4, Constants DEF FewPending, FewRuns
<1>8. CancelledAreDone /\ ClaimIsOwn
      BY DEF W!Init, W!NoRun, W!Pending, CancelledAreDone, ClaimIsOwn
<1> QED BY <1>1, <1>2, <1>6, <1>7, <1>8 DEF WInv, Owned

LEMMA WInvBounds == WInv => ChainsAreBounded
BY SameCardinality DEF WInv, Owned, Budget, CancelledAreDone, FewPending, FewRuns, ClaimIsOwn, ClaimedOf,
    ChainsAreBounded, W!ChainsAreBounded

\* A chain of wakeups never starts more runs than its budget, a cancelled one
\* has no timer left that could fire, no more timers wait and no more chats run
\* than there may be, and a timer that runs is the one claimed for its chat:
\* whatever the timers, the runs and the removals of chats do.
THEOREM ChainsKeepTheirBudget == W!Spec => []ChainsAreBounded
<1>1. W!Init => WInv
      BY WInvInit
<1>2. WInv /\ [W!Next]_(W!vars) => WInv'
      BY WInvNext
<1>3. WInv => ChainsAreBounded
      BY WInvBounds
<1> QED BY <1>1, <1>2, <1>3, PTL DEF W!Spec

\* While one service runs the others rest, so what the timers do among them is
\* what they do alone.
LEMMA TimersAmongServices == ServicesSpec => W!Spec
<1>1. ServicesInit => W!Init
      BY DEF ServicesInit
<1>2. [ServicesNext]_<<which, vars, server, receipts, trash, timers, approvals, voice, tools, calls>>
          => [W!Next]_(W!vars)
      BY DEF ServicesNext, timers, W!vars
<1> QED BY <1>1, <1>2, PTL DEF ServicesSpec, W!Spec

\* And the chains keep their budget in the composition that the runs check.
THEOREM ChainsKeepTheirBudgetAmongServices == ServicesSpec => []ChainsAreBounded
BY TimersAmongServices, ChainsKeepTheirBudget, PTL

-----------------------------------------------------------------------------
(***************************************************************************)
(* The receipts of messages to a child agent: ReceiptIsTrue.  A row that   *)
(* was read keeps its activation and its owner, since it is bound again    *)
(* only to the same ones; and the row that the child is about to read is   *)
(* bound to what the child and the run are at that moment.                 *)
(***************************************************************************)

RowRecord == [status : {"absent", "queued", "picked_up", "error"}, activation : Nat, owner : Nat]
ChildRecord == [status : {"absent", "running", "completed", "cancelled"}, activation : Nat,
                work : {"idle", "context", "writing", "turn", "stopping"}]
Stages == {"none", "starting", "active", "ending", "over", "closing", "draining", "finishing"}
ChatRecord == [id : Nat, stage : Stages, cancelled : BOOLEAN]
Reader == [activation : Nat \ {0}, run : Nat \ {0}]

ReceiptTypes ==
    /\ rrow \in [Messages -> RowRecord]
    /\ rtarget \in [Messages -> [activation : Nat, run : Nat]]
    /\ rrun \in ChatRecord /\ rtask \in Messages \cup {NoMessage}
    /\ rchild \in ChildRecord
    /\ rreading \in Messages \cup {NoMessage} /\ rinputs \in Seq(Messages)
    /\ rreads \in [Messages -> Seq(Reader)]

\* The child works in a run that is not over, on the message it was given, and
\* writes to a row that is bound to it.
ChildHasRow ==
    /\ rchild.work \in {"context", "writing"} => rreading \in Messages
    /\ rchild.work = "writing" =>
          rrow[rreading].activation = rchild.activation /\ rrow[rreading].owner = rrun.id
    /\ rchild.work # "idle" => rchild.activation # 0 /\ rrun.stage \in {"active", "ending"}
    /\ rrun.stage # "none" => rrun.id # 0

ReceiptInv == ReceiptTypes /\ ChildHasRow /\ ReceiptIsTrue

LEMMA ReceiptConstants ==
    /\ NoMessage \notin Messages /\ Starts \subseteq Messages
    /\ MaxChatRuns \in Nat /\ MaxChildActivations \in Nat
BY ServicesAssumption DEF ServicesAssumption, R!ReceiptsAssumption

\* What may become of a row that is not read: its binding is never replaced.
SafeRow(old, new) ==
    /\ new \in RowRecord
    /\ new.status = "picked_up" <=> old.status = "picked_up"
    /\ old.activation # 0 => new.activation = old.activation
    /\ old.owner # 0 => new.owner = old.owner

RowsSafe(table) ==
    table \in [Messages -> RowRecord] /\ \A n \in Messages : SafeRow(rrow[n], table[n])

LEMMA SameRowsSafe == ReceiptTypes => RowsSafe(rrow)
BY DEF ReceiptTypes, RowsSafe, SafeRow

LEMMA OneRowSafe ==
    ASSUME ReceiptTypes, NEW m \in Messages, NEW k, SafeRow(rrow[m], k)
    PROVE  RowsSafe([rrow EXCEPT ![m] = k])
BY SameRowsSafe DEF ReceiptTypes, RowsSafe, SafeRow

LEMMA FailedRow ==
    ASSUME ReceiptTypes, NEW m \in Messages
    PROVE  SafeRow(rrow[m], R!Failed(rrow, m)[m]) /\ RowsSafe(R!Failed(rrow, m))
<1>1. rrow[m] \in RowRecord
      BY DEF ReceiptTypes
<1> DEFINE k == [rrow[m] EXCEPT !.status = IF @ = "queued" THEN "error" ELSE @]
<1>2. SafeRow(rrow[m], k)
      BY <1>1 DEF RowRecord, SafeRow
<1>3. R!Failed(rrow, m) = [rrow EXCEPT ![m] = k]
      BY DEF R!Failed
<1>4. R!Failed(rrow, m)[m] = k
      BY <1>3 DEF ReceiptTypes
<1> HIDE DEF k
<1> QED BY <1>2, <1>3, <1>4, OneRowSafe

\* Several table are failed at once.
LEMMA SomeFailed ==
    ASSUME ReceiptTypes, NEW table, table = [m \in Messages |-> table[m]],
           \A m \in Messages : table[m] = rrow[m] \/ table[m] = R!Failed(rrow, m)[m]
    PROVE  RowsSafe(table)
<1>1. ASSUME NEW m \in Messages PROVE SafeRow(rrow[m], table[m])
      BY <1>1, FailedRow, SameRowsSafe DEF RowsSafe
<1>2. \A m \in Messages : table[m] \in RowRecord
      BY <1>1 DEF SafeRow
<1> QED BY <1>1, <1>2 DEF RowsSafe

LEMMA BoundRow ==
    ASSUME ReceiptTypes, NEW m \in Messages, NEW a \in Nat, NEW o \in Nat, R!Bindable(m, a, o)
    PROVE  /\ RowsSafe(R!Bound(m, a, o))
           /\ R!Bound(m, a, o)[m].activation = a /\ R!Bound(m, a, o)[m].owner = o
<1>1. rrow[m] \in RowRecord
      BY DEF ReceiptTypes
<1> DEFINE k == [[rrow[m] EXCEPT !.activation = a] EXCEPT !.owner = o]
<1>2. SafeRow(rrow[m], k) /\ k.activation = a /\ k.owner = o
      BY <1>1 DEF RowRecord, SafeRow, R!Bindable
<1>3. R!Bound(m, a, o) = [rrow EXCEPT ![m] = k]
      BY <1>1 DEF R!Bound, ReceiptTypes, RowRecord
<1>4. R!Bound(m, a, o)[m] = k
      BY <1>3 DEF ReceiptTypes
<1> HIDE DEF k
<1> QED BY <1>2, <1>3, <1>4, OneRowSafe

\* A row that was not read takes the status of one that waits.
LEMMA QueuedRow ==
    ASSUME ReceiptTypes, NEW m \in Messages, rrow[m].status # "picked_up"
    PROVE  RowsSafe([rrow EXCEPT ![m].status = "queued"])
<1>1. rrow[m] \in RowRecord
      BY DEF ReceiptTypes
<1> DEFINE k == [rrow[m] EXCEPT !.status = "queued"]
<1>2. SafeRow(rrow[m], k)
      BY <1>1 DEF RowRecord, SafeRow
<1>3. [rrow EXCEPT ![m].status = "queued"] = [rrow EXCEPT ![m] = k]
      OBVIOUS
<1> HIDE DEF k
<1> QED BY <1>2, <1>3, OneRowSafe

\* Nothing but ChildReads reads, and nothing but ChildBinds makes a child ready to.
Unwritten ==
    /\ rreads' = rreads /\ RowsSafe(rrow')
    /\ rtarget' \in [Messages -> [activation : Nat, run : Nat]]
    /\ rrun' \in ChatRecord /\ rtask' \in Messages \cup {NoMessage}
    /\ rchild' \in ChildRecord
    /\ rreading' \in Messages \cup {NoMessage} /\ rinputs' \in Seq(Messages)
    /\ rchild'.work = "context" => rreading' \in Messages
    /\ rchild'.work = "writing" => rchild' = rchild /\ rreading' = rreading /\ rrun'.id = rrun.id
    /\ rchild'.work # "idle" => rchild'.activation # 0 /\ rrun'.stage \in {"active", "ending"}
    /\ rrun'.stage # "none" => rrun'.id # 0

\* A row that was read has the binding of its reader.
LEMMA ReadIsBound ==
    ASSUME ReceiptInv, NEW m \in Messages, rreads[m] # <<>>
    PROVE  /\ rrow[m].status = "picked_up" /\ rrow[m].activation # 0 /\ rrow[m].owner # 0
           /\ rreads[m] = <<[activation |-> rrow[m].activation, run |-> rrow[m].owner]>>
<1>1. /\ rrow[m].status = "picked_up"
      /\ rreads[m] = <<[activation |-> rrow[m].activation, run |-> rrow[m].owner]>>
      BY DEF ReceiptInv, ReceiptIsTrue, R!ReceiptIsTrue
<1>2. rreads[m] \in Seq(Reader)
      BY DEF ReceiptInv, ReceiptTypes
<1>3. 1 \in DOMAIN rreads[m] /\ rreads[m][1] = [activation |-> rrow[m].activation, run |-> rrow[m].owner]
      BY <1>1
<1>4. rreads[m][1] \in Reader
      BY <1>2, <1>3, ElementOfSeq
<1> QED BY <1>1, <1>3, <1>4 DEF Reader

\* Rows keep what is said of their readers.
LEMMA SafeRowsAreTrue == ASSUME ReceiptInv, RowsSafe(rrow'), rreads' = rreads PROVE ReceiptIsTrue'
<1>1. ASSUME NEW m \in Messages
      PROVE  /\ (rrow'[m].status = "picked_up") = (rreads'[m] # <<>>)
             /\ rreads'[m] # <<>> =>
                   rreads'[m] = <<[activation |-> rrow'[m].activation, run |-> rrow'[m].owner]>>
  <2>1. SafeRow(rrow[m], rrow'[m]) /\ rreads'[m] = rreads[m]
        BY DEF RowsSafe
  <2>2. CASE rreads[m] = <<>>
    <3>1. rrow[m].status # "picked_up"
          BY <2>2 DEF ReceiptInv, ReceiptIsTrue, R!ReceiptIsTrue
    <3> QED BY <2>1, <2>2, <3>1 DEF SafeRow
  <2>3. CASE rreads[m] # <<>>
        BY <2>1, <2>3, ReadIsBound DEF SafeRow
  <2> QED BY <2>2, <2>3
<1> QED BY <1>1 DEF ReceiptIsTrue, R!ReceiptIsTrue

LEMMA UnwrittenKeeps == ReceiptInv /\ Unwritten => ReceiptInv'
<1> SUFFICES ASSUME ReceiptInv, Unwritten PROVE ReceiptInv'
    OBVIOUS
<1>1. ReceiptTypes'
      BY DEF ReceiptInv, ReceiptTypes, Unwritten, RowsSafe
<1>3. ReceiptIsTrue'
      BY SafeRowsAreTrue DEF Unwritten
<1>4. rchild'.work = "writing" =>
          rreading' \in Messages /\ rrow'[rreading'].activation = rchild'.activation /\ rrow'[rreading'].owner = rrun'.id
  <2> SUFFICES ASSUME rchild'.work = "writing"
               PROVE  rreading' \in Messages /\ rrow'[rreading'].activation = rchild'.activation
                      /\ rrow'[rreading'].owner = rrun'.id
      OBVIOUS
  <2>1. rchild' = rchild /\ rreading' = rreading /\ rrun'.id = rrun.id
        BY DEF Unwritten
  <2>2. /\ rreading \in Messages /\ rrow[rreading].activation = rchild.activation /\ rrow[rreading].owner = rrun.id
        /\ rchild.activation # 0 /\ rrun.id # 0
        BY <2>1 DEF ReceiptInv, ChildHasRow
  <2>3. SafeRow(rrow[rreading], rrow'[rreading])
        BY <2>2 DEF Unwritten, RowsSafe
  <2> QED BY <2>1, <2>2, <2>3 DEF SafeRow
<1>5. ChildHasRow'
      BY <1>4 DEF ChildHasRow, Unwritten
<1> QED BY <1>1, <1>3, <1>5 DEF ReceiptInv

\* What is left of Unwritten when the child and the chat's run are left alone.
LEMMA RowsOnly ==
    ASSUME ReceiptInv, UNCHANGED <<rrun, rtask, rchild, rreading, rinputs, rreads>>, RowsSafe(rrow'),
           rtarget' \in [Messages -> [activation : Nat, run : Nat]]
    PROVE  Unwritten
BY DEF ReceiptInv, ReceiptTypes, ChildHasRow, Unwritten

LEMMA RunOnly ==
    ASSUME ReceiptInv, UNCHANGED <<rtarget, rchild, rreading, rinputs, rreads>>, RowsSafe(rrow'),
           rrun' \in ChatRecord, rtask' \in Messages \cup {NoMessage},
           rchild.work # "idle" => rrun'.stage \in {"active", "ending"} /\ rrun'.id = rrun.id,
           rrun'.stage # "none" => rrun'.id # 0
    PROVE  Unwritten
BY DEF ReceiptInv, ReceiptTypes, ChildHasRow, Unwritten

\* The child goes on, is stopped or is woken, in a run that is not over.
LEMMA ChildOnly ==
    ASSUME ReceiptInv, UNCHANGED <<rtask, rreads>>, RowsSafe(rrow'),
           rtarget' \in [Messages -> [activation : Nat, run : Nat]],
           rrun' \in ChatRecord, rrun'.id = rrun.id, rrun.stage # "none",
           rrun'.stage \in {"active", "ending"} \/ (rchild'.work = "idle"),
           rchild' \in ChildRecord, rchild'.work # "writing", rchild'.work # "idle" => rchild'.activation # 0,
           rreading' \in Messages \cup {NoMessage}, rchild'.work = "context" => rreading' \in Messages,
           rinputs' \in Seq(Messages)
    PROVE  Unwritten
BY DEF ReceiptInv, ReceiptTypes, ChildHasRow, Unwritten

LEMMA EnterKeeps == ASSUME ReceiptInv, NEW m \in Messages, R!Enter(m) PROVE Unwritten
<1>1. UNCHANGED <<rrun, rtask, rchild, rreading, rinputs, rreads>>
      BY DEF R!Enter, R!children
<1>2. ReceiptTypes
      BY DEF ReceiptInv
<1>3. rtarget' \in [Messages -> [activation : Nat, run : Nat]]
  <2>1. rrun.id \in Nat /\ rtarget \in [Messages -> [activation : Nat, run : Nat]]
        BY <1>2 DEF ReceiptTypes, ChatRecord
  <2>2. rtarget' = rtarget \/ rtarget' = [rtarget EXCEPT ![m] = [activation |-> 0, run |-> rrun.id]]
        BY DEF R!Enter, R!Aim
  <2> QED BY <2>1, <2>2
<1>4. RowsSafe(rrow')
  <2>1. RowsSafe(rrow) /\ RowsSafe(R!Failed(rrow, m))
        BY <1>2, SameRowsSafe, FailedRow
  <2>2. CASE rrow' = [rrow EXCEPT ![m].status = "queued"]
            /\ (rrow[m].status = "absent" \/ rrow[m].status = "queued")
        BY <1>2, <2>2, QueuedRow
  <2> QED BY <2>1, <2>2 DEF R!Enter
<1> QED BY <1>1, <1>3, <1>4, RowsOnly

LEMMA StartEnterKeeps == ASSUME ReceiptInv, NEW m \in Messages, R!StartEnter(m) PROVE Unwritten
<1>1. UNCHANGED <<rrun, rtask, rchild, rreading, rinputs, rreads>> /\ rtarget' = rtarget
      BY DEF R!StartEnter, R!children
<1>2. ReceiptTypes
      BY DEF ReceiptInv
<1>3. RowsSafe(rrow')
  <2>1. CASE rrow' = [rrow EXCEPT ![m].status = "queued"] /\ rrow[m].status = "absent"
        BY <1>2, <2>1, QueuedRow
  <2>2. CASE rrow' = rrow
        BY <1>2, <2>2, SameRowsSafe
  <2> QED BY <2>1, <2>2 DEF R!StartEnter
<1> QED BY <1>1, <1>2, <1>3, RowsOnly DEF ReceiptTypes

\* A request is drained, bound, verified or over: its row fails or is bound.
LEMMA RequestRows ==
    ASSUME ReceiptInv, NEW m \in Messages,
           R!Drained(m) \/ R!Bind(m) \/ R!Verify(m) \/ R!Ready(m) \/ R!Arrive(m)
    PROVE  Unwritten
<1>1. UNCHANGED <<rrun, rtask, rchild, rreading, rinputs, rreads>> /\ rtarget' = rtarget
      BY DEF R!Drained, R!Bind, R!Verify, R!Ready, R!Arrive, R!children
<1>2. ReceiptTypes
      BY DEF ReceiptInv
<1>3. RowsSafe(rrow) /\ RowsSafe(R!Failed(rrow, m))
      BY <1>2, SameRowsSafe, FailedRow
<1>4. CASE R!Bind(m)
  <2>1. rtarget[m].activation \in Nat /\ rtarget[m].run \in Nat
        BY <1>2 DEF ReceiptTypes
  <2>2. R!Bindable(m, rtarget[m].activation, rtarget[m].run) =>
            RowsSafe(R!Bound(m, rtarget[m].activation, rtarget[m].run))
        BY <1>2, <2>1, BoundRow
  <2>3. RowsSafe(rrow')
        BY <1>3, <1>4, <2>2 DEF R!Bind
  <2> QED BY <1>1, <1>2, <2>3, RowsOnly DEF ReceiptTypes
<1>5. CASE R!Drained(m) \/ R!Verify(m) \/ R!Ready(m) \/ R!Arrive(m)
  <2>1. RowsSafe(rrow')
        BY <1>3, <1>5 DEF R!Drained, R!Verify, R!Ready, R!Arrive
  <2> QED BY <1>1, <1>2, <2>1, RowsOnly DEF ReceiptTypes
<1> QED BY <1>4, <1>5

\* The chat's run goes on while nothing happens to the child.
LEMMA StageKeeps ==
    ASSUME ReceiptInv, R!RunEnds \/ R!RunOver \/ R!RunCloses \/ R!RunArrives \/ R!RunSettles \/ R!RunFinishes
    PROVE  Unwritten
<1>1. UNCHANGED <<rtarget, rchild, rreading, rinputs, rreads>>
      BY DEF R!RunEnds, R!RunOver, R!RunCloses, R!RunArrives, R!RunSettles, R!RunFinishes, R!children, R!requests
<1>2. ReceiptTypes /\ rrun \in ChatRecord /\ RowsSafe(rrow) /\ NoMessage \notin Messages
      BY SameRowsSafe, ReceiptConstants DEF ReceiptInv, ReceiptTypes
<1>3. /\ rrun' \in ChatRecord
      /\ rtask' \in Messages \cup {NoMessage}
      /\ rchild.work # "idle" => rrun'.stage \in {"active", "ending"} /\ rrun'.id = rrun.id
      /\ rrun'.stage # "none" => rrun'.id # 0
  <2>1. CASE R!RunArrives
    <3>1. rrun' = [id |-> rrun.id + 1, stage |-> "starting", cancelled |-> FALSE] /\ rrun.stage = "none"
          BY <2>1 DEF R!RunArrives, R!NewRun, R!Here
    <3>2. rrun.id \in Nat /\ rchild.work = "idle" /\ rtask' = NoMessage
          BY <1>2, <2>1, <3>1 DEF ChatRecord, ReceiptInv, ChildHasRow, R!RunArrives, R!NewRun
    <3>3. rrun' \in ChatRecord /\ rrun'.id # 0
          BY <3>1, <3>2 DEF ChatRecord, Stages
    <3> QED BY <3>2, <3>3
  <2>2. CASE R!RunEnds \/ R!RunOver \/ R!RunCloses \/ R!RunSettles
    <3>1. rtask' = rtask /\ rrun.stage # "none" /\ (rchild.work = "idle")
          BY <2>2 DEF R!RunEnds, R!RunOver, R!RunCloses, R!RunSettles, R!StageTo, ReceiptInv, ChildHasRow
    <3>2. PICK s \in Stages : rrun' = [rrun EXCEPT !.stage = s]
          BY <2>2 DEF R!RunEnds, R!RunOver, R!RunCloses, R!RunSettles, R!StageTo, Stages
    <3>3. rrun' \in ChatRecord /\ rrun'.id = rrun.id
          BY <1>2, <3>2 DEF ChatRecord
    <3> QED BY <3>1, <3>3 DEF ReceiptInv, ReceiptTypes, ChildHasRow
  <2>3. CASE R!RunFinishes
    <3>1. rrun' = [rrun EXCEPT !.stage = "none", !.cancelled = FALSE] /\ rtask' = NoMessage /\ rchild.work = "idle"
          BY <2>3 DEF R!RunFinishes, ReceiptInv, ChildHasRow
    <3>2. rrun' \in ChatRecord /\ rrun'.stage = "none"
          BY <1>2, <3>1 DEF ChatRecord, Stages
    <3> QED BY <3>1, <3>2
  <2> QED BY <2>1, <2>2, <2>3
<1>4. RowsSafe(rrow')
  <2>1. CASE R!RunSettles
    <3> DEFINE table == [m \in Messages |-> IF R!Unread(m) THEN R!Failed(rrow, m)[m] ELSE rrow[m]]
    <3>1. \A m \in Messages : table[m] = rrow[m] \/ table[m] = R!Failed(rrow, m)[m]
          OBVIOUS
    <3>2. table = [m \in Messages |-> table[m]] /\ rrow' = table
          BY <2>1 DEF R!RunSettles
    <3> HIDE DEF table
    <3> QED BY <1>2, <3>1, <3>2, SomeFailed
  <2>2. CASE R!RunFinishes
    <3>1. rtask # NoMessage => RowsSafe(R!Failed(rrow, rtask))
          BY <1>2, FailedRow DEF ReceiptTypes
    <3> QED BY <1>2, <2>2, <3>1 DEF R!RunFinishes
  <2>3. CASE R!RunEnds \/ R!RunOver \/ R!RunCloses \/ R!RunArrives
        BY <1>2, <2>3 DEF R!RunEnds, R!RunOver, R!RunCloses, R!RunArrives
  <2> QED BY <2>1, <2>2, <2>3
<1> QED BY <1>1, <1>3, <1>4, RunOnly

LEMMA RecordKeeps == ASSUME ReceiptInv, R!Record PROVE Unwritten
<1>1. UNCHANGED <<rrun, rtask, rchild, rreading, rinputs, rreads>> /\ rtarget' = rtarget
      BY DEF R!Record, R!children
<1>2. ReceiptTypes /\ RowsSafe(rrow)
      BY SameRowsSafe DEF ReceiptInv
<1>3. rchild.activation \in Nat /\ rrun.id \in Nat /\ rrow = [m \in Messages |-> rrow[m]]
      BY <1>2 DEF ReceiptTypes, ChildRecord, ChatRecord
<1> DEFINE bound == R!Bound(rtask, rchild.activation, rrun.id)
           failed == [m \in Messages |->
                         IF rrow[m].activation = Head(revents).activation THEN R!Failed(rrow, m)[m] ELSE rrow[m]]
<1>4. R!Bindable(rtask, rchild.activation, rrun.id) => RowsSafe(bound)
  <2>1. CASE rtask \in Messages
        BY <1>2, <1>3, <2>1, BoundRow
  <2>2. CASE rtask \notin Messages
    <3>1. bound = rrow
          BY <1>3, <2>2 DEF R!Bound
    <3> QED BY <1>2, <3>1
  <2> QED BY <2>1, <2>2
<1>5. RowsSafe(failed)
  <2>1. \A m \in Messages : failed[m] = rrow[m] \/ failed[m] = R!Failed(rrow, m)[m]
        OBVIOUS
  <2>2. failed = [m \in Messages |-> failed[m]]
        OBVIOUS
  <2> HIDE DEF failed
  <2> QED BY <1>2, <2>1, <2>2, SomeFailed
<1>6. \/ rrow' = rrow \/ rrow' = failed
      \/ R!Bindable(rtask, rchild.activation, rrun.id) /\ rrow' = bound
      BY DEF R!Record
<1> HIDE DEF bound, failed
<1>7. RowsSafe(rrow')
      BY <1>2, <1>4, <1>5, <1>6
<1> QED BY <1>1, <1>2, <1>7, RowsOnly DEF ReceiptTypes

\* The child is woken: it starts with the message, or with none.
LEMMA Activated ==
    ASSUME ReceiptInv, NEW m \in Messages \cup {NoMessage}, R!Activate(m)
    PROVE  /\ rchild' \in ChildRecord /\ rchild'.work # "writing" /\ rchild'.activation # 0
           /\ rreading' \in Messages \cup {NoMessage} /\ (rchild'.work = "context" => rreading' \in Messages)
           /\ rinputs' \in Seq(Messages)
<1>1. rchild.activation \in Nat
      BY DEF ReceiptInv, ReceiptTypes, ChildRecord
<1>2. rchild' = [status |-> "running", activation |-> rchild.activation + 1,
                 work |-> IF m = NoMessage THEN "turn" ELSE "context"]
      BY DEF R!Activate
<1>3. rchild' \in ChildRecord /\ rchild'.work # "writing" /\ rchild'.activation # 0
      BY <1>1, <1>2 DEF ChildRecord
<1>4. rchild'.work = "context" => m \in Messages
      BY <1>2
<1>5. rreading' = m /\ rinputs' = <<>>
      BY DEF R!Activate
<1> QED BY <1>3, <1>4, <1>5

\* So the run that it is woken in keeps every row.
LEMMA WakingKeeps ==
    ASSUME ReceiptInv, NEW m \in Messages \cup {NoMessage}, R!Activate(m),
           UNCHANGED <<rtask, rreads, rrow>>,
           rtarget' \in [Messages -> [activation : Nat, run : Nat]],
           rrun' \in ChatRecord, rrun'.id = rrun.id, rrun.stage # "none", rrun'.stage = "active"
    PROVE  Unwritten
<1>1. RowsSafe(rrow')
      BY SameRowsSafe DEF ReceiptInv
<1> QED BY <1>1, Activated, ChildOnly DEF ReceiptInv

\* A run of its own for a message.
LEMMA NewRunKeeps ==
    ASSUME ReceiptInv, NEW m \in Messages \cup {NoMessage}, R!NewRun(m),
           UNCHANGED <<rtarget, rchild, rreading, rinputs, rreads>>, RowsSafe(rrow')
    PROVE  Unwritten
<1>1. rrun' = [id |-> rrun.id + 1, stage |-> "starting", cancelled |-> FALSE] /\ rrun.stage = "none" /\ rtask' = m
      BY DEF R!NewRun, R!Here
<1>2. rrun.id \in Nat /\ rchild.work = "idle"
      BY <1>1 DEF ReceiptInv, ReceiptTypes, ChatRecord, ChildHasRow
<1>3. rrun' \in ChatRecord /\ rrun'.id # 0
      BY <1>1, <1>2 DEF ChatRecord, Stages
<1> QED BY <1>1, <1>2, <1>3, RunOnly

\* What a request binds its row to is a run and an activation.
LEMMA Aimed ==
    ASSUME ReceiptInv, NEW m \in Messages, NEW a \in Nat, R!Aim(m, a)
    PROVE  rtarget' \in [Messages -> [activation : Nat, run : Nat]]
<1>1. rrun.id \in Nat /\ rtarget \in [Messages -> [activation : Nat, run : Nat]]
      BY DEF ReceiptInv, ReceiptTypes, ChatRecord
<1> QED BY <1>1 DEF R!Aim

LEMMA AcceptKeeps == ASSUME ReceiptInv, NEW m \in Messages, R!Accept(m) PROVE Unwritten
<1>1. ReceiptTypes /\ RowsSafe(rrow) /\ RowsSafe(R!Failed(rrow, m)) /\ rreads' = rreads
      BY SameRowsSafe, FailedRow DEF ReceiptInv, R!Accept
<1>2. rchild.activation \in Nat /\ rrun \in ChatRecord /\ rchild.activation + 1 \in Nat
      BY <1>1 DEF ReceiptTypes, ChildRecord
<1>3. ASSUME R!Aim(m, 0), UNCHANGED <<rrow, rrun, rtask, rchild, rreading, rinputs>> PROVE Unwritten
      BY <1>1, <1>3, Aimed, RowsOnly
<1>4. ASSUME rinputs' = Append(rinputs, m), R!Aim(m, rchild.activation),
             UNCHANGED <<rrow, rrun, rtask, rchild, rreading>>
      PROVE  Unwritten
  <2>1. rinputs' \in Seq(Messages)
        BY <1>1, <1>4 DEF ReceiptTypes
  <2>2. rtarget' \in [Messages -> [activation : Nat, run : Nat]]
        BY <1>2, <1>4, Aimed
  <2> QED BY <1>1, <1>4, <2>1, <2>2 DEF Unwritten, ReceiptInv, ReceiptTypes, ChildHasRow
<1>5. ASSUME R!Active, R!Activate(m), R!Aim(m, rchild.activation + 1), UNCHANGED <<rrow, rrun, rtask>>
      PROVE  Unwritten
  <2>1. rtarget' \in [Messages -> [activation : Nat, run : Nat]]
        BY <1>2, <1>5, Aimed
  <2>2. rrun' \in ChatRecord /\ rrun'.id = rrun.id /\ rrun.stage # "none" /\ rrun'.stage = "active"
        BY <1>2, <1>5 DEF R!Active
  <2> QED BY <1>1, <1>5, <2>1, <2>2, WakingKeeps
<1>6. ASSUME R!NewRun(m), UNCHANGED <<rrow, rtarget, rchild, rreading, rinputs>> PROVE Unwritten
      BY <1>1, <1>6, NewRunKeeps
<1>7. ASSUME rrow' = R!Failed(rrow, m), UNCHANGED <<rtarget, rrun, rtask, rchild, rreading, rinputs>> PROVE Unwritten
      BY <1>1, <1>7, RowsOnly DEF ReceiptTypes
<1> QED BY <1>3, <1>4, <1>5, <1>6, <1>7 DEF R!Accept, R!children

LEMMA StartKeeps == ASSUME ReceiptInv, NEW m \in Messages, R!Start(m) PROVE Unwritten
<1>1. ReceiptTypes /\ RowsSafe(rrow) /\ RowsSafe(R!Failed(rrow, m)) /\ rreads' = rreads
      BY SameRowsSafe, FailedRow DEF ReceiptInv, R!Start
<1>2. rchild.activation + 1 \in Nat /\ rrun \in ChatRecord
      BY <1>1 DEF ReceiptTypes, ChildRecord
<1>3. ASSUME R!Active, R!Activate(m), R!Aim(m, rchild.activation + 1), UNCHANGED <<rrow, rrun, rtask>>
      PROVE  Unwritten
  <2>1. rtarget' \in [Messages -> [activation : Nat, run : Nat]]
        BY <1>2, <1>3, Aimed
  <2>2. rrun' \in ChatRecord /\ rrun'.id = rrun.id /\ rrun.stage # "none" /\ rrun'.stage = "active"
        BY <1>2, <1>3 DEF R!Active
  <2> QED BY <1>1, <1>3, <2>1, <2>2, WakingKeeps
<1>4. ASSUME R!NewRun(m), UNCHANGED <<rrow, rtarget, rchild, rreading, rinputs>> PROVE Unwritten
      BY <1>1, <1>4, NewRunKeeps
<1>5. ASSUME rrow' = R!Failed(rrow, m), UNCHANGED <<rtarget, rrun, rtask, rchild, rreading, rinputs>> PROVE Unwritten
      BY <1>1, <1>5, RowsOnly DEF ReceiptTypes
<1> QED BY <1>3, <1>4, <1>5 DEF R!Start, R!children

LEMMA BeginKeeps == ASSUME ReceiptInv, R!RunBegins \/ R!RunDelegates PROVE Unwritten
<1>1. ReceiptTypes /\ RowsSafe(rrow) /\ rrun \in ChatRecord /\ rchild.activation \in Nat
      BY SameRowsSafe DEF ReceiptInv, ReceiptTypes, ChildRecord
<1>2. CASE R!RunDelegates
  <2>1. R!Activate(NoMessage) /\ rrun.stage = "active" /\ UNCHANGED <<rrow, rrun, rtask, rreads, rtarget>>
        BY <1>2 DEF R!RunDelegates, R!Active, R!requests
  <2> QED BY <1>1, <2>1, WakingKeeps DEF ReceiptTypes
<1>3. CASE R!RunBegins
  <2>1. UNCHANGED <<rrow, rtarget, rtask, rreads>>
        BY <1>3 DEF R!RunBegins, R!requests
  <2>2. PICK s \in {"active", "ending"} : rrun.stage = "starting" /\ rrun' = [rrun EXCEPT !.stage = s]
                /\ (R!Activate(rtask) => s = "active")
                /\ (R!Activate(rtask) \/ UNCHANGED R!children)
    <3>1. CASE rtask = NoMessage /\ R!StageTo("starting", "active") /\ UNCHANGED R!children
          BY <3>1 DEF R!StageTo
    <3>2. CASE R!StageTo("starting", "active") /\ R!Activate(rtask)
          BY <3>2 DEF R!StageTo
    <3>3. CASE rchild.activation = MaxChildActivations /\ R!StageTo("starting", "ending") /\ UNCHANGED R!children
      <4>1. ~R!Activate(rtask)
            BY <3>3, ReceiptConstants DEF R!Activate
      <4> QED BY <3>3, <4>1 DEF R!StageTo
    <3> QED BY <1>3, <3>1, <3>2, <3>3 DEF R!RunBegins
  <2>3. rrun' \in ChatRecord /\ rrun'.id = rrun.id /\ rrun'.stage = s /\ rrun.id # 0
        BY <1>1, <2>2 DEF ChatRecord, Stages, ReceiptInv, ChildHasRow
  <2>4. CASE R!Activate(rtask)
        BY <1>1, <2>1, <2>2, <2>3, <2>4, WakingKeeps DEF ReceiptTypes
  <2>5. CASE UNCHANGED R!children
        BY <1>1, <2>1, <2>3, <2>5, RunOnly DEF ReceiptTypes, R!children
  <2> QED BY <2>2, <2>4, <2>5
<1> QED BY <1>2, <1>3

LEMMA TurnKeeps == ASSUME ReceiptInv, R!ChildTurns PROVE Unwritten
<1>1. /\ RowsSafe(rrow') /\ rrun \in ChatRecord /\ rchild \in ChildRecord /\ rchild.work = "turn"
      /\ rrun.stage \in {"active", "ending"} /\ rchild.activation # 0
      /\ rinputs \in Seq(Messages)
      /\ rtarget' \in [Messages -> [activation : Nat, run : Nat]]
      /\ UNCHANGED <<rrun, rtask, rreads>>
      BY SameRowsSafe DEF ReceiptInv, ReceiptTypes, ChildHasRow, R!ChildTurns, R!WorkTo, R!requests
<1>2. CASE rinputs = <<>>
  <2>1. rchild' = [rchild EXCEPT !.work = "stopping"] /\ rreading' = NoMessage /\ rinputs' = rinputs
        BY <1>2 DEF R!ChildTurns, R!WorkTo
  <2>2. rchild' \in ChildRecord /\ rchild'.work = "stopping" /\ rchild'.activation # 0
        BY <1>1, <2>1 DEF ChildRecord
  <2> QED BY <1>1, <2>1, <2>2, ChildOnly
<1>3. CASE rinputs # <<>>
  <2>1. rchild' = [rchild EXCEPT !.work = "context"] /\ rreading' = Head(rinputs) /\ rinputs' = Tail(rinputs)
        BY <1>3 DEF R!ChildTurns, R!WorkTo
  <2>2. rchild' \in ChildRecord /\ rchild'.work = "context" /\ rchild'.activation # 0
        BY <1>1, <2>1 DEF ChildRecord
  <2>3. rreading' \in Messages /\ rinputs' \in Seq(Messages)
        BY <1>1, <1>3, <2>1, HeadTailProperties
  <2> QED BY <1>1, <2>2, <2>3, ChildOnly
<1> QED BY <1>2, <1>3

\* The child is stopped: by a failure, by the end of its run, or by a stop of it.
LEMMA StopsKeep ==
    ASSUME ReceiptInv, R!ChildFails \/ R!ChildEnds \/ R!RunFails \/ R!RunStopped
    PROVE  Unwritten
<1>1. /\ RowsSafe(rrow') /\ rrun \in ChatRecord /\ rchild \in ChildRecord
      /\ rreading \in Messages \cup {NoMessage} /\ rinputs \in Seq(Messages)
      /\ rtarget' \in [Messages -> [activation : Nat, run : Nat]]
      /\ UNCHANGED <<rtask, rreads>>
      BY SameRowsSafe DEF ReceiptInv, ReceiptTypes, R!ChildFails, R!ChildEnds, R!RunFails, R!RunStopped, R!requests
<1>2. CASE R!ChildFails
  <2>1. /\ rchild' = [rchild EXCEPT !.work = "stopping"] /\ rchild.work # "idle"
        /\ UNCHANGED <<rrun, rreading, rinputs>>
        BY <1>2 DEF R!ChildFails, R!WorkTo
  <2>2. rchild.activation # 0 /\ rrun.stage \in {"active", "ending"}
        BY <2>1 DEF ReceiptInv, ChildHasRow
  <2>3. rchild' \in ChildRecord /\ rchild'.work = "stopping" /\ rchild'.activation # 0
        BY <1>1, <2>1, <2>2 DEF ChildRecord
  <2> QED BY <1>1, <2>1, <2>2, <2>3, ChildOnly
<1>3. CASE R!ChildEnds
  <2>1. PICK s \in {"completed", "cancelled"} : rchild' = [rchild EXCEPT !.status = s, !.work = "idle"]
        BY <1>3 DEF R!ChildEnds
  <2>2. /\ rchild.work = "stopping" /\ rreading' = NoMessage /\ rinputs' = <<>> /\ rrun' = rrun
        BY <1>3 DEF R!ChildEnds
  <2>3. rchild' \in ChildRecord /\ rchild'.work = "idle" /\ rrun.stage \in {"active", "ending"}
        BY <1>1, <2>1, <2>2 DEF ChildRecord, ReceiptInv, ChildHasRow
  <2>4. rinputs' \in Seq(Messages)
        BY <2>2
  <2> QED BY <1>1, <2>2, <2>3, <2>4, ChildOnly
<1>4. CASE R!RunFails \/ R!RunStopped
  <2>1. /\ rrun.stage # "none" /\ rrun' \in ChatRecord /\ rrun'.id = rrun.id /\ rrun'.stage # "none"
        /\ rrun.stage \in {"active", "ending"} => rrun'.stage \in {"active", "ending"}
        BY <1>1, <1>4 DEF R!RunFails, R!RunStopped, R!StageTo, R!Here, ChatRecord, Stages
  <2>2. R!CancelChild /\ UNCHANGED <<rreading, rinputs>>
        BY <1>4 DEF R!RunFails, R!RunStopped
  <2>3. CASE rchild.work = "idle"
    <3>1. rchild' = rchild
          BY <2>2, <2>3 DEF R!CancelChild
    <3> QED BY <1>1, <2>1, <2>2, <2>3, <3>1, ChildOnly
  <2>4. CASE rchild.work # "idle"
    <3>1. rchild' = [rchild EXCEPT !.work = "stopping"]
          BY <2>2, <2>4 DEF R!CancelChild
    <3>2. rrun.stage \in {"active", "ending"} /\ rchild.activation # 0
          BY <2>4 DEF ReceiptInv, ChildHasRow
    <3>3. rchild' \in ChildRecord /\ rchild'.work = "stopping" /\ rchild'.activation # 0
          BY <1>1, <3>1, <3>2 DEF ChildRecord
    <3> QED BY <1>1, <2>1, <2>2, <3>2, <3>3, ChildOnly
  <2> QED BY <2>3, <2>4
<1> QED BY <1>2, <1>3, <1>4

LEMMA RestartKeeps == ASSUME ReceiptInv, R!Restart PROVE Unwritten
<1>1. ReceiptTypes /\ rrun \in ChatRecord /\ rchild \in ChildRecord /\ rreads' = rreads /\ rtarget' = rtarget
      BY DEF ReceiptInv, ReceiptTypes, R!Restart
<1>2. RowsSafe(rrow')
  <2> DEFINE table == [m \in Messages |-> R!Failed(rrow, m)[m]]
  <2>1. rrow' = table /\ table = [m \in Messages |-> table[m]] /\ \A m \in Messages : table[m] = R!Failed(rrow, m)[m]
        BY DEF R!Restart
  <2> HIDE DEF table
  <2> QED BY <1>1, <2>1, SomeFailed
<1>3. rrun' \in ChatRecord /\ rrun'.stage = "none" /\ rtask' = NoMessage
      BY <1>1 DEF R!Restart, ChatRecord, Stages
<1>4. rchild' \in ChildRecord /\ rchild'.work = "idle"
      BY <1>1 DEF R!Restart, ChildRecord
<1>5. rreading' = NoMessage /\ rinputs' = <<>>
      BY DEF R!Restart
<1>6. rinputs' \in Seq(Messages)
      BY <1>5
<1> QED BY <1>1, <1>2, <1>3, <1>4, <1>5, <1>6 DEF Unwritten, ReceiptTypes

\* The row is bound to the activation and the run that are about to read it.
LEMMA ChildBindsKeeps == ASSUME ReceiptInv, R!ChildBinds PROVE ReceiptInv'
<1>1. /\ ReceiptTypes /\ RowsSafe(rrow) /\ rrun \in ChatRecord /\ rchild \in ChildRecord
      /\ rchild.work = "context" /\ rreading \in Messages
      /\ rchild.activation # 0 /\ rrun.stage \in {"active", "ending"}
      /\ UNCHANGED <<rtarget, rrun, rtask, rreading, rinputs, rreads>>
      BY SameRowsSafe DEF ReceiptInv, ReceiptTypes, ChildHasRow, R!ChildBinds, R!WorkTo
<1>2. CASE ~R!Bindable(rreading, rchild.activation, rrun.id)
  <2>1. rchild' = [rchild EXCEPT !.work = "stopping"] /\ rrow' = rrow
        BY <1>2 DEF R!ChildBinds, R!WorkTo
  <2>2. rchild' \in ChildRecord /\ rchild'.work = "stopping" /\ rchild'.activation # 0
        BY <1>1, <2>1 DEF ChildRecord
  <2>3. Unwritten
        BY <1>1, <2>1, <2>2, ChildOnly DEF ReceiptTypes
  <2> QED BY <2>3, UnwrittenKeeps
<1>3. CASE R!Bindable(rreading, rchild.activation, rrun.id)
  <2>1. /\ rchild' = [rchild EXCEPT !.work = "writing"]
        /\ rrow' = R!Bound(rreading, rchild.activation, rrun.id)
        BY <1>3 DEF R!ChildBinds, R!WorkTo
  <2>2. rchild' \in ChildRecord /\ rchild'.work = "writing" /\ rchild'.activation = rchild.activation
        BY <1>1, <2>1 DEF ChildRecord
  <2>3. rchild.activation \in Nat /\ rrun.id \in Nat
        BY <1>1 DEF ChildRecord, ChatRecord
  <2>4. /\ RowsSafe(rrow')
        /\ rrow'[rreading].activation = rchild.activation /\ rrow'[rreading].owner = rrun.id
        BY <1>1, <1>3, <2>1, <2>3, BoundRow
  <2>5. ReceiptTypes'
        BY <1>1, <2>2, <2>4 DEF ReceiptTypes, RowsSafe
  <2>6. ReceiptIsTrue'
        BY <1>1, <2>4, SafeRowsAreTrue
  <2>7. ChildHasRow'
        BY <1>1, <2>2, <2>4 DEF ReceiptInv, ChildHasRow
  <2> QED BY <2>5, <2>6, <2>7 DEF ReceiptInv
<1> QED BY <1>2, <1>3

\* The message is read by the activation and the run that its row is bound to,
\* and by nobody before: the row was still queued.
LEMMA ChildReadsKeeps == ASSUME ReceiptInv, R!ChildReads PROVE ReceiptInv'
<1>1. /\ ReceiptTypes /\ rrun \in ChatRecord /\ rchild \in ChildRecord
      /\ rchild.work = "writing" /\ rreading \in Messages
      /\ rchild.activation # 0 /\ rrun.stage \in {"active", "ending"} /\ rrun.id # 0
      /\ rrow[rreading].activation = rchild.activation /\ rrow[rreading].owner = rrun.id
      /\ UNCHANGED <<rtarget, rrun, rtask, rreading, rinputs>>
      BY DEF ReceiptInv, ReceiptTypes, ChildHasRow, R!ChildReads, R!WorkTo, R!requests
<1>2. rrow[rreading] \in RowRecord /\ rrow = [m \in Messages |-> rrow[m]] /\ rreads = [m \in Messages |-> rreads[m]]
      BY <1>1 DEF ReceiptTypes
<1>3. PICK s \in {"turn", "stopping"} : rchild' = [rchild EXCEPT !.work = s]
      BY DEF R!ChildReads, R!WorkTo
<1>4. rchild' \in ChildRecord /\ rchild'.work = s /\ rchild'.activation = rchild.activation
      BY <1>1, <1>3 DEF ChildRecord
<1>5. CASE ~R!Readable(rreading)
  <2>1. rrow' = rrow /\ rreads' = rreads
        BY <1>2, <1>5 DEF R!ChildReads, RowRecord
  <2>2. RowsSafe(rrow')
        BY <1>1, <2>1, SameRowsSafe
  <2>3. Unwritten
        BY <1>1, <1>4, <2>1, <2>2, ChildOnly DEF ReceiptTypes
  <2> QED BY <2>3, UnwrittenKeeps
<1>6. CASE R!Readable(rreading)
  <2> DEFINE k == [rrow[rreading] EXCEPT !.status = "picked_up"]
             entry == [activation |-> rchild.activation, run |-> rrun.id]
  <2>1. /\ k \in RowRecord /\ k.status = "picked_up" /\ k.activation = entry.activation /\ k.owner = entry.run
        BY <1>1, <1>2 DEF RowRecord
  <2>2. entry \in Reader
        BY <1>1 DEF Reader, ChildRecord, ChatRecord
  <2>3. rrow' = [rrow EXCEPT ![rreading] = k]
        BY <1>2, <1>6 DEF R!ChildReads
  <2>4. rreads[rreading] = <<>>
        BY <1>1, <1>6 DEF R!Readable, ReceiptInv, ReceiptIsTrue, R!ReceiptIsTrue
  <2>5. rreads' = [rreads EXCEPT ![rreading] = Append(rreads[rreading], entry)]
        BY <1>2, <1>6 DEF R!ChildReads
  <2>6. Append(rreads[rreading], entry) = <<entry>>
        BY <2>4
  <2>7. entry = [activation |-> k.activation, run |-> k.owner]
        BY <2>1
  <2> HIDE DEF k, entry
  <2>8. <<entry>> \in Seq(Reader) /\ <<entry>> # <<>>
        BY <2>2
  <2>9. rrow' \in [Messages -> RowRecord] /\ rreads' \in [Messages -> Seq(Reader)]
        BY <1>1, <2>1, <2>3, <2>5, <2>6, <2>8 DEF ReceiptTypes
  <2>10. \A m \in Messages : m # rreading => rrow'[m] = rrow[m] /\ rreads'[m] = rreads[m]
        BY <1>2, <2>3, <2>5
  <2>11. rrow'[rreading] = k /\ rreads'[rreading] = <<entry>>
        BY <1>1, <1>2, <2>3, <2>5, <2>6
  <2>12. ReceiptIsTrue'
    <3> SUFFICES ASSUME NEW m \in Messages
                 PROVE  /\ (rrow'[m].status = "picked_up") = (rreads'[m] # <<>>)
                        /\ rreads'[m] # <<>> =>
                              rreads'[m] = <<[activation |-> rrow'[m].activation, run |-> rrow'[m].owner]>>
        BY DEF ReceiptIsTrue, R!ReceiptIsTrue
    <3>1. CASE m # rreading
          BY <2>10, <3>1 DEF ReceiptInv, ReceiptIsTrue, R!ReceiptIsTrue
    <3>2. CASE m = rreading
          BY <2>1, <2>7, <2>8, <2>11, <3>2
    <3> QED BY <3>1, <3>2
  <2>13. ReceiptTypes'
        BY <1>1, <1>4, <2>9 DEF ReceiptTypes
  <2>14. ChildHasRow'
        BY <1>1, <1>4 DEF ChildHasRow
  <2> QED BY <2>12, <2>13, <2>14 DEF ReceiptInv
<1> QED BY <1>5, <1>6

LEMMA ReceiptNext == ReceiptInv /\ [R!Next]_(R!vars) => ReceiptInv'
<1> SUFFICES ASSUME ReceiptInv, [R!Next]_(R!vars) PROVE ReceiptInv'
    OBVIOUS
<1>1. CASE UNCHANGED R!vars
      BY <1>1 DEF R!vars, R!requests, R!children, ReceiptInv, ReceiptTypes, ChildHasRow, ReceiptIsTrue, R!ReceiptIsTrue
<1>2. ASSUME NEW m \in Messages, R!Arrive(m) \/ R!RequestStep(m) PROVE Unwritten
      BY <1>2, RequestRows, EnterKeeps, AcceptKeeps, StartEnterKeeps, StartKeeps DEF R!RequestStep
<1>3. CASE R!ChildStep \/ R!ChildFails
      BY <1>3, ChildBindsKeeps, ChildReadsKeeps, TurnKeeps, StopsKeep, UnwrittenKeeps DEF R!ChildStep
<1>4. CASE R!RunStep \/ R!RunArrives \/ R!RunFails \/ R!RunDelegates \/ R!RunStopped
      BY <1>4, BeginKeeps, StageKeeps, RecordKeeps, StopsKeep, UnwrittenKeeps DEF R!RunStep
<1>5. CASE R!Restart
      BY <1>5, RestartKeeps, UnwrittenKeeps
<1> QED BY <1>1, <1>2, <1>3, <1>4, <1>5, UnwrittenKeeps DEF R!Next

LEMMA ReceiptInit == R!Init => ReceiptInv
<1> SUFFICES ASSUME R!Init PROVE ReceiptInv
    OBVIOUS
<1>1. rrow \in [Messages -> RowRecord]
      BY DEF R!Init, RowRecord
<1>2. rtarget \in [Messages -> [activation : Nat, run : Nat]]
      BY DEF R!Init, R!NoOne
<1>3. rrun \in ChatRecord /\ rrun.stage = "none"
      BY DEF R!Init, ChatRecord, Stages
<1>4. rchild \in ChildRecord /\ rchild.work = "idle"
      BY DEF R!Init, ChildRecord
<1>5. rreads = [m \in Messages |-> <<>>] /\ rinputs = <<>> /\ rreading = NoMessage /\ rtask = NoMessage
      BY DEF R!Init
<1>6. rreads \in [Messages -> Seq(Reader)] /\ rinputs \in Seq(Messages)
      BY <1>5
<1>7. ReceiptTypes
      BY <1>1, <1>2, <1>3, <1>4, <1>5, <1>6 DEF ReceiptTypes
<1>8. ChildHasRow
      BY <1>3, <1>4 DEF ChildHasRow
<1>9. ReceiptIsTrue
      BY <1>5 DEF R!Init, ReceiptIsTrue, R!ReceiptIsTrue
<1> QED BY <1>7, <1>8, <1>9 DEF ReceiptInv

\* A message to a child agent is read at most once, by the activation and in
\* the run that its row names, and its row says that it was picked up exactly
\* when it was read: whatever stops, fails, retries or restarts.
THEOREM ReceiptsAreTrue == R!Spec => []ReceiptIsTrue
<1>1. ReceiptInv => ReceiptIsTrue
      BY DEF ReceiptInv
<1> QED BY ReceiptInit, ReceiptNext, <1>1, PTL DEF R!Spec

LEMMA ReceiptsAmongServices == ServicesSpec => R!Spec
<1>1. ServicesInit => R!Init
      BY DEF ServicesInit
<1>2. [ServicesNext]_<<which, vars, server, receipts, trash, timers, approvals, voice, tools, calls>>
          => [R!Next]_(R!vars)
      BY DEF ServicesNext, receipts, R!vars, R!requests, R!children
<1> QED BY <1>1, <1>2, PTL DEF ServicesSpec, R!Spec

\* And the receipts are true in the composition that the runs check.
THEOREM ReceiptsAreTrueAmongServices == ServicesSpec => []ReceiptIsTrue
BY ReceiptsAmongServices, ReceiptsAreTrue, PTL

-----------------------------------------------------------------------------
(***************************************************************************)
(* The requests of a voice call: RequestsAreHonest.  What a caller is told *)
(* depends on how far the handler of a request is (LaneOf), on which of    *)
(* the bridge's sets it is in (LedgerOf) and on which run has its row      *)
(* (AdmittedOf); and a request that is pending has somebody who observes   *)
(* the chat, since an observer is given up only when nothing is pending    *)
(* and never comes back (Observers).                                       *)
(***************************************************************************)

VoiceTypes ==
    /\ vlane \in [Messages -> {"none", "queued", "lock", "submit", "accepted", "refused", "done"}]
    /\ vobserved \subseteq Messages /\ vsubmitted \subseteq Messages
    /\ vpending \subseteq Messages /\ vterminal \subseteq Messages
    /\ vowner \in [Messages -> Nat] /\ vclaim \in [Messages -> Nat]
    /\ vstatus \in [Messages -> {"none", "queued", "working"} \cup V!Final]
    /\ vrow \in [Messages -> {"none", "queued", "claimed", "bound", "gone"} \cup V!Outcomes]
    /\ vrun \in Nat /\ vruns \in Nat /\ voutcome \in {"none"} \cup V!Outcomes
    /\ vattached \in BOOLEAN /\ vclosed \in BOOLEAN /\ vfailed \in BOOLEAN /\ vdetached \in BOOLEAN
    /\ vheard \in BOOLEAN /\ vchat \in BOOLEAN

\* A request has a row once its submission was committed, and not before.
LaneOf(q) ==
    /\ vlane[q] \in {"none", "queued", "lock", "submit", "refused"} => vrow[q] = "none"
    /\ vlane[q] = "accepted" => vrow[q] # "none"
    /\ vlane[q] = "submit" /\ vchat => q \in vpending
    /\ vlane[q] \in {"none", "queued", "lock"} => q \notin vpending
    /\ vlane[q] # "none" => q \in vobserved \/ vdetached
    /\ vlane[q] \in {"submit", "refused"} => q \in vobserved
    /\ q \in vsubmitted => vrow[q] # "none"

\* Whatever has a row is pending, or settled: never both, never neither.
LedgerOf(q) ==
    /\ q \in vpending => q \in vobserved /\ q \notin vterminal
    /\ vrow[q] # "none" => q \in vpending \/ q \in vterminal
    /\ vstatus[q] \in V!Final => q \in vterminal
    /\ vstatus[q] = "deleted" => ~vchat

\* The run that the bridge takes for a request's own has its row, and a pending
\* request that was admitted is known to be that run's.
AdmittedOf(q) ==
    /\ vrow[q] = "claimed" => vrun # 0 /\ vclaim[q] = vrun
    /\ vrow[q] = "bound" => vrun # 0 /\ vclaim[q] = vrun /\ voutcome = "none"
    /\ vowner[q] <= vruns
    /\ vrun # 0 /\ vowner[q] = vrun =>
          vclaim[q] = vrun /\ vrow[q] = IF voutcome = "none" THEN "bound" ELSE voutcome
    /\ q \in vpending /\ vrow[q] \in {"bound"} \cup V!Outcomes => vrun # 0 /\ vowner[q] = vrun

VerdictOf(q) ==
    /\ vstatus[q] \in V!Outcomes => vrow[q] = vstatus[q]
    /\ vstatus[q] \in {"refused", "unentered"} => vrow[q] = "none"
    /\ vstatus[q] = "deleted" => vrow[q] \in {"none", "gone"}

Observers ==
    /\ vclosed => vfailed \/ vdetached
    /\ ~vheard => vfailed \/ vdetached
    /\ ~vattached => vdetached
    /\ vpending # {} => vheard

Settled == \A q \in Messages : ~vattached /\ q \in vobserved /\ q \notin vterminal => q \in vpending

Requested == \A q \in Messages : LaneOf(q) /\ LedgerOf(q) /\ AdmittedOf(q) /\ VerdictOf(q)

VoiceInv == VoiceTypes /\ vrun <= vruns /\ Requested /\ Observers /\ Settled

\* What a report changes: the status of its requests that were not final.
LEMMA Reported ==
    ASSUME VoiceTypes, NEW qs \in SUBSET Messages, NEW s \in {"queued", "working"} \cup V!Final, V!Report(qs, s)
    PROVE  /\ vstatus' \in [Messages -> {"none", "queued", "working"} \cup V!Final] /\ vterminal' \subseteq Messages
           /\ \A q \in Messages : vstatus'[q] \in {vstatus[q], s}
           /\ \A q \in Messages : q \notin qs \/ vstatus[q] \in V!Final => vstatus'[q] = vstatus[q]
           /\ s \in V!Final => vterminal' = vterminal \cup qs
           /\ s \notin V!Final => vterminal' = vterminal
BY DEF VoiceTypes, V!Report, V!Shown, V!Final, V!Outcomes, V!Refusals

\* Updates that overflow their buffer, or that do not, withdraw the observer
\* only when nothing is pending.
LEMMA Buffered ==
    ASSUME VoiceTypes, NEW n, V!Buffer(n)
    PROVE  /\ vclosed' \in BOOLEAN /\ vfailed' \in BOOLEAN
           /\ vclosed' => vclosed \/ vfailed'
           /\ vfailed => vfailed'
<1>1. V!Overflows(n) \in BOOLEAN
      BY DEF V!Overflows
<1> QED BY <1>1 DEF VoiceTypes, V!Buffer

LEMMA Appended ==
    ASSUME VoiceTypes, NEW n, V!Append(n)
    PROVE  /\ vclosed' \in BOOLEAN /\ vfailed' \in BOOLEAN /\ vheard' \in BOOLEAN /\ vdetached' = vdetached
           /\ vclosed' => vclosed \/ vfailed'
           /\ vfailed => vfailed'
           /\ ~vheard' => ~vheard \/ (vfailed' /\ vpending' = {})
<1>1. V!Overflows(n) \in BOOLEAN /\ (V!Overflows(n) => vfailed')
      BY DEF V!Overflows, V!Append, V!Buffer, VoiceTypes
<1>2. vheard' \in BOOLEAN /\ vdetached' = vdetached /\ (~vheard' => ~vheard \/ (V!Overflows(n) /\ vpending' = {}))
      BY <1>1 DEF V!Append, VoiceTypes
<1> QED BY <1>1, <1>2, Buffered DEF V!Append

\* A step that touches the updates alone.
LEMMA UpdatesKeep ==
    ASSUME VoiceInv,
           UNCHANGED <<vlane, vpending, V!bridge, vattached, V!host>>, vdetached' = vdetached,
           vclosed' \in BOOLEAN, vfailed' \in BOOLEAN, vheard' \in BOOLEAN,
           vclosed' => vclosed \/ vfailed', vfailed => vfailed', ~vheard' => ~vheard \/ (vfailed' /\ vpending = {})
    PROVE  VoiceInv'
<1>1. VoiceTypes'
      BY DEF VoiceInv, VoiceTypes, V!bridge, V!host
<1>2. Requested'
      BY DEF VoiceInv, Requested, LaneOf, LedgerOf, AdmittedOf, VerdictOf, V!bridge, V!host
<1>3. Observers' /\ Settled' /\ vrun' <= vruns'
      BY DEF VoiceInv, VoiceTypes, Observers, Settled, V!bridge, V!host
<1> QED BY <1>1, <1>2, <1>3 DEF VoiceInv

LEMMA SendsKeep == ASSUME VoiceInv, V!Send \/ V!SendFails \/ V!Answer PROVE VoiceInv'
<1>1. VoiceTypes
      BY DEF VoiceInv
<1>2. CASE V!Answer
  <2>1. UNCHANGED <<vlane, vpending, V!bridge, vattached, V!host>> /\ V!Append(1)
        BY <1>2 DEF V!Answer
  <2> QED BY <1>1, <2>1, Appended, UpdatesKeep
<1>3. CASE V!SendFails
  <2>1. UNCHANGED <<vlane, vpending, V!bridge, vattached, V!host, vdetached>> /\ vclosed' = TRUE /\ vfailed' = TRUE
        BY <1>3 DEF V!SendFails
  <2>2. vheard' \in BOOLEAN /\ (~vheard' => ~vheard \/ vpending = {})
        BY <1>1, <1>3 DEF V!SendFails, VoiceTypes
  <2> QED BY <1>1, <2>1, <2>2, UpdatesKeep DEF VoiceTypes
<1>4. CASE V!Send
  <2>1. UNCHANGED <<vlane, vpending, V!bridge, vattached, V!host, vdetached, vclosed, vfailed, vheard>>
        BY <1>4 DEF V!Send
  <2> QED BY <1>1, <2>1, UpdatesKeep DEF VoiceTypes
<1> QED BY <1>2, <1>3, <1>4

\* A handler moves between the places where it has submitted nothing, or ends.
LEMMA LanesKeep ==
    ASSUME VoiceInv, (\E q \in Messages : V!Take(q) \/ V!Dropped(q) \/ V!Timeout(q)) \/ V!StopLanes
    PROVE  VoiceInv'
<1>1. UNCHANGED <<vpending, V!bridge, vattached, V!updates, V!host>>
      BY DEF V!Take, V!Dropped, V!Timeout, V!StopLanes
<1>2. vlane' \in [Messages -> {"none", "queued", "lock", "submit", "accepted", "refused", "done"}]
      BY DEF VoiceInv, VoiceTypes, V!Take, V!Dropped, V!Timeout, V!StopLanes
<1>3. \A q \in Messages : \/ vlane'[q] = vlane[q]
                          \/ vlane[q] = "queued" /\ vlane'[q] \in {"lock", "done"}
                          \/ vlane[q] = "lock" /\ vlane'[q] = "done"
      BY DEF VoiceInv, VoiceTypes, V!Take, V!Dropped, V!Timeout, V!StopLanes
<1>4. VoiceTypes' /\ vrun' <= vruns' /\ Observers' /\ Settled'
      BY <1>1, <1>2 DEF VoiceInv, VoiceTypes, Observers, Settled, V!bridge, V!updates, V!host
<1>5. Requested'
      BY <1>1, <1>3 DEF VoiceInv, Requested, LaneOf, LedgerOf, AdmittedOf, VerdictOf, V!bridge, V!updates, V!host
<1> QED BY <1>4, <1>5 DEF VoiceInv

LEMMA NoticeKeeps == ASSUME VoiceInv, NEW q \in Messages, V!Notice(q) PROVE VoiceInv'
<1>1. /\ VoiceTypes /\ vlane[q] = "none" /\ vrow[q] = "none" /\ q \notin vpending
      /\ UNCHANGED <<vsubmitted, vpending, vowner, vattached, V!updates, V!host>>
      BY DEF VoiceInv, Requested, LaneOf, VoiceTypes, V!Notice
<1>2. \A p \in Messages : p # q => vlane'[p] = vlane[p]
      BY <1>1 DEF VoiceTypes, V!Notice
<1>3. vlane' \in [Messages -> {"none", "queued", "lock", "submit", "accepted", "refused", "done"}]
      /\ vlane'[q] \in {"queued", "done"}
      BY <1>1 DEF VoiceTypes, V!Notice
<1>4. CASE vdetached
  <2>1. UNCHANGED <<vobserved, vstatus, vterminal>>
        BY <1>4 DEF V!Notice
  <2>2. VoiceTypes' /\ vrun' <= vruns' /\ Observers' /\ Settled'
        BY <1>1, <1>3, <2>1 DEF VoiceInv, VoiceTypes, Observers, Settled, V!updates, V!host
  <2>3. Requested'
        BY <1>1, <1>2, <1>3, <1>4, <2>1 DEF VoiceInv, Requested, LaneOf, LedgerOf, AdmittedOf, VerdictOf, V!updates, V!host
  <2> QED BY <2>2, <2>3 DEF VoiceInv
<1>5. CASE ~vdetached
  <2>1. vobserved' = vobserved \cup {q} /\ vattached
        BY <1>5 DEF V!Notice, VoiceInv, Observers
  <2>2. \/ V!Report({q}, "queued")
        \/ vstatus' = [vstatus EXCEPT ![q] = "refused"] /\ vterminal' = vterminal \cup {q}
        BY <1>5 DEF V!Notice
  <2>3. /\ vstatus' \in [Messages -> {"none", "queued", "working"} \cup V!Final] /\ vterminal' \subseteq Messages
        /\ \A p \in Messages : p # q => vstatus'[p] = vstatus[p]
        /\ vterminal' = vterminal \/ vterminal' = vterminal \cup {q}
        /\ vstatus'[q] = vstatus[q] \/ vstatus'[q] = "queued"
              \/ (vstatus'[q] = "refused" /\ vterminal' = vterminal \cup {q})
    <3>1. "queued" \in {"queued", "working"} \cup V!Final /\ "queued" \notin V!Final /\ {q} \in SUBSET Messages
          BY DEF V!Final, V!Outcomes, V!Refusals
    <3>2. CASE V!Report({q}, "queued")
          BY <1>1, <3>1, <3>2, Reported
    <3>3. CASE vstatus' = [vstatus EXCEPT ![q] = "refused"] /\ vterminal' = vterminal \cup {q}
          BY <1>1, <3>3 DEF VoiceTypes, V!Final, V!Refusals
    <3> QED BY <2>2, <3>2, <3>3
  <2>4. VoiceTypes' /\ vrun' <= vruns' /\ Observers' /\ Settled'
        BY <1>1, <1>3, <2>1, <2>3 DEF VoiceInv, VoiceTypes, Observers, Settled, V!updates, V!host
  <2>5. ASSUME NEW p \in Messages PROVE LaneOf(p)' /\ AdmittedOf(p)'
        BY <1>1, <1>2, <1>3, <2>1, <2>5 DEF VoiceInv, Requested, LaneOf, AdmittedOf, V!updates, V!host
  <2>6. ASSUME NEW p \in Messages PROVE LedgerOf(p)' /\ VerdictOf(p)'
        BY <1>1, <2>1, <2>3, <2>6 DEF VoiceInv, Requested, LedgerOf, VerdictOf, V!updates, V!host, V!Final, V!Outcomes, V!Refusals
  <2> QED BY <2>4, <2>5, <2>6 DEF VoiceInv, Requested
<1> QED BY <1>4, <1>5

LEMMA AdmitKeeps == ASSUME VoiceInv, NEW q \in Messages, V!Admit(q) PROVE VoiceInv'
<1>1. /\ VoiceTypes /\ vlane[q] = "lock" /\ ~vdetached /\ ~vfailed /\ q \notin vterminal
      /\ q \in vobserved /\ vrow[q] = "none" /\ vheard = TRUE
      /\ vlane' = [vlane EXCEPT ![q] = "submit"] /\ vpending' = vpending \cup {q}
      /\ UNCHANGED <<V!bridge, vattached, V!updates, V!host>>
      BY DEF VoiceInv, Requested, LaneOf, Observers, VoiceTypes, V!Admit, V!MayAdmit
<1>2. VoiceTypes' /\ vrun' <= vruns' /\ Observers' /\ Settled'
      BY <1>1 DEF VoiceInv, VoiceTypes, Observers, Settled, V!bridge, V!updates, V!host
<1>3. \A p \in Messages : p # q => vlane'[p] = vlane[p] /\ (p \in vpending' <=> p \in vpending)
      BY <1>1 DEF VoiceTypes
<1>4. vlane'[q] = "submit" /\ q \in vpending'
      BY <1>1 DEF VoiceTypes
<1>5. ASSUME NEW p \in Messages PROVE LaneOf(p)' /\ LedgerOf(p)' /\ AdmittedOf(p)' /\ VerdictOf(p)'
  <2>1. LaneOf(p) /\ LedgerOf(p) /\ AdmittedOf(p) /\ VerdictOf(p)
        BY DEF VoiceInv, Requested
  <2>2. CASE p # q
        BY <1>1, <1>3, <2>1, <2>2 DEF LaneOf, LedgerOf, AdmittedOf, VerdictOf, V!bridge, V!updates, V!host
  <2>3. CASE p = q
        BY <1>1, <1>4, <2>1, <2>3 DEF LaneOf, LedgerOf, AdmittedOf, VerdictOf, V!bridge, V!updates, V!host, V!Outcomes
  <2> QED BY <2>2, <2>3
<1> QED BY <1>2, <1>5 DEF VoiceInv, Requested

LEMMA CommitKeeps == ASSUME VoiceInv, NEW q \in Messages, V!Commit(q) PROVE VoiceInv'
<1>1. /\ VoiceTypes /\ vlane[q] = "submit" /\ vchat = TRUE /\ vrow[q] = "none" /\ q \in vpending
      /\ vlane' = [vlane EXCEPT ![q] = "accepted"] /\ vrow' = [vrow EXCEPT ![q] = "queued"]
      /\ UNCHANGED <<vpending, V!bridge, vattached, V!updates, vclaim, vrun, voutcome, vruns, vchat>>
      BY DEF VoiceInv, Requested, LaneOf, VoiceTypes, V!Commit
<1>2. q \notin vterminal /\ vstatus[q] \notin V!Final
      BY <1>1 DEF VoiceInv, Requested, LedgerOf
<1>3. VoiceTypes' /\ vrun' <= vruns' /\ Observers' /\ Settled'
      BY <1>1 DEF VoiceInv, VoiceTypes, Observers, Settled, V!bridge, V!updates
<1>4. \A p \in Messages : p # q => vlane'[p] = vlane[p] /\ vrow'[p] = vrow[p]
      BY <1>1 DEF VoiceTypes
<1>5. vlane'[q] = "accepted" /\ vrow'[q] = "queued"
      BY <1>1 DEF VoiceTypes
<1>6. ASSUME NEW p \in Messages PROVE LaneOf(p)' /\ LedgerOf(p)' /\ AdmittedOf(p)' /\ VerdictOf(p)'
  <2>1. LaneOf(p) /\ LedgerOf(p) /\ AdmittedOf(p) /\ VerdictOf(p)
        BY DEF VoiceInv, Requested
  <2>2. CASE p # q
        BY <1>1, <1>4, <2>1, <2>2 DEF LaneOf, LedgerOf, AdmittedOf, VerdictOf, V!bridge, V!updates
  <2>3. CASE p = q
    <3>1. vrun # 0 /\ vowner[q] = vrun => vrow[q] = IF voutcome = "none" THEN "bound" ELSE voutcome
          BY <2>1, <2>3 DEF AdmittedOf
    <3>2. ~(vrun # 0 /\ vowner[q] = vrun)
          BY <1>1, <3>1 DEF VoiceTypes, V!Outcomes
    <3> QED BY <1>1, <1>2, <1>5, <2>1, <2>3, <3>2
            DEF LaneOf, LedgerOf, AdmittedOf, VerdictOf, V!bridge, V!updates, V!Final, V!Outcomes, V!Refusals
  <2> QED BY <2>2, <2>3
<1> QED BY <1>3, <1>6 DEF VoiceInv, Requested

LEMMA RefusedKeeps == ASSUME VoiceInv, NEW q \in Messages, V!Refused(q) PROVE VoiceInv'
<1>1. /\ VoiceTypes /\ vlane[q] = "submit" /\ vlane' = [vlane EXCEPT ![q] = "refused"]
      /\ UNCHANGED <<vpending, V!bridge, vattached, V!updates, V!host>>
      BY DEF VoiceInv, V!Refused
<1>2. VoiceTypes' /\ vrun' <= vruns' /\ Observers' /\ Settled'
      BY <1>1 DEF VoiceInv, VoiceTypes, Observers, Settled, V!bridge, V!updates, V!host
<1>3. \A p \in Messages : vlane'[p] = vlane[p] \/ (vlane[p] = "submit" /\ vlane'[p] = "refused")
      BY <1>1 DEF VoiceTypes
<1>4. Requested'
      BY <1>1, <1>3 DEF VoiceInv, Requested, LaneOf, LedgerOf, AdmittedOf, VerdictOf, V!bridge, V!updates, V!host
<1> QED BY <1>2, <1>4 DEF VoiceInv

LEMMA AcceptedKeeps == ASSUME VoiceInv, NEW q \in Messages, V!Accept(q) PROVE VoiceInv'
<1>1. /\ VoiceTypes /\ vlane[q] = "accepted" /\ vlane' = [vlane EXCEPT ![q] = "done"] /\ vrow[q] # "none"
      /\ vsubmitted' = vsubmitted \/ vsubmitted' = vsubmitted \cup {q}
      /\ V!Append(1) \/ UNCHANGED V!updates
      /\ UNCHANGED <<vpending, vobserved, vterminal, vowner, vstatus, vattached, V!host>>
      BY DEF VoiceInv, Requested, LaneOf, V!Accept
<1>2. /\ vclosed' \in BOOLEAN /\ vfailed' \in BOOLEAN /\ vheard' \in BOOLEAN /\ vdetached' = vdetached
      /\ vclosed' => vclosed \/ vfailed'
      /\ vfailed => vfailed'
      /\ ~vheard' => ~vheard \/ (vfailed' /\ vpending' = {})
  <2>1. CASE V!Append(1)
        BY <1>1, <2>1, Appended
  <2>2. CASE UNCHANGED V!updates
        BY <1>1, <2>2 DEF V!updates, VoiceTypes
  <2> QED BY <1>1, <2>1, <2>2
<1>3. VoiceTypes' /\ vrun' <= vruns' /\ Observers' /\ Settled'
      BY <1>1, <1>2 DEF VoiceInv, VoiceTypes, Observers, Settled, V!host
<1>4. \A p \in Messages : vlane'[p] = vlane[p] \/ (p = q /\ vlane[p] = "accepted" /\ vlane'[p] = "done")
      BY <1>1 DEF VoiceTypes
<1>5. Requested'
      BY <1>1, <1>2, <1>4 DEF VoiceInv, Requested, LaneOf, LedgerOf, AdmittedOf, VerdictOf, V!host
<1> QED BY <1>3, <1>5 DEF VoiceInv

\* A handler ends without a submission, and the caller is told so: the request
\* is no longer pending, and it has no row.
LEMMA TurnedAway ==
    ASSUME VoiceInv, NEW q \in Messages, q \in vobserved, vrow[q] = "none",
           V!Report({q}, "refused"), V!Append(1),
           vlane' = [vlane EXCEPT ![q] = "done"], vpending' = vpending \ {q},
           UNCHANGED <<vobserved, vsubmitted, vowner, vattached, V!host>>
    PROVE  VoiceInv'
<1>1. VoiceTypes /\ "refused" \in V!Final /\ "refused" \in {"queued", "working"} \cup V!Final /\ {q} \in SUBSET Messages
      BY DEF VoiceInv, V!Final, V!Refusals
<1>2. /\ vstatus' \in [Messages -> {"none", "queued", "working"} \cup V!Final] /\ vterminal' = vterminal \cup {q}
      /\ \A p \in Messages : p # q => vstatus'[p] = vstatus[p]
      /\ vstatus'[q] \in {vstatus[q], "refused"}
      BY <1>1, Reported
<1>3. /\ vclosed' \in BOOLEAN /\ vfailed' \in BOOLEAN /\ vheard' \in BOOLEAN /\ vdetached' = vdetached
      /\ vclosed' => vclosed \/ vfailed'
      /\ vfailed => vfailed'
      /\ ~vheard' => ~vheard \/ (vfailed' /\ vpending' = {})
      BY <1>1, Appended
<1>4. VoiceTypes' /\ vrun' <= vruns' /\ Observers' /\ Settled'
      BY <1>1, <1>2, <1>3 DEF VoiceInv, VoiceTypes, Observers, Settled, V!host
<1>5. /\ \A p \in Messages : p # q => vlane'[p] = vlane[p]
      /\ vlane'[q] = "done"
      BY <1>1 DEF VoiceTypes
<1>6. ASSUME NEW p \in Messages PROVE LaneOf(p)' /\ LedgerOf(p)' /\ AdmittedOf(p)' /\ VerdictOf(p)'
  <2>1. LaneOf(p) /\ LedgerOf(p) /\ AdmittedOf(p) /\ VerdictOf(p)
        BY DEF VoiceInv, Requested
  <2>2. LaneOf(p)'
        BY <1>3, <1>5, <2>1 DEF LaneOf, V!host
  <2>3. LedgerOf(p)'
        BY <1>1, <1>2, <2>1 DEF LedgerOf, V!host
  <2>4. AdmittedOf(p)'
        BY <2>1 DEF AdmittedOf, V!host
  <2>5. VerdictOf(p)'
        BY <1>2, <2>1 DEF VerdictOf, V!host, V!Outcomes
  <2> QED BY <2>2, <2>3, <2>4, <2>5
<1> QED BY <1>4, <1>6 DEF VoiceInv, Requested

LEMMA TurnAwayKeeps == ASSUME VoiceInv, NEW q \in Messages, V!TurnAway(q) \/ V!Refuse(q) PROVE VoiceInv'
<1>1. CASE V!Refuse(q)
  <2>1. vlane[q] = "refused" /\ vrow[q] = "none" /\ q \in vobserved
        BY <1>1 DEF V!Refuse, VoiceInv, Requested, LaneOf
  <2> QED BY <1>1, <2>1, TurnedAway DEF V!Refuse
<1>2. CASE V!TurnAway(q)
  <2>1. /\ VoiceTypes /\ vlane[q] = "lock" /\ vrow[q] = "none" /\ q \notin vpending /\ vpending' = vpending
        /\ q \in vobserved \/ vdetached
        /\ vlane' = [vlane EXCEPT ![q] = "done"]
        /\ UNCHANGED <<vobserved, vsubmitted, vowner, vattached, V!host>>
        BY <1>2 DEF V!TurnAway, V!MayAdmit, VoiceInv, Requested, LaneOf
  <2>2. CASE V!Report({q}, "refused") /\ V!Append(1) /\ ~vdetached
    <3>1. vpending' = vpending \ {q} /\ q \in vobserved
          BY <2>1, <2>2
    <3> QED BY <2>1, <2>2, <3>1, TurnedAway
  <2>3. CASE UNCHANGED <<vstatus, vterminal, V!updates>>
    <3>1. VoiceTypes' /\ vrun' <= vruns' /\ Observers' /\ Settled'
          BY <2>1, <2>3 DEF VoiceInv, VoiceTypes, Observers, Settled, V!updates, V!host
    <3>2. \A p \in Messages : vlane'[p] = vlane[p] \/ (vlane[p] = "lock" /\ vlane'[p] = "done")
          BY <2>1 DEF VoiceTypes
    <3>3. Requested'
          BY <2>1, <2>3, <3>2 DEF VoiceInv, Requested, LaneOf, LedgerOf, AdmittedOf, VerdictOf, V!updates, V!host
    <3> QED BY <3>1, <3>3 DEF VoiceInv
  <2> QED BY <1>2, <2>2, <2>3 DEF V!TurnAway
<1> QED BY <1>1, <1>2

\* The end of the call gives up what was never submitted, and nothing else.
LEMMA CloseKeeps == ASSUME VoiceInv, V!Close PROVE VoiceInv'
<1> DEFINE qs == vobserved \ (vsubmitted \cup vpending \cup vterminal)
<1>1. /\ VoiceTypes /\ V!Report(qs, "unentered") /\ qs \in SUBSET Messages
      /\ "unentered" \in V!Final /\ "unentered" \in {"queued", "working"} \cup V!Final
      /\ vattached' = FALSE /\ vclosed' = TRUE /\ vdetached' = TRUE
      /\ UNCHANGED <<vlane, vobserved, vsubmitted, vpending, vowner, vfailed, V!host>>
      BY DEF VoiceInv, VoiceTypes, V!Close, V!Detach, V!Final, V!Refusals
<1>2. vheard' \in BOOLEAN /\ (vpending # {} => vheard' = vheard)
      BY <1>1 DEF V!Close, V!Detach, VoiceTypes
<1>3. \A q \in qs : vrow[q] = "none"
      BY DEF VoiceInv, VoiceTypes, Requested, LedgerOf
<1>4. \A q \in vsubmitted : q \in vpending \/ q \in vterminal
      BY DEF VoiceInv, VoiceTypes, Requested, LaneOf, LedgerOf
<1>5. /\ vstatus' \in [Messages -> {"none", "queued", "working"} \cup V!Final] /\ vterminal' = vterminal \cup qs
      /\ \A q \in Messages : q \notin qs => vstatus'[q] = vstatus[q]
      /\ \A q \in Messages : vstatus'[q] \in {vstatus[q], "unentered"}
  <2> HIDE DEF qs
  <2> QED BY <1>1, Reported
<1>6. VoiceTypes' /\ vrun' <= vruns'
      BY <1>1, <1>2, <1>5 DEF VoiceInv, VoiceTypes, V!host
<1>7. Observers'
      BY <1>1, <1>2 DEF VoiceInv, Observers
<1>8. Settled'
      BY <1>1, <1>4, <1>5 DEF Settled
<1>9. ASSUME NEW q \in Messages PROVE LaneOf(q)' /\ LedgerOf(q)' /\ AdmittedOf(q)' /\ VerdictOf(q)'
  <2>1. LaneOf(q) /\ LedgerOf(q) /\ AdmittedOf(q) /\ VerdictOf(q)
        BY DEF VoiceInv, Requested
  <2>2. LaneOf(q)' /\ AdmittedOf(q)'
        BY <1>1, <2>1 DEF LaneOf, AdmittedOf, V!host
  <2>3. LedgerOf(q)'
        BY <1>1, <1>5, <2>1 DEF LedgerOf, V!host
  <2>4. VerdictOf(q)'
        BY <1>1, <1>3, <1>5, <2>1 DEF VerdictOf, V!host, V!Outcomes
  <2> QED BY <2>2, <2>3, <2>4
<1> QED BY <1>6, <1>7, <1>8, <1>9 DEF VoiceInv, Requested

\* With the chat goes what is pending; no run works on it.
LEMMA DeleteKeeps == ASSUME VoiceInv, V!Delete PROVE VoiceInv'
<1>1. /\ VoiceTypes /\ vrun = 0 /\ vchat' = FALSE
      /\ vrow' = [q \in Messages |-> IF vrow[q] = "queued" THEN "gone" ELSE vrow[q]]
      /\ UNCHANGED <<vlane, vobserved, vsubmitted, vattached, vfailed, vclaim, vrun, voutcome, vruns>>
      BY DEF VoiceInv, V!Delete
<1>2. vrow' \in [Messages -> {"none", "queued", "claimed", "bound", "gone"} \cup V!Outcomes]
      BY <1>1 DEF VoiceTypes
<1>3. \A q \in Messages : vrow'[q] = vrow[q] \/ (vrow[q] = "queued" /\ vrow'[q] = "gone")
      BY <1>1
<1>4. \A q \in Messages : vrow[q] \notin {"claimed", "bound"} /\ (q \in vpending => vrow[q] \notin V!Outcomes)
      BY <1>1 DEF VoiceInv, Requested, AdmittedOf
<1>5. \A q \in vpending : vrow'[q] \in {"none", "gone"}
      BY <1>1, <1>3, <1>4 DEF VoiceTypes
<1>6. CASE vheard
  <2>1. /\ V!Report(vpending, "deleted") /\ vpending' = {} /\ vclosed' = TRUE /\ vdetached' = TRUE /\ vheard' = FALSE
        /\ vowner' = [q \in Messages |-> IF q \in vpending THEN 0 ELSE vowner[q]]
        /\ "deleted" \in V!Final /\ "deleted" \in {"queued", "working"} \cup V!Final /\ vpending \in SUBSET Messages
        BY <1>1, <1>6 DEF V!Delete, V!Invalidate, V!Final, V!Refusals, VoiceTypes
  <2>2. /\ vstatus' \in [Messages -> {"none", "queued", "working"} \cup V!Final] /\ vterminal' = vterminal \cup vpending
        /\ \A q \in Messages : q \notin vpending => vstatus'[q] = vstatus[q]
        /\ \A q \in Messages : vstatus'[q] \in {vstatus[q], "deleted"}
        BY <1>1, <2>1, Reported
  <2>3. vowner' \in [Messages -> Nat] /\ \A q \in Messages : vowner'[q] = vowner[q] \/ vowner'[q] = 0
        BY <1>1, <2>1 DEF VoiceTypes
  <2>4. VoiceTypes' /\ vrun' <= vruns' /\ Observers'
        BY <1>1, <1>2, <2>1, <2>2, <2>3 DEF VoiceInv, VoiceTypes, Observers
  <2>5. Settled'
        BY <1>1, <2>1, <2>2 DEF VoiceInv, Settled
  <2>6. ASSUME NEW q \in Messages PROVE LaneOf(q)' /\ LedgerOf(q)' /\ AdmittedOf(q)' /\ VerdictOf(q)'
    <3>1. LaneOf(q) /\ LedgerOf(q) /\ AdmittedOf(q) /\ VerdictOf(q)
          BY DEF VoiceInv, Requested
    <3>2. LaneOf(q)'
          BY <1>1, <1>3, <2>1, <3>1 DEF LaneOf
    <3>3. LedgerOf(q)'
          BY <1>1, <1>3, <2>1, <2>2, <3>1 DEF LedgerOf
    <3>4. AdmittedOf(q)'
          BY <1>1, <1>3, <1>4, <2>1, <2>3, <3>1 DEF AdmittedOf, VoiceTypes
    <3>5. VerdictOf(q)'
          BY <1>3, <1>5, <2>2, <3>1 DEF VerdictOf, LedgerOf, V!Final, V!Outcomes, V!Refusals
    <3> QED BY <3>2, <3>3, <3>4, <3>5
  <2> QED BY <2>4, <2>5, <2>6 DEF VoiceInv, Requested
<1>7. CASE ~vheard
  <2>1. vpending = {} /\ UNCHANGED <<vclosed, vdetached, vheard, vstatus, vterminal, vpending, vowner>>
        BY <1>7 DEF VoiceInv, Observers, V!Delete
  <2>2. VoiceTypes' /\ vrun' <= vruns' /\ Observers' /\ Settled'
        BY <1>1, <1>2, <2>1 DEF VoiceInv, VoiceTypes, Observers, Settled
  <2>3. ASSUME NEW q \in Messages PROVE LaneOf(q)' /\ LedgerOf(q)' /\ AdmittedOf(q)' /\ VerdictOf(q)'
    <3>1. LaneOf(q) /\ LedgerOf(q) /\ AdmittedOf(q) /\ VerdictOf(q)
          BY DEF VoiceInv, Requested
    <3>2. LaneOf(q)' /\ LedgerOf(q)'
          BY <1>1, <1>3, <2>1, <3>1 DEF LaneOf, LedgerOf
    <3>3. AdmittedOf(q)'
          BY <1>1, <1>3, <1>4, <2>1, <3>1 DEF AdmittedOf
    <3>4. VerdictOf(q)'
          BY <1>3, <2>1, <3>1 DEF VerdictOf, V!Outcomes
    <3> QED BY <3>2, <3>3, <3>4
  <2> QED BY <2>2, <2>3 DEF VoiceInv, Requested
<1> QED BY <1>6, <1>7

\* A run takes a row, of its own accord or at a boundary, or gives one back.
LEMMA BeginsKeep ==
    ASSUME VoiceInv, (\E q \in Messages : V!BeginWith(q)) \/ V!BeginOther
    PROVE  VoiceInv'
<1>1. /\ VoiceTypes /\ vrun = 0 /\ vrun' = vruns + 1 /\ vruns' = vruns + 1 /\ voutcome' = "none"
      /\ UNCHANGED <<vlane, vpending, V!bridge, vattached, V!updates, vchat>>
      BY DEF VoiceInv, V!BeginWith, V!BeginOther, V!Begin
<1>2. /\ vrow' \in [Messages -> {"none", "queued", "claimed", "bound", "gone"} \cup V!Outcomes]
      /\ vclaim' \in [Messages -> Nat]
      BY <1>1 DEF VoiceTypes, V!BeginWith, V!BeginOther
<1>3. \A q \in Messages : \/ vrow'[q] = vrow[q] /\ vclaim'[q] = vclaim[q]
                          \/ vrow[q] = "queued" /\ vrow'[q] = "claimed" /\ vclaim'[q] = vrun'
      BY <1>1 DEF VoiceTypes, V!BeginWith, V!BeginOther
<1>4. VoiceTypes' /\ vrun' <= vruns' /\ Observers' /\ Settled'
      BY <1>1, <1>2 DEF VoiceInv, VoiceTypes, Observers, Settled, V!bridge, V!updates
<1>5. ASSUME NEW q \in Messages PROVE LaneOf(q)' /\ LedgerOf(q)' /\ AdmittedOf(q)' /\ VerdictOf(q)'
  <2>1. LaneOf(q) /\ LedgerOf(q) /\ AdmittedOf(q) /\ VerdictOf(q)
        BY DEF VoiceInv, Requested
  <2>2. LaneOf(q)' /\ LedgerOf(q)'
        BY <1>1, <1>3, <2>1 DEF LaneOf, LedgerOf, V!bridge, V!updates
  <2>3. vowner[q] \in Nat /\ vruns \in Nat /\ vowner'[q] = vowner[q] /\ vpending' = vpending
        BY <1>1 DEF VoiceTypes, V!bridge
  <2>4. vowner'[q] <= vruns' /\ vowner'[q] # vrun' /\ vrun' # 0
        BY <1>1, <2>1, <2>3 DEF AdmittedOf
  <2>5. vrow[q] \notin {"claimed", "bound"} /\ ~(q \in vpending /\ vrow[q] \in {"bound"} \cup V!Outcomes)
        BY <1>1, <2>1 DEF AdmittedOf
  <2>6. AdmittedOf(q)'
        BY <1>3, <2>3, <2>4, <2>5 DEF AdmittedOf, V!Outcomes
  <2>7. VerdictOf(q)'
        BY <1>1, <1>3, <2>1 DEF VerdictOf, V!bridge, V!Outcomes
  <2> QED BY <2>2, <2>6, <2>7
<1> QED BY <1>4, <1>5 DEF VoiceInv, Requested

LEMMA ClaimsKeep == ASSUME VoiceInv, NEW q \in Messages, V!Pull(q) \/ V!Requeue(q) PROVE VoiceInv'
<1>1. /\ VoiceTypes
      /\ UNCHANGED <<vlane, vpending, V!bridge, vattached, V!updates, vrun, voutcome, vruns, vchat>>
      BY DEF VoiceInv, V!Pull, V!Requeue
<1>2. /\ vrow' \in [Messages -> {"none", "queued", "claimed", "bound", "gone"} \cup V!Outcomes]
      /\ vclaim' \in [Messages -> Nat]
      BY <1>1 DEF VoiceTypes, V!Pull, V!Requeue
<1>3. \A p \in Messages : \/ vrow'[p] = vrow[p] /\ vclaim'[p] = vclaim[p]
                          \/ vrow[p] = "queued" /\ vrow'[p] = "claimed" /\ vclaim'[p] = vrun /\ vrun # 0
                          \/ vrow[p] = "claimed" /\ vrow'[p] = "queued"
      BY <1>1 DEF VoiceTypes, V!Pull, V!Requeue
<1>4. VoiceTypes' /\ vrun' <= vruns' /\ Observers' /\ Settled'
      BY <1>1, <1>2 DEF VoiceInv, VoiceTypes, Observers, Settled, V!bridge, V!updates
<1>5. ASSUME NEW p \in Messages PROVE LaneOf(p)' /\ LedgerOf(p)' /\ AdmittedOf(p)' /\ VerdictOf(p)'
  <2>1. LaneOf(p) /\ LedgerOf(p) /\ AdmittedOf(p) /\ VerdictOf(p)
        BY DEF VoiceInv, Requested
  <2>2. LaneOf(p)' /\ LedgerOf(p)'
        BY <1>1, <1>3, <2>1 DEF LaneOf, LedgerOf, V!bridge, V!updates
  <2>3. voutcome \in {"none"} \cup V!Outcomes /\ vowner' = vowner
        BY <1>1 DEF VoiceTypes, V!bridge
  <2>4. AdmittedOf(p)'
        BY <1>1, <1>3, <2>1, <2>3 DEF AdmittedOf, V!Outcomes
  <2>5. VerdictOf(p)'
        BY <1>1, <1>3, <2>1 DEF VerdictOf, V!bridge, V!Outcomes
  <2> QED BY <2>2, <2>4, <2>5
<1> QED BY <1>4, <1>5 DEF VoiceInv, Requested

\* A run admits a request: whoever still waits for it hears of the run.
LEMMA BindKeeps == ASSUME VoiceInv, NEW q \in Messages, V!Bind(q) PROVE VoiceInv'
<1>1. /\ VoiceTypes /\ vrow[q] = "claimed" /\ voutcome = "none" /\ vrow' = [vrow EXCEPT ![q] = "bound"]
      /\ vheard' = V!Hears
      /\ UNCHANGED <<vlane, vobserved, vsubmitted, vpending, vattached, vclosed, vfailed, vdetached,
                     vclaim, vrun, voutcome, vruns, vchat>>
      BY DEF VoiceInv, V!Bind
<1>2. vrun # 0 /\ vclaim[q] = vrun /\ vrun <= vruns
      BY <1>1 DEF VoiceInv, Requested, AdmittedOf
<1>3. vrow'[q] = "bound" /\ \A p \in Messages : p # q => vrow'[p] = vrow[p]
      BY <1>1 DEF VoiceTypes
<1>4. vheard' \in BOOLEAN /\ (vpending # {} => vheard' = TRUE) /\ (~vheard' => vfailed \/ vdetached)
      BY <1>1 DEF V!Hears, VoiceInv, Observers, VoiceTypes
<1>5. q \in vpending => q \in vobserved /\ V!Hears
      BY <1>1, <1>4 DEF VoiceInv, Requested, LedgerOf
<1>6. /\ vstatus' \in [Messages -> {"none", "queued", "working"} \cup V!Final] /\ vterminal' = vterminal
      /\ \A p \in Messages : vstatus'[p] \in {vstatus[p], "working"}
      /\ vowner' \in [Messages -> Nat]
      /\ \A p \in Messages : p # q => vowner'[p] = vowner[p]
      /\ vowner'[q] = vrun \/ (q \notin vpending /\ vowner'[q] = vowner[q])
  <2>1. CASE V!Hears /\ q \in vobserved
    <3>1. V!Report({q}, "working") /\ vowner' = [vowner EXCEPT ![q] = vrun]
          BY <2>1 DEF V!Bind
    <3>2. "working" \in {"queued", "working"} \cup V!Final /\ "working" \notin V!Final /\ {q} \in SUBSET Messages
          BY DEF V!Final, V!Outcomes, V!Refusals
    <3>3. /\ vstatus' \in [Messages -> {"none", "queued", "working"} \cup V!Final] /\ vterminal' = vterminal
          /\ \A p \in Messages : vstatus'[p] \in {vstatus[p], "working"}
          BY <1>1, <3>1, <3>2, Reported
    <3> QED BY <1>1, <3>1, <3>3 DEF VoiceTypes
  <2>2. CASE ~(V!Hears /\ q \in vobserved)
        BY <1>1, <1>5, <2>2 DEF V!Bind, VoiceTypes
  <2> QED BY <2>1, <2>2
<1>7. VoiceTypes' /\ vrun' <= vruns' /\ Settled'
      BY <1>1, <1>4, <1>6 DEF VoiceInv, VoiceTypes, Settled
<1>8. Observers'
      BY <1>1, <1>4 DEF VoiceInv, Observers
<1>9. ASSUME NEW p \in Messages PROVE LaneOf(p)' /\ LedgerOf(p)' /\ AdmittedOf(p)' /\ VerdictOf(p)'
  <2>1. LaneOf(p) /\ LedgerOf(p) /\ AdmittedOf(p) /\ VerdictOf(p)
        BY DEF VoiceInv, Requested
  <2>2. LaneOf(p)'
        BY <1>1, <1>3, <2>1 DEF LaneOf
  <2>3. LedgerOf(p)'
        BY <1>1, <1>3, <1>6, <2>1 DEF LedgerOf, V!Final, V!Outcomes, V!Refusals
  <2>4. AdmittedOf(p)'
        BY <1>1, <1>2, <1>3, <1>6, <2>1 DEF AdmittedOf
  <2>5. VerdictOf(p)'
        BY <1>1, <1>3, <1>6, <2>1 DEF VerdictOf, V!Outcomes
  <2> QED BY <2>2, <2>3, <2>4, <2>5
<1> QED BY <1>7, <1>8, <1>9 DEF VoiceInv, Requested

LEMMA EndKeeps == ASSUME VoiceInv, NEW o \in V!Outcomes, V!End(o) PROVE VoiceInv'
<1>1. /\ VoiceTypes /\ vrun # 0 /\ voutcome = "none" /\ voutcome' = o /\ o # "none"
      /\ vrow' = [q \in Messages |-> IF vrow[q] = "bound" /\ vclaim[q] = vrun THEN o ELSE vrow[q]]
      /\ UNCHANGED <<vlane, vpending, V!bridge, vattached, V!updates, vclaim, vrun, vruns, vchat>>
      BY DEF VoiceInv, V!End, V!Outcomes
<1>2. vrow' \in [Messages -> {"none", "queued", "claimed", "bound", "gone"} \cup V!Outcomes]
      BY <1>1 DEF VoiceTypes
<1>3. VoiceTypes' /\ vrun' <= vruns' /\ Observers' /\ Settled'
      BY <1>1, <1>2 DEF VoiceInv, VoiceTypes, Observers, Settled, V!bridge, V!updates
<1>4. ASSUME NEW q \in Messages PROVE LaneOf(q)' /\ LedgerOf(q)' /\ AdmittedOf(q)' /\ VerdictOf(q)'
  <2>1. LaneOf(q) /\ LedgerOf(q) /\ AdmittedOf(q) /\ VerdictOf(q)
        BY DEF VoiceInv, Requested
  <2>2. vrow'[q] = IF vrow[q] = "bound" THEN o ELSE vrow[q]
        BY <1>1, <2>1 DEF AdmittedOf
  <2>3. LaneOf(q)' /\ LedgerOf(q)'
        BY <1>1, <2>1, <2>2 DEF LaneOf, LedgerOf, V!bridge, V!updates, V!Outcomes
  <2>4. AdmittedOf(q)'
        BY <1>1, <2>1, <2>2 DEF AdmittedOf, V!bridge, V!Outcomes
  <2>5. VerdictOf(q)'
        BY <1>1, <2>1, <2>2 DEF VerdictOf, V!bridge, V!Outcomes
  <2> QED BY <2>3, <2>4, <2>5
<1> QED BY <1>3, <1>4 DEF VoiceInv, Requested

\* The requests that the run admitted end with it.
LEMMA FinishKeeps == ASSUME VoiceInv, V!Finish PROVE VoiceInv'
<1>1. /\ VoiceTypes /\ vrun # 0 /\ voutcome \in V!Outcomes /\ vrun' = 0
      /\ \A q \in Messages : vrow[q] # "claimed"
      /\ UNCHANGED <<vlane, vobserved, vsubmitted, vattached, vrow, vclaim, voutcome, vruns, vchat>>
      BY DEF VoiceInv, V!Finish
<1>2. voutcome # "none" /\ voutcome \in V!Final /\ voutcome \in {"queued", "working"} \cup V!Final
      BY <1>1 DEF V!Outcomes, V!Final
<1>3. \A q \in Messages : vrow[q] # "bound"
      BY <1>2 DEF VoiceInv, Requested, AdmittedOf
<1>4. CASE V!Hears
  <2>1. /\ vpending' = vpending \ V!Mine /\ vowner' = [q \in Messages |-> IF q \in V!Mine THEN 0 ELSE vowner[q]]
        /\ V!Report(V!Mine, voutcome) /\ V!Mine \in SUBSET Messages
        /\ vheard' = ~(vclosed' /\ vpending' = {}) /\ vdetached' = vdetached
        BY <1>4 DEF V!Finish, V!FinishRun, V!Mine
  <2>2. \A q \in Messages : (q \in V!Mine => vrow[q] = voutcome) /\ (q \notin V!Mine => vowner[q] # vrun)
        BY <1>1, <1>2 DEF V!Mine, VoiceInv, Requested, AdmittedOf
  <2>3. PICK n : V!Buffer(n)
        BY <1>4 DEF V!Finish
  <2>4. vclosed' \in BOOLEAN /\ vfailed' \in BOOLEAN /\ (vclosed' => vclosed \/ vfailed') /\ (vfailed => vfailed')
        BY <1>1, <2>3, Buffered
  <2>5. vowner' \in [Messages -> Nat] /\ \A q \in Messages : vowner'[q] \in {0, vowner[q]}
        BY <1>1, <2>1 DEF VoiceTypes
  <2>6. /\ vstatus' \in [Messages -> {"none", "queued", "working"} \cup V!Final] /\ vterminal' = vterminal \cup V!Mine
        /\ \A q \in Messages : q \notin V!Mine => vstatus'[q] = vstatus[q]
        /\ \A q \in Messages : vstatus'[q] \in {vstatus[q], voutcome}
        BY <1>1, <1>2, <2>1, Reported
  <2>7. VoiceTypes' /\ vrun' <= vruns'
        BY <1>1, <2>1, <2>4, <2>5, <2>6 DEF VoiceInv, VoiceTypes
  <2>8. Observers'
        BY <1>1, <2>1, <2>4 DEF VoiceInv, Observers
  <2>9. Settled'
        BY <1>1, <2>1, <2>6 DEF VoiceInv, Settled
  <2>10. ASSUME NEW q \in Messages PROVE LaneOf(q)' /\ LedgerOf(q)' /\ AdmittedOf(q)' /\ VerdictOf(q)'
    <3>1. LaneOf(q) /\ LedgerOf(q) /\ AdmittedOf(q) /\ VerdictOf(q)
          BY DEF VoiceInv, Requested
    <3>2. q \in V!Mine => vlane[q] # "submit"
          BY <1>1, <2>2, <3>1 DEF LaneOf, V!Outcomes
    <3>3. LaneOf(q)'
          BY <1>1, <2>1, <3>1, <3>2 DEF LaneOf
    <3>4. LedgerOf(q)'
          BY <1>1, <1>2, <2>1, <2>6, <3>1 DEF LedgerOf, V!Outcomes
    <3>5. vowner'[q] <= vruns'
          BY <1>1, <2>5, <3>1 DEF AdmittedOf, VoiceTypes
    <3>6. AdmittedOf(q)'
          BY <1>1, <1>3, <2>1, <2>2, <3>1, <3>5 DEF AdmittedOf
    <3>7. VerdictOf(q)'
          BY <1>1, <2>2, <2>6, <3>1 DEF VerdictOf, V!Outcomes
    <3> QED BY <3>3, <3>4, <3>6, <3>7
  <2> QED BY <2>7, <2>8, <2>9, <2>10 DEF VoiceInv, Requested
<1>5. CASE ~V!Hears
  <2>1. /\ vpending = {} /\ vheard' = FALSE /\ (vclosed \/ ~vheard)
        /\ UNCHANGED <<vclosed, vfailed, vdetached, vpending, vowner, vstatus, vterminal>>
        BY <1>5 DEF V!Finish, V!Hears, VoiceInv, Observers
  <2>2. vheard' \in BOOLEAN /\ vrun' \in Nat /\ vrun' <= vruns'
    <3>1. vheard' \in BOOLEAN
          BY <2>1, Zenon
    <3>2. vrun' = 0 /\ vruns' \in Nat
          BY <1>1 DEF VoiceTypes
    <3> QED BY <3>1, <3>2
  <2>3. Observers' /\ Settled' /\ VoiceTypes'
    <3>1. Observers'
          BY <1>1, <2>1 DEF VoiceInv, Observers
    <3>2. Settled'
          BY <1>1, <2>1 DEF VoiceInv, Settled
    <3>3. VoiceTypes'
          BY <1>1, <2>1, <2>2 DEF VoiceTypes
    <3> QED BY <3>1, <3>2, <3>3
  <2>4. ASSUME NEW q \in Messages PROVE LaneOf(q)' /\ LedgerOf(q)' /\ AdmittedOf(q)' /\ VerdictOf(q)'
        BY <1>1, <1>3, <2>1, <2>4 DEF VoiceInv, Requested, LaneOf, LedgerOf, AdmittedOf, VerdictOf
  <2> QED BY <2>2, <2>3, <2>4 DEF VoiceInv, Requested
<1> QED BY <1>4, <1>5

LEMMA VoiceNext == VoiceInv /\ [V!Next]_(V!vars) => VoiceInv'
<1> SUFFICES ASSUME VoiceInv, [V!Next]_(V!vars) PROVE VoiceInv'
    OBVIOUS
<1>1. CASE UNCHANGED V!vars
  <2>1. VoiceTypes' /\ vrun' <= vruns' /\ Observers' /\ Settled'
        BY <1>1 DEF V!vars, VoiceInv, VoiceTypes, Observers, Settled
  <2>2. Requested'
        BY <1>1 DEF V!vars, VoiceInv, Requested, LaneOf, LedgerOf, AdmittedOf, VerdictOf
  <2> QED BY <2>1, <2>2 DEF VoiceInv
<1>2. ASSUME NEW q \in Messages, V!Notice(q) \/ V!LaneStep(q) PROVE VoiceInv'
      BY <1>2, NoticeKeeps, AdmitKeeps, TurnAwayKeeps, CommitKeeps, RefusedKeeps, AcceptedKeeps, LanesKeep
         DEF V!LaneStep
<1>3. CASE (\E q \in Messages : V!Take(q) \/ V!Timeout(q)) \/ V!StopLanes
      BY <1>3, LanesKeep
<1>4. ASSUME NEW q \in Messages, V!Pull(q) PROVE VoiceInv'
      BY <1>4, ClaimsKeep
<1>5. CASE V!Send \/ V!SendFails \/ V!Answer
      BY <1>5, SendsKeep
<1>6. CASE V!Close \/ V!Delete
      BY <1>6, CloseKeeps, DeleteKeeps
<1>7. CASE (\E q \in Messages : V!BeginWith(q)) \/ V!BeginOther
      BY <1>7, BeginsKeep
<1>8. CASE V!RunStep
      BY <1>8, ClaimsKeep, BindKeeps, EndKeeps, FinishKeeps DEF V!RunStep
<1> QED BY <1>1, <1>2, <1>3, <1>4, <1>5, <1>6, <1>7, <1>8 DEF V!Next

LEMMA VoiceInit == V!Init => VoiceInv
<1> SUFFICES ASSUME V!Init PROVE VoiceInv
    OBVIOUS
<1>1. VoiceTypes /\ vrun <= vruns
  <2>1. vlane \in [Messages -> {"none", "queued", "lock", "submit", "accepted", "refused", "done"}]
        BY DEF V!Init
  <2>2. vstatus \in [Messages -> {"none", "queued", "working"} \cup V!Final]
        BY DEF V!Init
  <2>3. vrow \in [Messages -> {"none", "queued", "claimed", "bound", "gone"} \cup V!Outcomes]
        BY DEF V!Init
  <2>4. vowner \in [Messages -> Nat] /\ vclaim \in [Messages -> Nat] /\ vrun = 0 /\ vruns = 0
        BY DEF V!Init
  <2>5. vobserved = {} /\ vsubmitted = {} /\ vpending = {} /\ vterminal = {} /\ voutcome = "none"
        BY DEF V!Init
  <2>6. /\ vattached \in BOOLEAN /\ vclosed \in BOOLEAN /\ vfailed \in BOOLEAN
        /\ vdetached \in BOOLEAN /\ vheard \in BOOLEAN /\ vchat \in BOOLEAN
        BY Zenon DEF V!Init
  <2> QED BY <2>1, <2>2, <2>3, <2>4, <2>5, <2>6 DEF VoiceTypes
<1>2. Requested
      BY DEF V!Init, Requested, LaneOf, LedgerOf, AdmittedOf, VerdictOf, V!Final, V!Outcomes, V!Refusals
<1>3. Observers /\ Settled
      BY DEF V!Init, Observers, Settled
<1> QED BY <1>1, <1>2, <1>3 DEF VoiceInv

LEMMA VoiceHonest == VoiceInv => RequestsAreHonest
<1> SUFFICES ASSUME VoiceInv PROVE RequestsAreHonest
    OBVIOUS
<1>1. V!VerdictsAreTrue
      BY DEF VoiceInv, Requested, VerdictOf, V!VerdictsAreTrue
<1>2. V!NoneIsForgotten
      BY DEF VoiceInv, VoiceTypes, Observers, Settled, V!NoneIsForgotten
<1> QED BY <1>1, <1>2 DEF RequestsAreHonest, V!RequestsAreHonest

\* What a caller is told of a request is what became of it, in every order of
\* its handler, the end of the call, the deletion of the chat and the runs; and
\* whatever is not settled after the call still has an observer.
THEOREM RequestsStayHonest == V!Spec => []RequestsAreHonest
BY VoiceInit, VoiceNext, VoiceHonest, PTL DEF V!Spec

LEMMA VoiceAmongServices == ServicesSpec => V!Spec
<1>1. ServicesInit => V!Init
      BY DEF ServicesInit
<1>2. [ServicesNext]_<<which, vars, server, receipts, trash, timers, approvals, voice, tools, calls>>
          => [V!Next]_(V!vars)
      BY DEF ServicesNext, voice, V!vars
<1> QED BY <1>1, <1>2, PTL DEF ServicesSpec, V!Spec

\* And the requests are honest in the composition that the runs check.
THEOREM RequestsStayHonestAmongServices == ServicesSpec => []RequestsAreHonest
BY VoiceAmongServices, RequestsStayHonest, PTL

-----------------------------------------------------------------------------
(***************************************************************************)
(* The removal of chats: RemovalIsExact.  A removal holds the guard and,   *)
(* from its check on, the lock of task inputs, so that nothing starts in   *)
(* its chat: when it writes, nothing runs there any more (StoppedFirst).   *)
(* What runs has its row, and what is queued has a live chat; a message    *)
(* that was claimed is never queued again, since its row is only ever      *)
(* forgotten together with its chat or with a note that it was deleted     *)
(* (ClaimedOnce).                                                          *)
(***************************************************************************)

RowStates == {"absent", "queued", "running", "completed", "interrupted"}
InboxRow == [root : Roots \cup {0}, status : RowStates]
RootRun == [stage : {"none", "running", "stopping"}, work : Messages \cup {NoMessage}]
PurgeItem == [id : Roots, deletion : Nat, purge_at : Nat]
Operation == [kind : {"none", "delete", "permanent", "restore", "purge", "sweep"},
              stage : {"none", "reading", "next", "locking", "checking", "releasing", "joining", "writing"},
              root : Roots \cup {0}, deletion : Nat, batch : SUBSET PurgeItem]

RowTypes ==
    /\ smember \in [Roots -> {"unborn", "live", "trash", "gone"}] /\ scontent \subseteq Roots
    /\ sdeletion \in [Roots -> Nat] /\ spurge_at \in [Roots -> Nat]
    /\ sbinding \in Roots \cup {0} /\ srow \in [Messages -> InboxRow] /\ sdeleted \subseteq Messages

LaneTypes ==
    /\ stimers \subseteq Roots /\ sstarting \in Roots \cup {0}
    /\ srun \in [Roots -> RootRun] /\ sclaims \in [Messages -> Nat] /\ sclock \in Nat

OpInOrder ==
    /\ sop \in Operation
    /\ sop.stage \in {"locking", "checking", "releasing", "joining", "writing"} => sop.root \in Roots
    /\ sop.stage # "none" => sop.kind # "none"
    /\ sop.stage \in {"reading", "next"} => sop.kind = "sweep"
    /\ sop.stage \in {"locking", "checking", "releasing", "joining"} => sop.kind # "restore"

\* A run that was claimed for a message has its row, and has no other.
RunsHaveRows ==
    \A r \in Roots :
        /\ srun[r].stage = "none" => srun[r].work = NoMessage
        /\ srun[r].work # NoMessage => srow[srun[r].work].root = r /\ srow[srun[r].work].status = "running"

RowsHaveRoots == \A m \in Messages : srow[m].status # "absent" => srow[m].root \in Roots

\* What removal is exact about, of each chat.
RemovedIsQuiet ==
    \A r \in Roots : smember[r] \in {"trash", "gone"} =>
        /\ srun[r] = S!NoRun /\ r \notin stimers /\ sbinding # r
        /\ \A m \in Messages : srow[m].root = r => srow[m].status \notin {"queued", "running"}

StoppedFirst ==
    /\ S!Removing => sstarting = 0
    /\ S!Removing /\ sop.stage \in {"joining", "writing"} =>
          srun[sop.root].stage # "running" /\ sop.root \notin stimers
    /\ S!Removing /\ sop.stage = "writing" => srun[sop.root] = S!NoRun

SameTombstone ==
    sop.kind \in {"purge", "sweep"} /\ sop.stage \in {"releasing", "joining", "writing"} =>
        smember[sop.root] = "trash" /\ sdeletion[sop.root] = sop.deletion

LiveAreThere ==
    /\ \A r \in Roots : smember[r] = "live" => r \in scontent
    /\ sstarting # 0 => smember[sstarting] = "live"

ClaimedOnce ==
    \A m \in Messages :
        /\ sclaims[m] <= 1
        /\ sclaims[m] # 0 /\ srow[m].status = "absent" =>
              IF m \in Channeled THEN m \in sdeleted ELSE srow[m].root \in Roots /\ smember[srow[m].root] = "gone"
        /\ sclaims[m] # 0 => srow[m].status # "queued"

TrashInv ==
    /\ RowTypes /\ LaneTypes /\ OpInOrder
    /\ RunsHaveRows /\ RowsHaveRoots /\ RemovedIsQuiet /\ StoppedFirst /\ SameTombstone /\ LiveAreThere /\ ClaimedOnce

LEMMA TrashConstants ==
    /\ Roots \subseteq Nat \ {0} /\ 1 \in Roots /\ 0 \notin Roots
    /\ NoMessage \notin Messages /\ Channeled \subseteq Messages /\ Retention \in Nat
BY ServicesAssumption DEF ServicesAssumption, S!TrashAssumption

\* The steps of an operation, and of the clock, that touch no chat.
LEMMA ControlKeeps ==
    ASSUME TrashInv, UNCHANGED <<S!rows, S!lanes, sstarting>>, sclock' \in Nat, OpInOrder', StoppedFirst', SameTombstone'
    PROVE  TrashInv'
<1>1. RowTypes' /\ LaneTypes'
      BY DEF TrashInv, RowTypes, LaneTypes, S!rows, S!lanes
<1>2. RunsHaveRows' /\ RowsHaveRoots' /\ RemovedIsQuiet' /\ LiveAreThere' /\ ClaimedOnce'
      BY DEF TrashInv, RunsHaveRows, RowsHaveRoots, RemovedIsQuiet, LiveAreThere, ClaimedOnce, S!rows, S!lanes, S!NoRun
<1> QED BY <1>1, <1>2 DEF TrashInv

\* An operation that does not remove yet, or no more.
LEMMA NotRemoving ==
    ASSUME sop'.stage \notin {"checking", "releasing", "joining", "writing"}
    PROVE  StoppedFirst' /\ SameTombstone'
BY DEF StoppedFirst, SameTombstone, S!Removing

LEMMA SameOpKeeps ==
    ASSUME TrashInv, sop' = sop, UNCHANGED <<S!rows, S!lanes, sstarting>>, sclock' \in Nat
    PROVE  TrashInv'
<1>1. OpInOrder' /\ StoppedFirst' /\ SameTombstone'
      BY DEF TrashInv, OpInOrder, StoppedFirst, SameTombstone, S!Removing, S!rows, S!lanes, S!NoRun
<1> QED BY <1>1, ControlKeeps

LEMMA TickKeeps == ASSUME TrashInv, S!Tick \/ (\E r \in Roots : S!Block(r)) PROVE TrashInv'
<1>1. sop' = sop /\ UNCHANGED <<S!rows, S!lanes, sstarting>> /\ sclock' \in Nat
      BY DEF S!Tick, S!Block, TrashInv, LaneTypes
<1> QED BY <1>1, SameOpKeeps

LEMMA BeginOpKeeps ==
    ASSUME TrashInv, NEW kind \in {"delete", "permanent", "restore", "purge"}, NEW r \in Roots, NEW g \in Nat,
           S!Begin(kind, r, g)
    PROVE  TrashInv'
<1>1. /\ sop' = [kind |-> kind, root |-> r, deletion |-> g, batch |-> {},
                 stage |-> IF kind = "restore" THEN "writing" ELSE "locking"]
      /\ UNCHANGED <<S!rows, S!lanes, sstarting, sclock>>
      BY DEF S!Begin
<1>2. sop' \in Operation /\ sop'.kind = kind /\ sop'.root = r
      /\ sop'.stage = IF kind = "restore" THEN "writing" ELSE "locking"
      BY <1>1 DEF Operation
<1>3. OpInOrder' /\ StoppedFirst' /\ SameTombstone'
      BY <1>2 DEF OpInOrder, StoppedFirst, SameTombstone, S!Removing
<1> QED BY <1>1, <1>3, ControlKeeps DEF TrashInv, LaneTypes

\* A sweep reads a page of what expired, and goes through it.
LEMMA SweepKeeps == ASSUME TrashInv, S!BeginSweep \/ S!SweepReads \/ S!SweepNext PROVE TrashInv'
<1>1. UNCHANGED <<S!rows, S!lanes, sstarting, sclock>> /\ sop \in Operation
      BY DEF S!BeginSweep, S!SweepReads, S!SweepNext, TrashInv, OpInOrder
<1>2. sclock' \in Nat
      BY <1>1 DEF TrashInv, LaneTypes
<1>3. CASE S!BeginSweep
  <2>1. sop' \in Operation /\ sop'.stage = "reading" /\ sop'.kind = "sweep"
        BY <1>3 DEF S!BeginSweep, S!NoOp, Operation
  <2>2. OpInOrder'
        BY <2>1 DEF OpInOrder
  <2> QED BY <1>1, <1>2, <2>1, <2>2, NotRemoving, ControlKeeps
<1>4. CASE S!SweepReads
  <2>1. CASE sop' = sop
        BY <1>1, <1>2, <2>1, SameOpKeeps
  <2>2. CASE sop' = [sop EXCEPT !.stage = "next", !.batch = S!Candidates]
    <3>1. \A r \in Roots : S!ItemOf(r) \in PurgeItem
          BY DEF S!ItemOf, PurgeItem, TrashInv, RowTypes
    <3>2. S!Candidates \subseteq {S!ItemOf(r) : r \in Roots}
          BY DEF S!Candidates
    <3>3. S!Candidates \subseteq PurgeItem
          BY <3>1, <3>2
    <3>4. sop' \in Operation /\ sop'.stage = "next" /\ sop'.kind = sop.kind
          BY <1>1, <2>2, <3>3 DEF Operation
    <3>5. OpInOrder'
          BY <1>4, <3>4 DEF OpInOrder, S!SweepReads, TrashInv
    <3> QED BY <1>1, <1>2, <3>4, <3>5, NotRemoving, ControlKeeps
  <2> QED BY <1>4, <2>1, <2>2 DEF S!SweepReads
<1>5. CASE S!SweepNext
  <2>1. CASE sop' = S!NoOp
    <3>1. sop' \in Operation /\ sop'.stage = "none"
          BY <2>1 DEF S!NoOp, Operation
    <3>2. OpInOrder'
          BY <3>1 DEF OpInOrder
    <3> QED BY <1>1, <1>2, <3>1, <3>2, NotRemoving, ControlKeeps
  <2>2. CASE sop.batch # {}
    <3>1. PICK due \in sop.batch :
              sop' = [sop EXCEPT !.stage = "locking", !.root = due.id, !.deletion = due.deletion, !.batch = @ \ {due}]
          BY <1>5, <2>2 DEF S!SweepNext
    <3>2. due \in PurgeItem
          BY <1>1 DEF Operation
    <3>3. sop' \in Operation /\ sop'.stage = "locking" /\ sop'.root = due.id /\ sop'.kind = sop.kind
          BY <1>1, <3>1, <3>2 DEF Operation, PurgeItem
    <3>4. sop.stage = "next" /\ due.id \in Roots
          BY <1>5, <3>2 DEF S!SweepNext, PurgeItem
    <3>5. OpInOrder'
          BY <3>3, <3>4 DEF OpInOrder, TrashInv
    <3> QED BY <1>1, <1>2, <3>3, <3>5, NotRemoving, ControlKeeps
  <2> QED BY <1>5, <2>1, <2>2 DEF S!SweepNext
<1> QED BY <1>3, <1>4, <1>5

\* An operation moves on to another stage, or is over.
LEMMA StageMoves ==
    ASSUME OpInOrder, NEW from \in {"locking", "checking", "releasing", "joining"},
           NEW to \in {"checking", "releasing", "joining", "writing"}, S!To(from, to)
    PROVE  /\ sop' \in Operation /\ sop'.stage = to /\ sop.stage = from
           /\ sop'.kind = sop.kind /\ sop'.root = sop.root /\ sop'.deletion = sop.deletion
           /\ sop.root \in Roots /\ sop.kind # "none"
BY DEF OpInOrder, Operation, S!To

LEMMA OpIsOver ==
    ASSUME OpInOrder, sop.stage # "none", S!Over
    PROVE  OpInOrder' /\ sop'.stage \in {"none", "next"}
<1>1. CASE sop.kind = "sweep"
  <2>1. sop' = [sop EXCEPT !.stage = "next"]
        BY <1>1 DEF S!Over
  <2> QED BY <1>1, <2>1 DEF OpInOrder, Operation
<1>2. CASE sop.kind # "sweep"
  <2>1. sop' = S!NoOp
        BY <1>2 DEF S!Over
  <2> QED BY <2>1 DEF OpInOrder, Operation, S!NoOp
<1> QED BY <1>1, <1>2

\* The lock of task inputs is taken; nothing starts from now on.
LEMMA LockKeeps == ASSUME TrashInv, S!Lock PROVE TrashInv'
<1>1. /\ OpInOrder /\ LaneTypes /\ S!To("locking", "checking") /\ sstarting = 0
      /\ UNCHANGED <<S!rows, S!lanes, sstarting, sclock>>
      BY DEF TrashInv, S!Lock, S!Admission
<1>2. /\ sop' \in Operation /\ sop'.stage = "checking" /\ sop'.kind = sop.kind /\ sop'.root = sop.root
      /\ sop.root \in Roots /\ sop.kind # "none"
      BY <1>1, StageMoves
<1>3. sop.kind # "restore"
      BY <1>1 DEF S!To, OpInOrder
<1>4. OpInOrder'
      BY <1>2, <1>3 DEF OpInOrder
<1>5. StoppedFirst' /\ SameTombstone'
      BY <1>1, <1>2 DEF StoppedFirst, SameTombstone
<1> QED BY <1>1, <1>4, <1>5, ControlKeeps DEF LaneTypes

LEMMA CheckKeeps == ASSUME TrashInv, S!Check PROVE TrashInv'
<1>1. /\ OpInOrder /\ LaneTypes /\ sop.stage = "checking" /\ sop.kind # "restore"
      /\ UNCHANGED <<S!rows, S!lanes, sstarting, sclock>>
      BY DEF TrashInv, OpInOrder, S!Check
<1>2. CASE S!Over
  <2>1. OpInOrder' /\ sop'.stage \in {"none", "next"}
        BY <1>1, <1>2, OpIsOver
  <2> QED BY <1>1, <2>1, NotRemoving, ControlKeeps DEF LaneTypes
<1>3. CASE S!To("checking", "releasing") /\ S!Removable
  <2>1. /\ sop' \in Operation /\ sop'.stage = "releasing" /\ sop'.kind = sop.kind /\ sop'.root = sop.root
        /\ sop'.deletion = sop.deletion /\ sop.root \in Roots /\ sop.kind # "none"
        BY <1>1, <1>3, StageMoves
  <2>2. OpInOrder'
        BY <1>1, <2>1 DEF OpInOrder
  <2>3. sop.kind \in {"purge", "sweep"} => smember[sop.root] = "trash" /\ sdeletion[sop.root] = sop.deletion
        BY <1>3 DEF S!Removable, S!Generation
  <2>4. SameTombstone'
        BY <1>1, <2>1, <2>3 DEF SameTombstone, S!rows
  <2>5. StoppedFirst'
        BY <1>1, <2>1 DEF StoppedFirst, S!Removing, TrashInv
  <2> QED BY <1>1, <2>2, <2>4, <2>5, ControlKeeps DEF LaneTypes
<1> QED BY <1>2, <1>3 DEF S!Check

LEMMA JoinedKeeps == ASSUME TrashInv, S!Joined PROVE TrashInv'
<1>1. /\ OpInOrder /\ LaneTypes /\ S!To("joining", "writing") /\ srun[sop.root] = S!NoRun
      /\ UNCHANGED <<S!rows, S!lanes, sstarting, sclock>>
      BY DEF TrashInv, S!Joined
<1>2. /\ sop' \in Operation /\ sop'.stage = "writing" /\ sop'.kind = sop.kind /\ sop'.root = sop.root
      /\ sop'.deletion = sop.deletion /\ sop.root \in Roots /\ sop.kind # "none" /\ sop.stage = "joining"
      BY <1>1, StageMoves
<1>3. OpInOrder'
      BY <1>2 DEF OpInOrder
<1>4. SameTombstone'
      BY <1>1, <1>2 DEF SameTombstone, TrashInv, S!rows
<1>5. StoppedFirst'
      BY <1>1, <1>2 DEF StoppedFirst, TrashInv, S!Removing, S!lanes, S!NoRun
<1> QED BY <1>1, <1>3, <1>4, <1>5, ControlKeeps DEF LaneTypes

\* A child is about to be started in a live chat, while nothing is removed.
LEMMA StartTaskKeeps == ASSUME TrashInv, NEW r \in Roots, S!StartTask(r) PROVE TrashInv'
<1>1. /\ sop' = sop /\ sop.kind = "none" /\ sstarting' = r /\ smember[r] = "live"
      /\ UNCHANGED <<S!rows, S!lanes, sclock>>
      BY DEF S!StartTask, S!Mutating, S!Root
<1>2. RowTypes' /\ LaneTypes' /\ OpInOrder'
      BY <1>1 DEF TrashInv, RowTypes, LaneTypes, OpInOrder, S!rows, S!lanes
<1>3. StoppedFirst' /\ SameTombstone'
      BY <1>1, <1>2 DEF StoppedFirst, SameTombstone, S!Removing, OpInOrder
<1>4. RunsHaveRows' /\ RowsHaveRoots' /\ RemovedIsQuiet' /\ LiveAreThere' /\ ClaimedOnce'
      BY <1>1 DEF TrashInv, RunsHaveRows, RowsHaveRoots, RemovedIsQuiet, LiveAreThere, ClaimedOnce, S!rows, S!lanes, S!NoRun
<1> QED BY <1>2, <1>3, <1>4 DEF TrashInv

\* What an operation relies on while the chats go on living.
LEMMA OpRests ==
    ASSUME TrashInv, sop' = sop, sstarting' = sstarting, UNCHANGED <<smember, sdeletion, srun, stimers>>
    PROVE  OpInOrder' /\ StoppedFirst' /\ SameTombstone'
BY DEF TrashInv, OpInOrder, StoppedFirst, SameTombstone, S!Removing, S!NoRun

\* A new chat.
LEMMA Opened ==
    ASSUME TrashInv, NEW r \in Roots, smember[r] = "unborn", smember' = [smember EXCEPT ![r] = "live"],
           scontent' = scontent \cup {r}, sop' = sop, sstarting' = sstarting,
           UNCHANGED <<sdeletion, spurge_at, sdeleted, S!lanes, sclock>>
    PROVE  /\ smember' \in [Roots -> {"unborn", "live", "trash", "gone"}] /\ scontent' \subseteq Roots
           /\ \A u \in Roots : smember'[u] = smember[u] \/ (u = r /\ smember'[u] = "live")
           /\ OpInOrder' /\ StoppedFirst' /\ SameTombstone' /\ LiveAreThere' /\ LaneTypes'
<1>1. /\ smember' \in [Roots -> {"unborn", "live", "trash", "gone"}] /\ scontent' \subseteq Roots
      /\ \A u \in Roots : smember'[u] = smember[u] \/ (u = r /\ smember'[u] = "live")
      BY DEF TrashInv, RowTypes
<1>2. LaneTypes' /\ OpInOrder' /\ StoppedFirst'
      BY DEF TrashInv, LaneTypes, OpInOrder, StoppedFirst, S!Removing, S!lanes, S!NoRun
<1>3. LiveAreThere'
      BY <1>1 DEF TrashInv, LaneTypes, LiveAreThere
<1>4. SameTombstone'
      BY <1>1 DEF TrashInv, SameTombstone, OpInOrder
<1> QED BY <1>1, <1>2, <1>3, <1>4

LEMMA OpenKeeps == ASSUME TrashInv, NEW r \in Roots, S!Open(r) PROVE TrashInv'
<1>1. /\ smember[r] = "unborn" /\ smember' = [smember EXCEPT ![r] = "live"] /\ scontent' = scontent \cup {r}
      /\ sop' = sop /\ sstarting' = sstarting
      /\ UNCHANGED <<sdeletion, spurge_at, sbinding, srow, sdeleted, S!lanes, sclock>>
      BY DEF S!Open, S!NewRoot
<1>2. /\ smember' \in [Roots -> {"unborn", "live", "trash", "gone"}] /\ scontent' \subseteq Roots
      /\ \A u \in Roots : smember'[u] = smember[u] \/ (u = r /\ smember'[u] = "live")
      /\ OpInOrder' /\ StoppedFirst' /\ SameTombstone' /\ LiveAreThere' /\ LaneTypes'
      BY <1>1, Opened
<1>3. RowTypes'
      BY <1>1, <1>2 DEF TrashInv, RowTypes
<1>4. RunsHaveRows' /\ RowsHaveRoots' /\ RemovedIsQuiet'
      BY <1>1, <1>2 DEF TrashInv, RunsHaveRows, RowsHaveRoots, RemovedIsQuiet, S!lanes, S!NoRun
<1>5. ClaimedOnce'
      BY <1>1, <1>2 DEF TrashInv, ClaimedOnce, S!lanes
<1> QED BY <1>2, <1>3, <1>4, <1>5 DEF TrashInv

\* A message is queued for a live chat, which may be new.
LEMMA QueuedKeeps ==
    ASSUME TrashInv, NEW m \in Messages, NEW r \in Roots, srow[m].status = "absent", sclaims[m] = 0,
           srow' = [srow EXCEPT ![m] = [root |-> r, status |-> "queued"]],
           smember' \in [Roots -> {"unborn", "live", "trash", "gone"}], smember'[r] = "live",
           \A u \in Roots : smember'[u] = smember[u] \/ (u = r /\ smember[r] = "unborn"),
           scontent' \subseteq Roots, sbinding' \in {sbinding, r},
           UNCHANGED <<sdeletion, spurge_at, sdeleted, S!lanes>>
    PROVE  RowTypes' /\ RunsHaveRows' /\ RowsHaveRoots' /\ RemovedIsQuiet' /\ ClaimedOnce'
<1>1. /\ srow' \in [Messages -> InboxRow] /\ srow'[m].root = r /\ srow'[m].status = "queued"
      /\ \A p \in Messages : p # m => srow'[p] = srow[p]
  <2>1. [root |-> r, status |-> "queued"] \in InboxRow
        BY DEF InboxRow, RowStates
  <2> QED BY <2>1 DEF TrashInv, RowTypes
<1>2. RowTypes'
      BY <1>1 DEF TrashInv, RowTypes
<1>3. RunsHaveRows'
  <2>1. \A u \in Roots : srun[u].work # m
        BY TrashConstants DEF TrashInv, RunsHaveRows
  <2>2. \A u \in Roots : srun[u].work \in Messages \cup {NoMessage}
        BY DEF TrashInv, LaneTypes, RootRun
  <2> QED BY <1>1, <2>1, <2>2 DEF TrashInv, RunsHaveRows, S!lanes
<1>4. RowsHaveRoots'
      BY <1>1 DEF TrashInv, RowsHaveRoots
<1>5. RemovedIsQuiet'
      BY <1>1 DEF TrashInv, RemovedIsQuiet, S!lanes, S!NoRun
<1>6. ClaimedOnce'
  <2>1. \A p \in Messages : srow'[p].status = "absent" => srow'[p] = srow[p]
        BY <1>1
  <2>2. ASSUME NEW p \in Messages PROVE sclaims'[p] = sclaims[p]
        BY DEF S!lanes
  <2>3. \A u \in Roots : smember[u] = "gone" => smember'[u] = "gone"
        OBVIOUS
  <2> QED BY <1>1, <2>1, <2>2, <2>3 DEF TrashInv, ClaimedOnce
<1> QED BY <1>2, <1>3, <1>4, <1>5, <1>6

LEMMA SubmitKeeps == ASSUME TrashInv, NEW m \in Messages, NEW r \in Roots, S!Submit(m, r) PROVE TrashInv'
<1>1. /\ m \notin Channeled /\ srow[m].status = "absent" /\ srow[m].root \in {0, r} /\ smember[r] = "live"
      /\ srow' = [srow EXCEPT ![m] = [root |-> r, status |-> "queued"]]
      /\ sop' = sop /\ sstarting' = sstarting
      /\ UNCHANGED <<smember, scontent, sdeletion, spurge_at, sbinding, sdeleted, S!lanes, sclock>>
      BY DEF S!Submit, S!Root
<1>2. sclaims[m] = 0
      BY <1>1, TrashConstants DEF TrashInv, ClaimedOnce
<1>3. RowTypes' /\ RunsHaveRows' /\ RowsHaveRoots' /\ RemovedIsQuiet' /\ ClaimedOnce'
  <2>1. smember \in [Roots -> {"unborn", "live", "trash", "gone"}] /\ scontent \subseteq Roots
        BY DEF TrashInv, RowTypes
  <2> QED BY <1>1, <1>2, <2>1, QueuedKeeps
<1>4. OpInOrder' /\ StoppedFirst' /\ SameTombstone'
      BY <1>1, OpRests DEF S!lanes
<1>5. LaneTypes' /\ LiveAreThere'
      BY <1>1 DEF TrashInv, LaneTypes, LiveAreThere, S!lanes
<1> QED BY <1>3, <1>4, <1>5 DEF TrashInv

LEMMA ReceiveKeeps == ASSUME TrashInv, NEW m \in Messages, S!Receive(m) PROVE TrashInv'
<1>1. /\ m \in Channeled /\ srow[m].status = "absent" /\ m \notin sdeleted
      /\ sop' = sop /\ sstarting' = sstarting
      /\ UNCHANGED <<sdeletion, spurge_at, sdeleted, S!lanes, sclock>>
      BY DEF S!Receive, S!New
<1>2. sclaims[m] = 0
      BY <1>1 DEF TrashInv, ClaimedOnce
<1>3. CASE sbinding # 0
  <2>1. /\ sbinding \in Roots /\ smember[sbinding] = "live"
        /\ srow' = [srow EXCEPT ![m] = [root |-> sbinding, status |-> "queued"]]
        /\ UNCHANGED <<smember, scontent, sbinding>>
        BY <1>3 DEF S!Receive, S!Root, TrashInv, RowTypes
  <2>2. RowTypes' /\ RunsHaveRows' /\ RowsHaveRoots' /\ RemovedIsQuiet' /\ ClaimedOnce'
    <3>1. smember \in [Roots -> {"unborn", "live", "trash", "gone"}] /\ scontent \subseteq Roots
          BY DEF TrashInv, RowTypes
    <3> QED BY <1>1, <1>2, <2>1, <3>1, QueuedKeeps
  <2>3. OpInOrder' /\ StoppedFirst' /\ SameTombstone'
        BY <1>1, <2>1, OpRests DEF S!lanes
  <2>4. LaneTypes' /\ LiveAreThere'
        BY <1>1, <2>1 DEF TrashInv, LaneTypes, LiveAreThere, S!lanes
  <2> QED BY <2>2, <2>3, <2>4 DEF TrashInv
<1>4. CASE sbinding = 0
  <2>1. PICK r \in Roots :
            /\ smember[r] = "unborn" /\ smember' = [smember EXCEPT ![r] = "live"] /\ scontent' = scontent \cup {r}
            /\ sbinding' = r /\ srow' = [srow EXCEPT ![m] = [root |-> r, status |-> "queued"]]
        BY <1>4 DEF S!Receive, S!NewRoot
  <2>2. /\ smember' \in [Roots -> {"unborn", "live", "trash", "gone"}] /\ scontent' \subseteq Roots
        /\ \A u \in Roots : smember'[u] = smember[u] \/ (u = r /\ smember'[u] = "live")
        /\ OpInOrder' /\ StoppedFirst' /\ SameTombstone' /\ LiveAreThere' /\ LaneTypes'
        BY <1>1, <2>1, Opened
  <2>3. smember'[r] = "live"
        BY <2>1 DEF TrashInv, RowTypes
  <2>4. RowTypes' /\ RunsHaveRows' /\ RowsHaveRoots' /\ RemovedIsQuiet' /\ ClaimedOnce'
        BY <1>1, <1>2, <2>1, <2>2, <2>3, QueuedKeeps
  <2> QED BY <2>2, <2>4 DEF TrashInv
<1> QED BY <1>3, <1>4

\* A row is claimed, and its run starts in its chat.
LEMMA ClaimRowKeeps == ASSUME TrashInv, NEW m \in Messages, S!Claim(m) PROVE TrashInv'
<1> DEFINE root == srow[m].root
<1>1. /\ sop.kind = "none" /\ srow[m].status = "queued" /\ root \in Roots /\ smember[root] = "live"
      /\ srun[root] = S!NoRun
      /\ srow' = [srow EXCEPT ![m].status = "running"]
      /\ srun' = [srun EXCEPT ![root] = [stage |-> "running", work |-> m]]
      /\ sclaims' = [sclaims EXCEPT ![m] = @ + 1]
      /\ UNCHANGED <<smember, scontent, sdeletion, spurge_at, sbinding, sdeleted, stimers, sop, sstarting, sclock>>
      BY DEF S!Claim, S!Root, S!Mutating, TrashInv, RowsHaveRoots
<1>2. /\ srow' \in [Messages -> InboxRow] /\ srow'[m].root = root /\ srow'[m].status = "running"
      /\ \A p \in Messages : p # m => srow'[p] = srow[p]
  <2>1. srow \in [Messages -> InboxRow] /\ srow[m] \in InboxRow
        BY DEF TrashInv, RowTypes
  <2>2. [srow[m] EXCEPT !.status = "running"] \in InboxRow
        /\ [srow[m] EXCEPT !.status = "running"].root = root
        /\ [srow[m] EXCEPT !.status = "running"].status = "running"
        BY <2>1 DEF InboxRow, RowStates
  <2> QED BY <1>1, <2>1, <2>2
<1>3. /\ srun' \in [Roots -> RootRun] /\ srun'[root].stage = "running" /\ srun'[root].work = m
      /\ \A u \in Roots : u # root => srun'[u] = srun[u]
  <2>1. srun \in [Roots -> RootRun] /\ [stage |-> "running", work |-> m] \in RootRun
        BY DEF TrashInv, LaneTypes, RootRun
  <2> QED BY <1>1, <2>1
<1>4. /\ sclaims[m] = 0 /\ sclaims' \in [Messages -> Nat] /\ sclaims'[m] = 1
      /\ \A p \in Messages : p # m => sclaims'[p] = sclaims[p]
      BY <1>1 DEF TrashInv, ClaimedOnce, LaneTypes
<1> HIDE DEF root
<1>5. RowTypes' /\ LaneTypes'
      BY <1>1, <1>2, <1>3, <1>4 DEF TrashInv, RowTypes, LaneTypes
<1>6. OpInOrder' /\ StoppedFirst' /\ SameTombstone'
      BY <1>1 DEF TrashInv, OpInOrder, StoppedFirst, SameTombstone, S!Removing
<1>7. RunsHaveRows' /\ RowsHaveRoots'
  <2>1. \A u \in Roots : srun[u].work # m
        BY <1>1, TrashConstants DEF TrashInv, RunsHaveRows
  <2>2. \A u \in Roots : srun[u].work \in Messages \cup {NoMessage}
        BY DEF TrashInv, LaneTypes, RootRun
  <2>3. RunsHaveRows'
        BY <1>2, <1>3, <2>1, <2>2 DEF TrashInv, RunsHaveRows
  <2> QED BY <1>1, <1>2, <2>3 DEF TrashInv, RowsHaveRoots
<1>8. RemovedIsQuiet'
      BY <1>1, <1>2, <1>3 DEF TrashInv, RemovedIsQuiet, S!NoRun
<1>9. LiveAreThere' /\ ClaimedOnce'
      BY <1>1, <1>2, <1>4 DEF TrashInv, LiveAreThere, ClaimedOnce
<1> QED BY <1>5, <1>6, <1>7, <1>8, <1>9 DEF TrashInv

\* Steps of the lanes that leave every row as it is.
LEMMA LaneKeeps ==
    ASSUME TrashInv, UNCHANGED <<S!rows, sclaims>>, LaneTypes', OpInOrder', StoppedFirst', SameTombstone',
           \A r \in Roots : srun'[r].work = srun[r].work,
           \A r \in Roots : srun'[r].stage = "none" => srun[r].stage = "none",
           \A r \in Roots : smember[r] \in {"trash", "gone"} => srun'[r] = srun[r] /\ r \notin stimers',
           sstarting' \in {0, sstarting}
    PROVE  TrashInv'
<1>1. RowTypes'
      BY DEF TrashInv, RowTypes, S!rows
<1>2. RunsHaveRows' /\ RowsHaveRoots'
      BY DEF TrashInv, RunsHaveRows, RowsHaveRoots, S!rows
<1>3. RemovedIsQuiet' /\ LiveAreThere' /\ ClaimedOnce'
      BY DEF TrashInv, RemovedIsQuiet, LiveAreThere, ClaimedOnce, S!rows, S!NoRun
<1> QED BY <1>1, <1>2, <1>3 DEF TrashInv

LEMMA TimersKeep == ASSUME TrashInv, NEW r \in Roots, S!Schedule(r) \/ S!Fire(r) PROVE TrashInv'
<1>1. /\ sop' = sop /\ sstarting' = sstarting /\ UNCHANGED <<S!rows, sclaims, sclock>>
      /\ srun \in [Roots -> RootRun]
      BY DEF S!Schedule, S!Fire, TrashInv, LaneTypes
<1>2. CASE S!Schedule(r)
  <2>1. srun[r].stage = "running" /\ stimers' = stimers \cup {r} /\ srun' = srun
        BY <1>2 DEF S!Schedule
  <2>2. LaneTypes'
        BY <1>1, <2>1 DEF TrashInv, LaneTypes
  <2>3. smember[r] \notin {"trash", "gone"}
        BY <2>1 DEF TrashInv, RemovedIsQuiet, S!NoRun
  <2>4. OpInOrder' /\ StoppedFirst' /\ SameTombstone'
        BY <1>1, <2>1 DEF TrashInv, OpInOrder, StoppedFirst, SameTombstone, S!Removing, S!rows, S!NoRun
  <2>5. \A u \in Roots : smember[u] \in {"trash", "gone"} => u \notin stimers'
        BY <2>1, <2>3 DEF TrashInv, RemovedIsQuiet
  <2> QED BY <1>1, <2>1, <2>2, <2>4, <2>5, LaneKeeps
<1>3. CASE S!Fire(r)
  <2>1. /\ sop.kind = "none" /\ r \in stimers /\ stimers' = stimers \ {r}
        /\ srun' = [srun EXCEPT ![r].stage = "running"]
        BY <1>3 DEF S!Fire, S!Mutating
  <2>2. /\ srun' \in [Roots -> RootRun] /\ \A u \in Roots : srun'[u].work = srun[u].work
        /\ \A u \in Roots : u # r => srun'[u] = srun[u]
        /\ srun'[r].stage = "running"
        BY <1>1, <2>1 DEF RootRun
  <2>3. LaneTypes'
        BY <1>1, <2>1, <2>2 DEF TrashInv, LaneTypes
  <2>4. smember[r] \notin {"trash", "gone"}
        BY <2>1 DEF TrashInv, RemovedIsQuiet
  <2>5. OpInOrder' /\ StoppedFirst' /\ SameTombstone'
        BY <1>1, <2>1 DEF TrashInv, OpInOrder, StoppedFirst, SameTombstone, S!Removing
  <2>6. \A u \in Roots : smember[u] \in {"trash", "gone"} => srun'[u] = srun[u] /\ u \notin stimers'
        BY <2>1, <2>2, <2>4 DEF TrashInv, RemovedIsQuiet
  <2> QED BY <1>1, <2>2, <2>3, <2>5, <2>6, LaneKeeps
<1> QED BY <1>2, <1>3

\* A child starts, while nothing is removed.
LEMMA LaunchKeeps == ASSUME TrashInv, S!Launch PROVE TrashInv'
<1> DEFINE stage == IF srun[sstarting].stage = "none" THEN "running" ELSE srun[sstarting].stage
<1>1. /\ sstarting # 0 /\ sstarting \in Roots /\ smember[sstarting] = "live"
      /\ srun' = [srun EXCEPT ![sstarting].stage = stage]
      /\ sstarting' = 0 /\ sop' = sop /\ srun \in [Roots -> RootRun]
      /\ UNCHANGED <<S!rows, sclaims, stimers, sclock>>
      BY DEF S!Launch, TrashInv, LaneTypes, LiveAreThere
<1>2. stage \in {"running", "stopping"}
      BY <1>1 DEF RootRun
<1> HIDE DEF stage
<1>3. /\ srun' \in [Roots -> RootRun] /\ \A u \in Roots : srun'[u].work = srun[u].work
      /\ \A u \in Roots : u # sstarting => srun'[u] = srun[u]
      /\ srun'[sstarting].stage = stage
      BY <1>1, <1>2 DEF RootRun
<1>4. LaneTypes'
      BY <1>1, <1>3 DEF TrashInv, LaneTypes
<1>5. OpInOrder' /\ StoppedFirst' /\ SameTombstone'
      BY <1>1 DEF TrashInv, OpInOrder, StoppedFirst, SameTombstone, S!Removing, S!rows
<1>6. \A u \in Roots : smember[u] \in {"trash", "gone"} => srun'[u] = srun[u] /\ u \notin stimers'
      BY <1>1, <1>3 DEF TrashInv, RemovedIsQuiet
<1>7. \A u \in Roots : srun'[u].stage = "none" => srun[u].stage = "none"
      BY <1>2, <1>3
<1> QED BY <1>1, <1>3, <1>4, <1>5, <1>6, <1>7, LaneKeeps

\* The timers of the chat go first; then its run is told to stop.
LEMMA ReleaseKeeps == ASSUME TrashInv, S!ReleaseProcess PROVE TrashInv'
<1> DEFINE root == sop.root
           stage == IF srun[root].stage = "running" THEN "stopping" ELSE srun[root].stage
<1>1. /\ OpInOrder /\ LaneTypes /\ S!To("releasing", "joining")
      /\ stimers' = stimers \ {root} /\ srun' = [srun EXCEPT ![root].stage = stage]
      /\ sstarting' = sstarting /\ srun \in [Roots -> RootRun]
      /\ UNCHANGED <<S!rows, sclaims, sclock>>
      BY DEF TrashInv, S!ReleaseProcess, LaneTypes
<1>2. /\ sop' \in Operation /\ sop'.stage = "joining" /\ sop'.kind = sop.kind /\ sop'.root = root
      /\ sop'.deletion = sop.deletion /\ root \in Roots /\ sop.kind # "none" /\ sop.stage = "releasing"
      BY <1>1, StageMoves
<1>3. stage \in {"none", "stopping"} /\ (stage = "none" <=> srun[root].stage = "none")
      /\ (srun[root].stage = "none" => stage = srun[root].stage)
      BY <1>1, <1>2 DEF RootRun
<1> HIDE DEF root, stage
<1>4. /\ srun' \in [Roots -> RootRun] /\ \A u \in Roots : srun'[u].work = srun[u].work
      /\ \A u \in Roots : u # root => srun'[u] = srun[u]
      /\ srun'[root].stage = stage
      BY <1>1, <1>2, <1>3 DEF RootRun
<1>5. LaneTypes' /\ OpInOrder'
      BY <1>1, <1>2, <1>4 DEF LaneTypes, OpInOrder
<1>6. StoppedFirst'
      BY <1>1, <1>2, <1>3, <1>4 DEF TrashInv, StoppedFirst, S!Removing, OpInOrder, root
<1>7. SameTombstone'
      BY <1>1, <1>2 DEF TrashInv, SameTombstone, S!rows, root
<1>8. ASSUME NEW u \in Roots, smember[u] \in {"trash", "gone"} PROVE srun'[u] = srun[u] /\ u \notin stimers'
  <2>1. srun[u] = S!NoRun /\ u \notin stimers
        BY <1>8 DEF TrashInv, RemovedIsQuiet
  <2>2. ASSUME u = root PROVE srun' = srun
    <3>1. stage = srun[root].stage
          BY <1>3, <2>1, <2>2 DEF S!NoRun
    <3> QED BY <1>1, <1>2, <3>1 DEF RootRun
  <2> QED BY <1>1, <1>4, <2>1, <2>2
<1>9. \A u \in Roots : srun'[u].stage = "none" => srun[u].stage = "none"
      BY <1>3, <1>4
<1> QED BY <1>1, <1>4, <1>5, <1>6, <1>7, <1>8, <1>9, LaneKeeps

\* A run ends, and settles the row it was claimed for.
LEMMA RunEndsKeeps == ASSUME TrashInv, NEW r \in Roots, S!RunEnds(r) PROVE TrashInv'
<1> DEFINE work == srun[r].work
<1>1. PICK status \in {"completed", "interrupted"} :
          srow' = IF work = NoMessage THEN srow ELSE [srow EXCEPT ![work].status = status]
      BY DEF S!RunEnds, S!Settle
<1>2. /\ srun' = [srun EXCEPT ![r] = S!NoRun] /\ sop' = sop /\ sstarting' = sstarting
      /\ srun \in [Roots -> RootRun] /\ srow \in [Messages -> InboxRow]
      /\ work \in Messages \cup {NoMessage}
      /\ UNCHANGED <<smember, scontent, sdeletion, spurge_at, sbinding, sdeleted, stimers, sclaims, sclock>>
      BY DEF S!RunEnds, TrashInv, RowTypes, LaneTypes, RootRun
<1>3. /\ srun' \in [Roots -> RootRun] /\ srun'[r] = S!NoRun /\ \A u \in Roots : u # r => srun'[u] = srun[u]
      BY <1>2 DEF RootRun, S!NoRun
<1>4. work # NoMessage => srow[work].root = r /\ srow[work].status = "running"
      BY DEF TrashInv, RunsHaveRows
<1> HIDE DEF work
<1>5. /\ srow' \in [Messages -> InboxRow]
      /\ \A m \in Messages : srow'[m].root = srow[m].root
      /\ \A m \in Messages : m # work => srow'[m] = srow[m]
      /\ \A m \in Messages : m = work => srow'[m].status \in {"completed", "interrupted"}
      BY <1>1, <1>2, TrashConstants DEF InboxRow, RowStates
<1>6. RowTypes' /\ LaneTypes'
      BY <1>2, <1>3, <1>5 DEF TrashInv, RowTypes, LaneTypes
<1>7. OpInOrder' /\ SameTombstone'
      BY <1>2 DEF TrashInv, OpInOrder, SameTombstone
<1>8. StoppedFirst'
      BY <1>2, <1>3 DEF TrashInv, StoppedFirst, S!Removing, OpInOrder, S!NoRun
<1>9. RunsHaveRows'
  <2>1. ASSUME NEW u \in Roots, u # r, srun[u].work = work PROVE work = NoMessage
        BY <1>4, <2>1 DEF TrashInv, RunsHaveRows
  <2>2. \A u \in Roots : srun[u].work \in Messages \cup {NoMessage}
        BY <1>2 DEF RootRun
  <2> QED BY <1>3, <1>5, <2>1, <2>2 DEF TrashInv, RunsHaveRows, S!NoRun
<1>10. RowsHaveRoots'
      BY <1>4, <1>5, TrashConstants DEF TrashInv, RowsHaveRoots
<1>11. RemovedIsQuiet'
      BY <1>2, <1>3, <1>5 DEF TrashInv, RemovedIsQuiet, S!NoRun
<1>12. LiveAreThere' /\ ClaimedOnce'
      BY <1>2, <1>5 DEF TrashInv, LiveAreThere, ClaimedOnce
<1> QED BY <1>6, <1>7, <1>8, <1>9, <1>10, <1>11, <1>12 DEF TrashInv

\* A removal writes: the rows of the chat are settled or forgotten, and it is live no more.
LEMMA RemovalKeeps ==
    ASSUME TrashInv, sop.stage = "writing", S!Removing, NEW r \in Roots, sop.root = r,
           NEW to \in {"trash", "gone"}, NEW settled \in {"interrupted", "absent"},
           to = "trash" => settled = "interrupted", smember[r] \in {"live", "trash"},
           smember' = [smember EXCEPT ![r] = to],
           \A u \in Roots : u # r => sdeletion'[u] = sdeletion[u],
           sdeletion' \in [Roots -> Nat], spurge_at' \in [Roots -> Nat],
           scontent' \subseteq Roots, scontent \ {r} \subseteq scontent',
           sbinding' = IF sbinding = r THEN 0 ELSE sbinding,
           NEW mine \in SUBSET Messages, \A m \in mine : srow[m].root = r,
           \A m \in Messages : srow[m].root = r /\ srow[m].status \in {"queued", "running"} => m \in mine,
           srow' = [m \in Messages |-> IF m \in mine THEN [srow[m] EXCEPT !.status = settled] ELSE srow[m]],
           sdeleted' = sdeleted \cup (mine \cap Channeled),
           UNCHANGED <<S!lanes, sstarting, sclock>>, S!Over
    PROVE  TrashInv'
<1>1. /\ srow' \in [Messages -> InboxRow] /\ \A m \in Messages : srow'[m].root = srow[m].root
      /\ \A m \in Messages : m \notin mine => srow'[m] = srow[m]
      /\ \A m \in mine : srow'[m].status = settled
      BY DEF TrashInv, RowTypes, InboxRow, RowStates
<1>2. /\ smember' \in [Roots -> {"unborn", "live", "trash", "gone"}] /\ smember'[r] = to
      /\ \A u \in Roots : u # r => smember'[u] = smember[u]
      BY DEF TrashInv, RowTypes
<1>3. srun[r] = S!NoRun /\ r \notin stimers /\ sstarting = 0
      BY DEF TrashInv, StoppedFirst
<1>4. OpInOrder' /\ StoppedFirst' /\ SameTombstone'
  <2>1. OpInOrder' /\ sop'.stage \in {"none", "next"}
        BY OpIsOver DEF TrashInv
  <2> QED BY <2>1, NotRemoving
<1>5. RowTypes' /\ LaneTypes'
      BY <1>1, <1>2, TrashConstants DEF TrashInv, RowTypes, LaneTypes, S!lanes
<1>6. RunsHaveRows'
  <2>1. \A u \in Roots : srun[u].work \in Messages \cup {NoMessage}
        BY DEF TrashInv, LaneTypes, RootRun
  <2>2. ASSUME NEW u \in Roots, srun[u].work # NoMessage PROVE srun[u].work \notin mine
    <3>1. u # r
          BY <1>3, <2>2 DEF S!NoRun
    <3> QED BY <2>1, <2>2, <3>1 DEF TrashInv, RunsHaveRows
  <2> QED BY <1>1, <2>1, <2>2 DEF TrashInv, RunsHaveRows, S!lanes
<1>7. RowsHaveRoots'
      BY <1>1 DEF TrashInv, RowsHaveRoots
<1>8. RemovedIsQuiet'
  <2>1. \A m \in Messages : srow'[m].status = srow[m].status \/ srow'[m].status \in {"interrupted", "absent"}
        BY <1>1
  <2>2. sbinding' # r /\ (sbinding' = sbinding \/ sbinding' = 0)
        BY TrashConstants
  <2>3. \A m \in Messages : srow[m].root = r => srow'[m].status \notin {"queued", "running"}
        BY <1>1
  <2> QED BY <1>1, <1>2, <1>3, <2>1, <2>2, <2>3, TrashConstants DEF TrashInv, RemovedIsQuiet, S!lanes, S!NoRun
<1>9. LiveAreThere'
      BY <1>2, <1>3 DEF TrashInv, LiveAreThere
<1>10. ClaimedOnce'
  <2>1. ASSUME NEW m \in Messages, m \in mine, sclaims[m] # 0, settled = "absent"
        PROVE  IF m \in Channeled THEN m \in sdeleted' ELSE srow'[m].root \in Roots /\ smember'[srow'[m].root] = "gone"
        BY <1>1, <1>2, <2>1
  <2>2. ASSUME NEW m \in Messages, m \notin mine, sclaims[m] # 0, srow[m].status = "absent"
        PROVE  IF m \in Channeled THEN m \in sdeleted' ELSE srow'[m].root \in Roots /\ smember'[srow'[m].root] = "gone"
        BY <1>1, <1>2, <2>2 DEF TrashInv, ClaimedOnce
  <2>3. sclaims' = sclaims
        BY DEF S!lanes
  <2> QED BY <1>1, <2>1, <2>2, <2>3 DEF TrashInv, ClaimedOnce
<1> QED BY <1>4, <1>5, <1>6, <1>7, <1>8, <1>9, <1>10 DEF TrashInv

\* The transaction of an operation, and its end.
LEMMA WriteKeeps == ASSUME TrashInv, S!Write PROVE TrashInv'
<1>1. /\ sop.stage = "writing" /\ sop.root \in Roots /\ S!Over /\ sop.kind # "none"
      /\ UNCHANGED <<S!lanes, sstarting, sclock>>
      BY DEF TrashInv, OpInOrder, S!Write
<1>2. OpInOrder' /\ StoppedFirst' /\ SameTombstone'
  <2>1. OpInOrder' /\ sop'.stage \in {"none", "next"}
        BY <1>1, OpIsOver DEF TrashInv
  <2> QED BY <2>1, NotRemoving
<1>3. CASE UNCHANGED S!rows
      BY <1>1, <1>2, <1>3, ControlKeeps DEF TrashInv, LaneTypes
<1>4. CASE S!Writable /\ sop.kind = "restore" /\ S!Restored
  <2>1. /\ smember[sop.root] = "trash" /\ sop.root \in scontent
        /\ smember' = [smember EXCEPT ![sop.root] = "live"]
        /\ UNCHANGED <<scontent, sdeletion, spurge_at, sbinding, srow, sdeleted>>
        BY <1>4 DEF S!Writable, S!Removable, S!Generation, S!Restored
  <2>2. /\ smember' \in [Roots -> {"unborn", "live", "trash", "gone"}] /\ smember'[sop.root] = "live"
        /\ \A u \in Roots : u # sop.root => smember'[u] = smember[u]
        BY <1>1, <2>1 DEF TrashInv, RowTypes
  <2>3. RowTypes' /\ LaneTypes'
        BY <1>1, <2>1, <2>2 DEF TrashInv, RowTypes, LaneTypes, S!lanes
  <2>4. RunsHaveRows' /\ RowsHaveRoots' /\ RemovedIsQuiet'
        BY <1>1, <2>1, <2>2 DEF TrashInv, RunsHaveRows, RowsHaveRoots, RemovedIsQuiet, S!lanes, S!NoRun
  <2>5. LiveAreThere'
        BY <1>1, <2>1, <2>2 DEF TrashInv, LaneTypes, LiveAreThere
  <2>6. ClaimedOnce'
        BY <1>1, <2>1, <2>2 DEF TrashInv, ClaimedOnce, S!lanes
  <2> QED BY <1>2, <2>3, <2>4, <2>5, <2>6 DEF TrashInv
<1>5. CASE S!Writable /\ sop.kind = "delete" /\ S!Trash /\ smember[sop.root] # "trash"
  <2> DEFINE mine == {m \in S!RowsOf(sop.root) : S!Pending(m)}
  <2>1. /\ smember[sop.root] = "live" /\ smember' = [smember EXCEPT ![sop.root] = "trash"]
        /\ sdeletion' = [sdeletion EXCEPT ![sop.root] = @ + 1]
        /\ spurge_at' = [spurge_at EXCEPT ![sop.root] = sclock + Retention]
        /\ sbinding' = IF sbinding = sop.root THEN 0 ELSE sbinding
        /\ srow' = [m \in Messages |-> IF m \in mine THEN [srow[m] EXCEPT !.status = "interrupted"] ELSE srow[m]]
        /\ sdeleted' = sdeleted \cup (mine \cap Channeled) /\ scontent' = scontent
        BY <1>5 DEF S!Writable, S!Removable, S!Root, S!Trash, S!ReleaseBindings, S!Quarantine
  <2>2. /\ sdeletion' \in [Roots -> Nat] /\ spurge_at' \in [Roots -> Nat]
        /\ \A u \in Roots : u # sop.root => sdeletion'[u] = sdeletion[u]
        /\ scontent' \subseteq Roots /\ scontent \ {sop.root} \subseteq scontent'
        BY <1>1, <2>1, TrashConstants DEF TrashInv, RowTypes, LaneTypes
  <2>3. /\ mine \in SUBSET Messages /\ \A m \in mine : srow[m].root = sop.root
        /\ \A m \in Messages : srow[m].root = sop.root /\ srow[m].status \in {"queued", "running"} => m \in mine
        BY DEF S!RowsOf, S!Pending
  <2>4. S!Removing
        BY <1>1, <1>5 DEF S!Removing
  <2> HIDE DEF mine
  <2> QED BY <1>1, <2>1, <2>2, <2>3, <2>4, RemovalKeeps
<1>6. CASE S!Writable /\ sop.kind \notin {"delete", "restore"} /\ S!RemoveContent
  <2> DEFINE mine == S!RowsOf(sop.root)
  <2>1. /\ smember[sop.root] \in {"live", "trash"} /\ smember' = [smember EXCEPT ![sop.root] = "gone"]
        /\ sdeletion' = sdeletion /\ spurge_at' = spurge_at
        /\ sbinding' = IF sbinding = sop.root THEN 0 ELSE sbinding
        /\ srow' = [m \in Messages |-> IF m \in mine THEN [srow[m] EXCEPT !.status = "absent"] ELSE srow[m]]
        /\ sdeleted' = sdeleted \cup (mine \cap Channeled) /\ scontent' = scontent \ {sop.root}
        BY <1>6 DEF S!Writable, S!Removable, S!Root, S!Generation, S!RemoveContent, S!ReleaseBindings
  <2>2. /\ sdeletion' \in [Roots -> Nat] /\ spurge_at' \in [Roots -> Nat]
        /\ \A u \in Roots : u # sop.root => sdeletion'[u] = sdeletion[u]
        /\ scontent' \subseteq Roots /\ scontent \ {sop.root} \subseteq scontent'
        BY <2>1 DEF TrashInv, RowTypes
  <2>3. /\ mine \in SUBSET Messages /\ \A m \in mine : srow[m].root = sop.root
        /\ \A m \in Messages : srow[m].root = sop.root /\ srow[m].status \in {"queued", "running"} => m \in mine
        BY DEF S!RowsOf
  <2>4. S!Removing
        BY <1>1, <1>6 DEF S!Removing
  <2> HIDE DEF mine
  <2> QED BY <1>1, <2>1, <2>2, <2>3, <2>4, RemovalKeeps
<1> QED
  <2>1. CASE UNCHANGED S!rows
        BY <1>3, <2>1
  <2>2. CASE S!Writable /\ (CASE sop.kind = "delete" -> S!Trash [] sop.kind = "restore" -> S!Restored [] OTHER -> S!RemoveContent)
    <3>1. CASE sop.kind = "delete"
      <4>1. S!Trash
            BY <2>2, <3>1
      <4>2. smember[sop.root] = "trash" => UNCHANGED S!rows
            BY <4>1 DEF S!Trash
      <4> QED BY <1>3, <1>5, <2>2, <3>1, <4>1, <4>2
    <3>2. CASE sop.kind = "restore"
          BY <1>4, <2>2, <3>2
    <3>3. CASE sop.kind \notin {"delete", "restore"}
          BY <1>6, <2>2, <3>3
    <3> QED BY <3>1, <3>2, <3>3
  <2> QED BY <2>1, <2>2 DEF S!Write

\* A crash ends every run, timer, start and operation.
LEMMA CrashKeepsChats == ASSUME TrashInv, S!Restart PROVE TrashInv'
<1>1. /\ srow' = [m \in Messages |-> IF srow[m].status = "running" THEN [srow[m] EXCEPT !.status = "interrupted"] ELSE srow[m]]
      /\ srun' = [r \in Roots |-> S!NoRun] /\ stimers' = {} /\ sop' = S!NoOp /\ sstarting' = 0
      /\ UNCHANGED <<smember, scontent, sdeletion, spurge_at, sbinding, sdeleted, sclaims, sclock>>
      BY DEF S!Restart
<1>2. /\ srow' \in [Messages -> InboxRow] /\ \A m \in Messages : srow'[m].root = srow[m].root
      /\ \A m \in Messages : srow'[m].status = srow[m].status \/ (srow[m].status = "running" /\ srow'[m].status = "interrupted")
      BY <1>1 DEF TrashInv, RowTypes, InboxRow, RowStates
<1>3. \A r \in Roots : srun'[r] = S!NoRun
      BY <1>1
<1>4. OpInOrder' /\ sop'.stage = "none"
      BY <1>1 DEF OpInOrder, Operation, S!NoOp
<1>5. StoppedFirst' /\ SameTombstone'
      BY <1>4, NotRemoving
<1>6. RowTypes'
      BY <1>1, <1>2 DEF TrashInv, RowTypes
<1>7. LaneTypes'
      BY <1>1 DEF TrashInv, LaneTypes, RootRun, S!NoRun
<1>8. RunsHaveRows' /\ RowsHaveRoots'
      BY <1>2, <1>3 DEF TrashInv, RunsHaveRows, RowsHaveRoots, S!NoRun
<1>9. RemovedIsQuiet'
      BY <1>1, <1>2, <1>3 DEF TrashInv, RemovedIsQuiet, S!NoRun
<1>10. LiveAreThere' /\ ClaimedOnce'
      BY <1>1, <1>2 DEF TrashInv, LiveAreThere, ClaimedOnce
<1> QED BY <1>4, <1>5, <1>6, <1>7, <1>8, <1>9, <1>10 DEF TrashInv

LEMMA TrashStep == ASSUME TrashInv, [S!Next]_(S!vars) PROVE TrashInv'
<1>1. CASE UNCHANGED S!vars
  <2>1. sop' = sop /\ UNCHANGED <<S!rows, S!lanes, sstarting, sclock>>
        BY <1>1 DEF S!vars
  <2> QED BY <2>1, SameOpKeeps DEF TrashInv, LaneTypes
<1>2. CASE S!Next
  <2>1. CASE S!Tick \/ \E r \in Roots : S!Block(r)
        BY <2>1, TickKeeps
  <2>2. CASE \E m \in Messages : S!Receive(m) \/ S!Claim(m) \/ \E r \in Roots : S!Submit(m, r)
        BY <2>2, ReceiveKeeps, ClaimRowKeeps, SubmitKeeps
  <2>3. CASE \E r \in Roots : S!Open(r) \/ S!Schedule(r) \/ S!Fire(r) \/ S!RunEnds(r) \/ S!StartTask(r)
        BY <2>3, OpenKeeps, TimersKeep, RunEndsKeeps, StartTaskKeeps
  <2>4. CASE \E kind \in {"delete", "permanent", "restore", "purge"}, r \in Roots, g \in 0..MaxRequests : S!Begin(kind, r, g)
        BY <2>4, BeginOpKeeps
  <2>5. CASE S!Launch \/ S!BeginSweep \/ S!OpStep \/ S!Restart
        BY <2>5, LaunchKeeps, SweepKeeps, LockKeeps, CheckKeeps, ReleaseKeeps, JoinedKeeps, WriteKeeps, CrashKeepsChats
           DEF S!OpStep
  <2> QED BY <1>2, <2>1, <2>2, <2>3, <2>4, <2>5 DEF S!Next
<1> QED BY <1>1, <1>2

LEMMA TrashStarts == ASSUME S!Init PROVE TrashInv
<1>1. RowTypes
      BY TrashConstants DEF S!Init, RowTypes, InboxRow, RowStates
<1>2. LaneTypes
      BY DEF S!Init, LaneTypes, RootRun, S!NoRun
<1>3. OpInOrder /\ StoppedFirst /\ SameTombstone
      BY DEF S!Init, OpInOrder, StoppedFirst, SameTombstone, S!Removing, S!NoOp, Operation
<1>4. RunsHaveRows /\ RowsHaveRoots
      BY DEF S!Init, RunsHaveRows, RowsHaveRoots, S!NoRun
<1>5. RemovedIsQuiet
      BY DEF S!Init, RemovedIsQuiet, S!NoRun
<1>6. LiveAreThere /\ ClaimedOnce
      BY TrashConstants DEF S!Init, LiveAreThere, ClaimedOnce
<1> QED BY <1>1, <1>2, <1>3, <1>4, <1>5, <1>6 DEF TrashInv

LEMMA TrashIsExact == ASSUME TrashInv PROVE S!RemovalIsExact
BY DEF TrashInv, RemovedIsQuiet, SameTombstone, LiveAreThere, ClaimedOnce, S!RemovalIsExact, S!RowsOf, S!Pending

\* A chat that was removed is quiet, a purge erases the tombstone it was asked
\* to erase and no other, a live chat has its history, and a message is claimed
\* at most once, through crashes, redeliveries and restorations.
THEOREM RemovalsAreExact == S!Spec => []RemovalIsExact
<1>1. S!Init => TrashInv
      BY TrashStarts
<1>2. TrashInv /\ [S!Next]_(S!vars) => TrashInv'
      BY TrashStep
<1>3. TrashInv => RemovalIsExact
      BY TrashIsExact DEF RemovalIsExact
<1> QED BY <1>1, <1>2, <1>3, PTL DEF S!Spec

LEMMA TrashAmongServices == ServicesSpec => S!Spec
<1>1. ServicesInit => S!Init
      BY DEF ServicesInit
<1>2. [ServicesNext]_<<which, vars, server, receipts, trash, timers, approvals, voice, tools, calls>>
          => [S!Next]_(S!vars)
      BY DEF ServicesNext, trash, S!vars, S!rows, S!lanes
<1> QED BY <1>1, <1>2, PTL DEF ServicesSpec, S!Spec

\* And they are exact in the composition that the runs check.
THEOREM RemovalsAreExactAmongServices == ServicesSpec => []RemovalIsExact
BY TrashAmongServices, RemovalsAreExact, PTL

-----------------------------------------------------------------------------
(***************************************************************************)
(* The A2A server: OnceAndForAll.  One call of a task is under way at a    *)
(* time, and it is the reply that the task waits for (CallsInOrder); what  *)
(* drives a call knows the version of its task, or the task has ended;     *)
(* workers of one context exclude each other (LocksExclude); and the row   *)
(* of an authorization, its future and its worker agree                    *)
(* (ApprovalsInOrder).                                                     *)
(***************************************************************************)

Final == {"completed", "failed", "canceled", "rejected"}
TaskUpdates == {"working", "input", "auth"} \cup Final
TaskStates == {"absent", "submitted"} \cup TaskUpdates
CallStages == {"idle", "admitted", "started", "reading", "replying", "draining", "stopping", "over"}
Workers == {"none", "created", "locking", "running", "input", "approval", "finishing",
            "done", "failing", "denied", "aborting", "ended"}
Driving == {"running", "input", "approval", "finishing", "done", "failing", "denied", "aborting"}
Authorization == [row : {"none", "pending", "approved", "denied", "expired", "canceled", "interrupted", "consumed"},
                  future : {"open", "approved", "denied", "gone"}, expired : BOOLEAN]

StoreTypes ==
    /\ astate \in [Tasks -> TaskStates] /\ aknown \in [Tasks -> BOOLEAN]
    /\ amessages \in [TaskMessages -> [task : Tasks \cup {NoId}, started : BOOLEAN]]
    /\ aclaims \in [Tasks -> TaskMessages \cup {NoId}]

CallTypes ==
    /\ acall \in [TaskMessages -> CallStages] /\ agiven \in [TaskMessages -> Nat]

WorkerTypes ==
    /\ aworker \in [Tasks -> Workers] /\ aasked \in [Tasks -> {"none", "open", "set"}]
    /\ aupdates \in [Tasks -> Seq(TaskUpdates)]

ApprovalTypes ==
    /\ aauth \in [Tasks -> Authorization] /\ aacted \in [Tasks -> Nat]
    /\ adeciding.task \in Tasks \cup {NoId}

\* A call of a reserved message that is under way.
UnderWay(m) == acall[m] \notin {"idle", "over"}
TaskOf(m) == amessages[m].task

CallsInOrder ==
    /\ \A m \in TaskMessages : acall[m] # "idle" => TaskOf(m) \in Tasks
    /\ \A m \in TaskMessages : TaskOf(m) \in Tasks => astate[TaskOf(m)] # "absent"
    /\ \A m, n \in TaskMessages : UnderWay(m) /\ UnderWay(n) /\ TaskOf(m) = TaskOf(n) => m = n
    /\ \A t \in Tasks : ~aknown[t] => astate[t] \in Final
    /\ \A m \in TaskMessages : acall[m] \in {"started", "reading", "replying", "draining"} /\ aknown[TaskOf(m)] =>
          astate[TaskOf(m)] \notin Final
    /\ \A m \in TaskMessages : UnderWay(m) /\ astate[TaskOf(m)] = "input" => aclaims[TaskOf(m)] = m
    /\ \A m \in TaskMessages : agiven[m] <= 1 /\ (agiven[m] # 0 => acall[m] \in {"draining", "stopping", "over"})
    /\ \A m \in TaskMessages : acall[m] = "draining" /\ aworker[TaskOf(m)] \in {"created", "locking"} => agiven[m] = 0

LocksExclude ==
    /\ \A t, u \in Tasks : t # u /\ ContextOf[t] = ContextOf[u] => ~(aworker[t] \in Driving /\ aworker[u] \in Driving)
    /\ \A t \in Tasks : aasked[t] # "none" => aworker[t] = "input"

\* Of one task: the row is pending while its future is open, and a future that
\* waits has a worker that will take it away.
ApprovalInOrder(t) ==
    /\ aauth[t].future = "open" <=> aauth[t].row = "pending"
    /\ aauth[t].future = "approved" => aauth[t].row = "approved"
    /\ aauth[t].future # "gone" => aacted[t] = 0 /\ aworker[t] \in {"approval", "finishing", "aborting"}
    /\ aacted[t] <= 1
    /\ aacted[t] = 1 => aauth[t].row = "approved"

ServerInv ==
    /\ StoreTypes /\ CallTypes /\ WorkerTypes /\ ApprovalTypes
    /\ CallsInOrder /\ LocksExclude /\ \A t \in Tasks : ApprovalInOrder(t)

LEMMA ServerConstants == NoId \notin Tasks /\ NoId \notin TaskMessages
BY ServicesAssumption DEF ServicesAssumption, A!A2AAssumption

\* What a save makes of a task: a cancel ends what has not ended, any other
\* update needs the version of the task.
LEMMA Saves ==
    ASSUME StoreTypes, NEW t \in Tasks, NEW new \in TaskUpdates, A!Save(t, new)
    PROVE  LET accepted == IF new = "canceled" THEN astate[t] \notin Final ELSE aknown[t]
           IN  /\ astate' \in [Tasks -> TaskStates] /\ aknown' \in [Tasks -> BOOLEAN]
               /\ aclaims' \in [Tasks -> TaskMessages \cup {NoId}]
               /\ \A u \in Tasks : u # t => astate'[u] = astate[u] /\ (aknown'[u] <=> aknown[u]) /\ aclaims'[u] = aclaims[u]
               /\ astate'[t] = IF accepted THEN new ELSE astate[t]
               /\ aknown'[t] <=> aknown[t] /\ ~(accepted /\ new = "canceled")
               /\ aclaims'[t] = IF accepted /\ new # "input" THEN NoId ELSE aclaims[t]
<1> DEFINE accepted == IF new = "canceled" THEN astate[t] \notin Final ELSE aknown[t]
<1>1. /\ astate' = [astate EXCEPT ![t] = IF accepted THEN new ELSE @]
      /\ aknown' = [aknown EXCEPT ![t] = @ /\ ~(accepted /\ new = "canceled")]
      /\ aclaims' = [aclaims EXCEPT ![t] = IF accepted /\ new # "input" THEN NoId ELSE @]
      BY DEF A!Save, A!TERMINAL, Final
<1>2. new \in TaskStates
      BY DEF TaskStates
<1> HIDE DEF accepted
<1>3. /\ astate' \in [Tasks -> TaskStates] /\ \A u \in Tasks : u # t => astate'[u] = astate[u]
      /\ astate'[t] = IF accepted THEN new ELSE astate[t]
      BY <1>1, <1>2 DEF StoreTypes
<1>4. /\ aclaims' \in [Tasks -> TaskMessages \cup {NoId}] /\ \A u \in Tasks : u # t => aclaims'[u] = aclaims[u]
      /\ aclaims'[t] = IF accepted /\ new # "input" THEN NoId ELSE aclaims[t]
      BY <1>1 DEF StoreTypes
<1>5. aknown' \in [Tasks -> BOOLEAN]
      BY <1>1 DEF StoreTypes
<1>6. /\ \A u \in Tasks : u # t => (aknown'[u] <=> aknown[u])
      /\ aknown'[t] <=> aknown[t] /\ ~(accepted /\ new = "canceled")
      BY <1>1 DEF StoreTypes
<1> QED BY <1>3, <1>4, <1>5, <1>6 DEF accepted

\* A step of one call, and of the worker of its task.
LEMMA CallFrame ==
    ASSUME ServerInv, NEW m \in TaskMessages, UnderWay(m), NEW t \in Tasks, TaskOf(m) = t,
           \A n \in TaskMessages : amessages'[n].task = amessages[n].task,
           \A n \in TaskMessages : n # m => acall'[n] = acall[n] /\ agiven'[n] = agiven[n],
           \A u \in Tasks : u # t => /\ astate'[u] = astate[u] /\ (aknown'[u] <=> aknown[u])
                                     /\ aclaims'[u] = aclaims[u] /\ aworker'[u] = aworker[u],
           acall'[m] # "idle", astate'[t] # "absent", ~aknown'[t] => astate'[t] \in Final,
           acall'[m] \in {"started", "reading", "replying", "draining"} /\ aknown'[t] => astate'[t] \notin Final,
           acall'[m] # "over" /\ astate'[t] = "input" => aclaims'[t] = m,
           agiven'[m] <= 1, agiven'[m] # 0 => acall'[m] \in {"draining", "stopping", "over"},
           acall'[m] = "draining" /\ aworker'[t] \in {"created", "locking"} => agiven'[m] = 0
    PROVE  CallsInOrder'
<1>1. \A n \in TaskMessages : n # m /\ acall[n] # "idle" => TaskOf(n) \in Tasks
      BY DEF ServerInv, CallsInOrder
<1>2. \A n \in TaskMessages : n # m /\ UnderWay(n) => TaskOf(n) \in Tasks \ {t}
      BY <1>1 DEF ServerInv, CallsInOrder, UnderWay
<1>3. \A n \in TaskMessages : n # m => (UnderWay(n)' <=> UnderWay(n)) /\ TaskOf(n)' = TaskOf(n)
      BY DEF UnderWay, TaskOf
<1>4. TaskOf(m)' = t
      BY DEF TaskOf
<1>5. \A n \in TaskMessages : acall'[n] # "idle" => TaskOf(n)' \in Tasks
      BY <1>1, <1>3, <1>4
<1>6. \A n \in TaskMessages : TaskOf(n)' \in Tasks => astate'[TaskOf(n)'] # "absent"
      BY <1>3, <1>4 DEF ServerInv, CallsInOrder
<1>7. \A n, o \in TaskMessages : UnderWay(n)' /\ UnderWay(o)' /\ TaskOf(n)' = TaskOf(o)' => n = o
      BY <1>2, <1>3, <1>4 DEF ServerInv, CallsInOrder
<1>8. \A u \in Tasks : ~aknown'[u] => astate'[u] \in Final
      BY DEF ServerInv, CallsInOrder
<1>9. \A n \in TaskMessages : acall'[n] \in {"started", "reading", "replying", "draining"} /\ aknown'[TaskOf(n)'] =>
          astate'[TaskOf(n)'] \notin Final
      BY <1>2, <1>3, <1>4 DEF ServerInv, CallsInOrder, UnderWay
<1>10. \A n \in TaskMessages : UnderWay(n)' /\ astate'[TaskOf(n)'] = "input" => aclaims'[TaskOf(n)'] = n
      BY <1>2, <1>3, <1>4 DEF ServerInv, CallsInOrder, UnderWay
<1>11. \A n \in TaskMessages : agiven'[n] <= 1 /\ (agiven'[n] # 0 => acall'[n] \in {"draining", "stopping", "over"})
      BY DEF ServerInv, CallsInOrder
<1>12. \A n \in TaskMessages : acall'[n] = "draining" /\ aworker'[TaskOf(n)'] \in {"created", "locking"} => agiven'[n] = 0
      BY <1>2, <1>3, <1>4 DEF ServerInv, CallsInOrder, UnderWay
<1> QED BY <1>5, <1>6, <1>7, <1>8, <1>9, <1>10, <1>11, <1>12 DEF CallsInOrder

\* A step that touches no call and no row of a task, but the worker of one.
LEMMA CallsRest ==
    ASSUME ServerInv, UNCHANGED <<astate, aknown, amessages, aclaims, acall, agiven>>, NEW t \in Tasks,
           \A u \in Tasks : u # t => aworker'[u] = aworker[u],
           aworker'[t] \in {"created", "locking"} => aworker[t] \in {"created", "locking"}
    PROVE  CallsInOrder'
BY DEF ServerInv, CallsInOrder, UnderWay, TaskOf

LEMMA LocksFrame ==
    ASSUME ServerInv, NEW t \in Tasks,
           \A u \in Tasks : u # t => aworker'[u] = aworker[u] /\ aasked'[u] = aasked[u],
           aworker'[t] \in Driving => aworker[t] \in Driving \/ A!LockFree(t),
           aasked'[t] # "none" => aworker'[t] = "input"
    PROVE  LocksExclude'
<1>1. A!LockFree(t) => \A u \in Tasks \ {t} : ContextOf[u] = ContextOf[t] => aworker[u] \notin Driving
      BY DEF A!LockFree, A!Holding, Driving
<1> QED BY <1>1 DEF ServerInv, LocksExclude

\* A worker moves on, and leaves its authorization as it is.
LEMMA ApprovalsRest ==
    ASSUME ServerInv, NEW t \in Tasks, UNCHANGED <<aauth, aacted>>,
           \A u \in Tasks : u # t => aworker'[u] = aworker[u],
           aworker[t] \in {"approval", "finishing", "aborting"} => aworker'[t] \in {"approval", "finishing", "aborting"}
    PROVE  (\A u \in Tasks : ApprovalInOrder(u))'
BY DEF ServerInv, ApprovalInOrder

\* A task that ended stays as it ended, and nothing is approved for it any more.
StaysFinal ==
    \A t \in Tasks : astate[t] \in Final =>
        astate'[t] = astate[t] /\ (aauth'[t].row = "approved" => aauth[t].row = "approved")

\* A step of the store and of the calls only.
LEMMA WorkersRest ==
    ASSUME ServerInv, UNCHANGED <<aworker, aasked, aauth, aacted>>
    PROVE  LocksExclude' /\ (\A t \in Tasks : ApprovalInOrder(t))'
BY DEF ServerInv, LocksExclude, ApprovalInOrder

\* A message is reserved for a task that has no call under way.
LEMMA NewCall ==
    ASSUME ServerInv, NEW m \in TaskMessages, NEW t \in Tasks, TaskOf(m) = NoId,
           \A n \in TaskMessages : TaskOf(n) = t => ~UnderWay(n),
           amessages' = [amessages EXCEPT ![m] = [task |-> t, started |-> FALSE]],
           acall' = [acall EXCEPT ![m] = "admitted"],
           \A u \in Tasks : u # t => astate'[u] = astate[u] /\ aclaims'[u] = aclaims[u],
           astate[t] \notin Final, astate'[t] \notin Final \cup {"absent"},
           astate'[t] = "input" => aclaims'[t] = m,
           UNCHANGED <<aknown, agiven, aworker>>
    PROVE  CallsInOrder' /\ CallTypes' /\ amessages' \in [TaskMessages -> [task : Tasks \cup {NoId}, started : BOOLEAN]]
<1>1. /\ amessages' \in [TaskMessages -> [task : Tasks \cup {NoId}, started : BOOLEAN]] /\ TaskOf(m)' = t
      /\ \A n \in TaskMessages : n # m => TaskOf(n)' = TaskOf(n)
  <2>1. [task |-> t, started |-> FALSE] \in [task : Tasks \cup {NoId}, started : BOOLEAN]
        OBVIOUS
  <2>2. amessages \in [TaskMessages -> [task : Tasks \cup {NoId}, started : BOOLEAN]]
        BY DEF ServerInv, StoreTypes
  <2>3. amessages' \in [TaskMessages -> [task : Tasks \cup {NoId}, started : BOOLEAN]]
        BY <2>1, <2>2
  <2>4. amessages'[m].task = t /\ \A n \in TaskMessages : n # m => amessages'[n] = amessages[n]
        BY <2>2
  <2> QED BY <2>3, <2>4 DEF TaskOf
<1>2. CallTypes' /\ acall'[m] = "admitted" /\ \A n \in TaskMessages : n # m => acall'[n] = acall[n]
      BY DEF ServerInv, CallTypes, CallStages
<1>3. acall[m] = "idle" /\ agiven[m] = 0
      BY ServerConstants DEF ServerInv, CallsInOrder, CallTypes
<1>4. \A n \in TaskMessages : n # m => (UnderWay(n)' <=> UnderWay(n))
      BY <1>2 DEF UnderWay
<1>5. \A n \in TaskMessages : acall'[n] # "idle" => TaskOf(n)' \in Tasks
      BY <1>1, <1>2 DEF ServerInv, CallsInOrder
<1>6. \A n \in TaskMessages : TaskOf(n)' \in Tasks => astate'[TaskOf(n)'] # "absent"
      BY <1>1 DEF ServerInv, CallsInOrder
<1>7. \A n, o \in TaskMessages : UnderWay(n)' /\ UnderWay(o)' /\ TaskOf(n)' = TaskOf(o)' => n = o
      BY <1>1, <1>4 DEF ServerInv, CallsInOrder
<1>8. \A u \in Tasks : ~aknown'[u] => astate'[u] \in Final
      BY DEF ServerInv, CallsInOrder
<1>9. \A n \in TaskMessages : acall'[n] \in {"started", "reading", "replying", "draining"} /\ aknown'[TaskOf(n)'] =>
          astate'[TaskOf(n)'] \notin Final
      BY <1>1, <1>2 DEF ServerInv, CallsInOrder
<1>10. \A n \in TaskMessages : UnderWay(n)' /\ astate'[TaskOf(n)'] = "input" => aclaims'[TaskOf(n)'] = n
  <2>1. \A n \in TaskMessages : n # m /\ UnderWay(n) => TaskOf(n) \in Tasks \ {t}
        BY DEF ServerInv, CallsInOrder, UnderWay
  <2> QED BY <1>1, <1>4, <2>1 DEF ServerInv, CallsInOrder
<1>11. \A n \in TaskMessages : agiven'[n] <= 1 /\ (agiven'[n] # 0 => acall'[n] \in {"draining", "stopping", "over"})
      BY <1>2, <1>3 DEF ServerInv, CallsInOrder
<1>12. \A n \in TaskMessages : acall'[n] = "draining" /\ aworker'[TaskOf(n)'] \in {"created", "locking"} => agiven'[n] = 0
      BY <1>1, <1>2 DEF ServerInv, CallsInOrder
<1>13. CallsInOrder'
      BY <1>5, <1>6, <1>7, <1>8, <1>9, <1>10, <1>11, <1>12 DEF CallsInOrder
<1> QED BY <1>1, <1>2, <1>13

LEMMA ReserveKeeps ==
    ASSUME ServerInv, NEW m \in TaskMessages, NEW t \in Tasks, A!Reserve(m, t) \/ A!Reply(m, t)
    PROVE  ServerInv' /\ StaysFinal
<1>1. /\ TaskOf(m) = NoId
      /\ amessages' = [amessages EXCEPT ![m] = [task |-> t, started |-> FALSE]]
      /\ acall' = [acall EXCEPT ![m] = "admitted"]
      /\ UNCHANGED <<aknown, agiven, aworker, aasked, aupdates, aauth, aacted, adeciding>>
      BY DEF A!Reserve, A!Reply, A!Unreserved, A!TaskOf, TaskOf, A!approvals, A!execution
<1>2. LocksExclude' /\ (\A u \in Tasks : ApprovalInOrder(u))' /\ WorkerTypes' /\ ApprovalTypes'
      BY <1>1, WorkersRest DEF ServerInv, WorkerTypes, ApprovalTypes
<1>3. CASE A!Reserve(m, t)
  <2>1. astate[t] = "absent" /\ astate' = [astate EXCEPT ![t] = "submitted"] /\ aclaims' = aclaims
        BY <1>3 DEF A!Reserve
  <2>2. /\ astate' \in [Tasks -> TaskStates] /\ astate'[t] = "submitted" /\ \A u \in Tasks : u # t => astate'[u] = astate[u]
        BY <2>1 DEF ServerInv, StoreTypes, TaskStates
  <2>3. \A n \in TaskMessages : TaskOf(n) # t
        BY <2>1 DEF ServerInv, CallsInOrder
  <2>4. "absent" \notin Final /\ "submitted" \notin Final \cup {"absent"} /\ "submitted" # "input"
        BY DEF Final
  <2>5. CallsInOrder' /\ CallTypes' /\ amessages' \in [TaskMessages -> [task : Tasks \cup {NoId}, started : BOOLEAN]]
        BY <1>1, <2>1, <2>2, <2>3, <2>4, NewCall
  <2>6. StoreTypes'
        BY <1>1, <2>1, <2>2, <2>5 DEF ServerInv, StoreTypes
  <2>7. StaysFinal
        BY <1>1, <2>1, <2>2, <2>4 DEF StaysFinal
  <2> QED BY <1>2, <2>5, <2>6, <2>7 DEF ServerInv
<1>4. CASE A!Reply(m, t)
  <2>1. astate[t] = "input" /\ aclaims[t] = NoId /\ aclaims' = [aclaims EXCEPT ![t] = m] /\ astate' = astate
        BY <1>4 DEF A!Reply
  <2>2. /\ aclaims' \in [Tasks -> TaskMessages \cup {NoId}] /\ aclaims'[t] = m
        /\ \A u \in Tasks : u # t => aclaims'[u] = aclaims[u]
        BY <2>1 DEF ServerInv, StoreTypes
  <2>3. \A n \in TaskMessages : TaskOf(n) = t => ~UnderWay(n)
        BY <2>1, ServerConstants DEF ServerInv, CallsInOrder
  <2>4. "input" \notin Final \cup {"absent"}
        BY DEF Final
  <2>5. CallsInOrder' /\ CallTypes' /\ amessages' \in [TaskMessages -> [task : Tasks \cup {NoId}, started : BOOLEAN]]
        BY <1>1, <2>1, <2>2, <2>3, <2>4, NewCall
  <2>6. StoreTypes'
        BY <1>1, <2>1, <2>2, <2>5 DEF ServerInv, StoreTypes
  <2>7. StaysFinal
        BY <1>1, <2>1 DEF StaysFinal
  <2> QED BY <1>2, <2>5, <2>6, <2>7 DEF ServerInv
<1> QED BY <1>3, <1>4

\* A call moves on, and nothing else happens but to the claim of its task.
LEMMA CallMoves ==
    ASSUME ServerInv, NEW m \in TaskMessages, UnderWay(m), NEW c \in {"started", "reading", "stopping", "over"},
           acall' = [acall EXCEPT ![m] = c],
           \A n \in TaskMessages : amessages'[n].task = amessages[n].task,
           amessages' \in [TaskMessages -> [task : Tasks \cup {NoId}, started : BOOLEAN]],
           NEW claim \in TaskMessages \cup {NoId}, aclaims' = [aclaims EXCEPT ![TaskOf(m)] = claim],
           c = "over" \/ claim = aclaims[TaskOf(m)],
           c \in {"started", "reading"} => astate[TaskOf(m)] \notin Final \/ ~aknown[TaskOf(m)],
           c \in {"started", "reading"} => agiven[m] = 0,
           UNCHANGED <<astate, aknown, agiven, aworker, aasked, aupdates, aauth, aacted, adeciding>>
    PROVE  ServerInv' /\ StaysFinal
<1>1. TaskOf(m) \in Tasks
      BY DEF ServerInv, CallsInOrder, UnderWay
<1>2. PICK t \in Tasks : t = TaskOf(m)
      BY <1>1
<1>3. CallTypes' /\ acall'[m] = c /\ \A n \in TaskMessages : n # m => acall'[n] = acall[n]
      BY DEF ServerInv, CallTypes, CallStages
<1>4. /\ aclaims' \in [Tasks -> TaskMessages \cup {NoId}] /\ aclaims'[t] = claim
      /\ \A u \in Tasks : u # t => aclaims'[u] = aclaims[u]
      BY <1>2 DEF ServerInv, StoreTypes
<1>5. LocksExclude' /\ (\A u \in Tasks : ApprovalInOrder(u))' /\ WorkerTypes' /\ ApprovalTypes'
      BY WorkersRest DEF ServerInv, WorkerTypes, ApprovalTypes
<1>6. StoreTypes'
      BY <1>4 DEF ServerInv, StoreTypes
<1>7. /\ astate[t] # "absent" /\ (~aknown[t] => astate[t] \in Final) /\ agiven[m] <= 1
      /\ astate[t] = "input" => aclaims[t] = m
      BY <1>2 DEF ServerInv, CallsInOrder
<1>8. c \in CallStages /\ c # "idle" /\ (agiven[m] # 0 => c \in {"draining", "stopping", "over"})
      BY DEF CallStages
<1>9. CallsInOrder'
      BY <1>2, <1>3, <1>4, <1>7, <1>8, CallFrame
<1>10. StaysFinal
      BY DEF StaysFinal
<1> QED BY <1>3, <1>5, <1>6, <1>9, <1>10 DEF ServerInv

LEMMA DispatchKeeps ==
    ASSUME ServerInv, NEW m \in TaskMessages, A!Dispatch(m) \/ A!Refused(m) \/ A!Release(m)
    PROVE  ServerInv' /\ StaysFinal
<1>1. /\ UNCHANGED <<astate, aknown, agiven, aworker, aasked, aupdates, aauth, aacted, adeciding>>
      /\ acall[m] \in {"admitted", "draining"}
      BY DEF A!Dispatch, A!Refused, A!Release, A!approvals, A!execution, A!store
<1>2. UnderWay(m) /\ (acall[m] = "admitted" => agiven[m] = 0)
      BY <1>1 DEF UnderWay, ServerInv, CallsInOrder, CallTypes
<1>3. TaskOf(m) \in Tasks /\ aclaims \in [Tasks -> TaskMessages \cup {NoId}] /\ aclaims[TaskOf(m)] \in TaskMessages \cup {NoId}
      BY <1>2 DEF UnderWay, ServerInv, CallsInOrder, StoreTypes
<1>4. amessages \in [TaskMessages -> [task : Tasks \cup {NoId}, started : BOOLEAN]]
      BY DEF ServerInv, StoreTypes
<1>5. CASE A!Dispatch(m)
  <2>1. /\ acall[m] = "admitted" /\ astate[TaskOf(m)] \notin Final /\ acall' = [acall EXCEPT ![m] = "started"]
        /\ amessages' = [amessages EXCEPT ![m].started = TRUE] /\ aclaims' = aclaims
        BY <1>5 DEF A!Dispatch, A!TaskOf, TaskOf, A!TERMINAL, Final
  <2>2. /\ amessages' \in [TaskMessages -> [task : Tasks \cup {NoId}, started : BOOLEAN]]
        /\ \A n \in TaskMessages : amessages'[n].task = amessages[n].task
        BY <1>4, <2>1
  <2>3. aclaims' = [aclaims EXCEPT ![TaskOf(m)] = aclaims[TaskOf(m)]]
        BY <1>3, <2>1
  <2> QED BY <1>1, <1>2, <1>3, <2>1, <2>2, <2>3, CallMoves
<1>6. CASE A!Refused(m)
  <2>1. PICK claim \in TaskMessages \cup {NoId} : aclaims' = [aclaims EXCEPT ![TaskOf(m)] = claim]
        BY <1>3, <1>6 DEF A!Refused, A!TaskOf, TaskOf
  <2>2. acall' = [acall EXCEPT ![m] = "over"] /\ amessages' = amessages
        BY <1>6 DEF A!Refused
  <2> QED BY <1>1, <1>2, <1>4, <2>1, <2>2, CallMoves
<1>7. CASE A!Release(m)
  <2>1. acall' = [acall EXCEPT ![m] = "stopping"] /\ amessages' = amessages /\ aclaims' = aclaims
        BY <1>7 DEF A!Release, A!store
  <2>2. aclaims' = [aclaims EXCEPT ![TaskOf(m)] = aclaims[TaskOf(m)]]
        BY <1>3, <2>1
  <2> QED BY <1>1, <1>2, <1>3, <1>4, <2>1, <2>2, CallMoves
<1> QED BY <1>5, <1>6, <1>7

\* A call saves an update of its task, whose version it knows if the task goes on.
LEMMA SaveKeeps ==
    ASSUME ServerInv, NEW m \in TaskMessages, acall[m] \in {"started", "draining"}, NEW t \in Tasks, t = TaskOf(m),
           NEW new \in TaskUpdates, A!Save(t, new),
           NEW c \in {"replying", "draining", "stopping", "over"}, acall' = [acall EXCEPT ![m] = c],
           c \in {"replying", "draining"} => new \notin Final \cup {"input"},
           c = "replying" => agiven[m] = 0, c = "draining" => acall[m] = "draining",
           aknown[t] /\ new = "input" => c = "over",
           aupdates' \in [Tasks -> Seq(TaskUpdates)],
           UNCHANGED <<amessages, agiven, aworker, aasked, aauth, aacted, adeciding>>
    PROVE  ServerInv' /\ StaysFinal
<1> DEFINE accepted == IF new = "canceled" THEN astate[t] \notin Final ELSE aknown[t]
<1>1. UnderWay(m)
      BY DEF UnderWay
<1>2. /\ astate' \in [Tasks -> TaskStates] /\ aknown' \in [Tasks -> BOOLEAN]
      /\ aclaims' \in [Tasks -> TaskMessages \cup {NoId}]
      /\ \A u \in Tasks : u # t => astate'[u] = astate[u] /\ (aknown'[u] <=> aknown[u]) /\ aclaims'[u] = aclaims[u]
      /\ astate'[t] = IF accepted THEN new ELSE astate[t]
      /\ aknown'[t] <=> aknown[t] /\ ~(accepted /\ new = "canceled")
      /\ aclaims'[t] = IF accepted /\ new # "input" THEN NoId ELSE aclaims[t]
      BY Saves DEF ServerInv
<1>3. /\ astate[t] # "absent" /\ (~aknown[t] => astate[t] \in Final) /\ (aknown[t] => astate[t] \notin Final)
      /\ (astate[t] = "input" => aclaims[t] = m) /\ agiven[m] <= 1
      /\ (acall[m] = "draining" /\ aworker[t] \in {"created", "locking"} => agiven[m] = 0)
      BY <1>1 DEF ServerInv, CallsInOrder
<1>4. /\ "canceled" \in Final /\ "absent" \notin Final /\ "input" \notin Final
      /\ new # "absent"
      BY DEF Final, TaskUpdates
<1>5. /\ CallTypes' /\ acall'[m] = c /\ \A n \in TaskMessages : n # m => acall'[n] = acall[n]
      BY DEF ServerInv, CallTypes, CallStages
<1>6. astate[t] \in Final => astate'[t] = astate[t]
      BY <1>2, <1>3
<1>7. /\ astate'[t] # "absent" /\ (~aknown'[t] => astate'[t] \in Final)
      /\ (c \in {"started", "reading", "replying", "draining"} /\ aknown'[t] => astate'[t] \notin Final)
      BY <1>2, <1>3, <1>4
<1>8. c # "over" /\ astate'[t] = "input" => aclaims'[t] = m
      BY <1>2, <1>3, <1>4
<1> HIDE DEF accepted
<1>9. CallsInOrder'
  <2>1. agiven'[m] <= 1 /\ (agiven'[m] # 0 => acall'[m] \in {"draining", "stopping", "over"})
        BY <1>3, <1>5
  <2>2. acall'[m] = "draining" /\ aworker'[t] \in {"created", "locking"} => agiven'[m] = 0
        BY <1>3, <1>5
  <2> QED BY <1>1, <1>2, <1>5, <1>7, <1>8, <2>1, <2>2, CallFrame
<1>10. LocksExclude' /\ (\A u \in Tasks : ApprovalInOrder(u))' /\ WorkerTypes' /\ ApprovalTypes' /\ StoreTypes'
      BY <1>2, WorkersRest DEF ServerInv, WorkerTypes, ApprovalTypes, StoreTypes
<1>11. StaysFinal
      BY <1>2, <1>6 DEF StaysFinal
<1> QED BY <1>5, <1>9, <1>10, <1>11 DEF ServerInv

LEMMA FirstKeeps == ASSUME ServerInv, NEW m \in TaskMessages, A!First(m) PROVE ServerInv' /\ StaysFinal
<1>1. /\ acall[m] = "started"
      /\ UNCHANGED <<amessages, agiven, aworker, aasked, aupdates, aauth, aacted, adeciding>>
      BY DEF A!First, A!approvals, A!execution, A!store
<1>2. UnderWay(m) /\ TaskOf(m) \in Tasks /\ agiven[m] = 0
      /\ (astate[TaskOf(m)] \notin Final \/ ~aknown[TaskOf(m)])
      BY <1>1 DEF UnderWay, ServerInv, CallsInOrder, CallTypes
<1>3. CASE UNCHANGED A!store /\ \E c \in {"reading", "over"} : acall' = [acall EXCEPT ![m] = c]
  <2>1. PICK c \in {"reading", "over"} : acall' = [acall EXCEPT ![m] = c]
        BY <1>3
  <2>2. UNCHANGED <<astate, aknown, aclaims>>
        BY <1>3 DEF A!store
  <2>3. /\ aclaims' = [aclaims EXCEPT ![TaskOf(m)] = aclaims[TaskOf(m)]]
        /\ aclaims[TaskOf(m)] \in TaskMessages \cup {NoId}
        /\ amessages \in [TaskMessages -> [task : Tasks \cup {NoId}, started : BOOLEAN]]
        BY <1>2, <2>2 DEF ServerInv, StoreTypes
  <2> QED BY <1>1, <1>2, <2>1, <2>2, <2>3, CallMoves
<1>4. CASE A!Save(TaskOf(m), "working") /\ acall' = [acall EXCEPT ![m] = "replying"]
  <2>1. "working" \in TaskUpdates /\ "working" \notin Final \cup {"input"}
        BY DEF TaskUpdates, Final
  <2>2. aupdates' \in [Tasks -> Seq(TaskUpdates)]
        BY <1>1 DEF ServerInv, WorkerTypes
  <2> QED BY <1>1, <1>2, <1>4, <2>1, <2>2, SaveKeeps
<1> QED BY <1>3, <1>4 DEF A!First, A!TaskOf, TaskOf

LEMMA DrainKeeps == ASSUME ServerInv, NEW m \in TaskMessages, A!Drain(m) PROVE ServerInv' /\ StaysFinal
<1> DEFINE t == TaskOf(m)
           new == Head(aupdates[t])
           c == IF ~aknown[t] \/ new \in Final THEN "stopping" ELSE IF new = "input" THEN "over" ELSE acall[m]
<1>1. /\ acall[m] = "draining" /\ aupdates[t] # <<>> /\ A!Save(t, new)
      /\ aupdates' = [aupdates EXCEPT ![t] = Tail(@)] /\ acall' = [acall EXCEPT ![m] = c]
      /\ UNCHANGED <<amessages, agiven, aworker, aasked, aauth, aacted, adeciding>>
      BY DEF A!Drain, A!TaskOf, TaskOf, A!TERMINAL, Final, A!approvals
<1>2. t \in Tasks
      BY <1>1 DEF ServerInv, CallsInOrder
<1>3. aupdates[t] \in Seq(TaskUpdates)
      BY <1>2 DEF ServerInv, WorkerTypes
<1>4. new \in TaskUpdates /\ Tail(aupdates[t]) \in Seq(TaskUpdates)
      BY <1>1, <1>3, HeadTailProperties
<1> HIDE DEF t, new
<1>5. aupdates' \in [Tasks -> Seq(TaskUpdates)]
      BY <1>1, <1>2, <1>4 DEF ServerInv, WorkerTypes
<1>6. /\ c \in {"replying", "draining", "stopping", "over"} /\ c # "replying"
      /\ (c \in {"replying", "draining"} => new \notin Final \cup {"input"})
      /\ (aknown[t] /\ new = "input" => c = "over")
      BY <1>1 DEF Final
<1> HIDE DEF c
<1> QED BY <1>1, <1>2, <1>4, <1>5, <1>6, SaveKeeps DEF t

\* The worker of a task is told to stop, if there is one.
LEMMA StopWorkerMoves ==
    ASSUME ServerInv, NEW t \in Tasks, A!StopWorker(t)
    PROVE  /\ aworker' \in [Tasks -> Workers] /\ aasked' \in [Tasks -> {"none", "open", "set"}]
           /\ \A u \in Tasks : u # t => aworker'[u] = aworker[u] /\ aasked'[u] = aasked[u]
           /\ \/ aworker'[t] = aworker[t] /\ aasked'[t] \in {aasked[t], "none"}
              \/ aworker[t] \in {"created", "locking"} /\ aworker'[t] = "ended" /\ aasked'[t] = "none"
              \/ aworker[t] \in Driving /\ aworker'[t] = "aborting" /\ aasked'[t] = "none"
<1>1. aworker \in [Tasks -> Workers] /\ aasked \in [Tasks -> {"none", "open", "set"}]
      BY DEF ServerInv, WorkerTypes
<1>2. /\ aasked' = [aasked EXCEPT ![t] = IF t \in arunning THEN "none" ELSE @]
      /\ t \notin arunning \/ aworker[t] \in {"none", "ended"} =>
            aworker' = [aworker EXCEPT ![t] = aworker[t]]
      /\ t \in arunning /\ aworker[t] \in {"created", "locking"} =>
            aworker' = [aworker EXCEPT ![t] = "ended"]
      /\ t \in arunning /\ aworker[t] \notin {"none", "ended", "created", "locking"} =>
            aworker' = [aworker EXCEPT ![t] = "aborting"]
      BY DEF A!StopWorker, A!Idle
<1>3. aworker[t] \in {"none", "ended", "created", "locking"} \cup Driving
      BY <1>1 DEF Workers, Driving
<1>4. CASE t \notin arunning \/ aworker[t] \in {"none", "ended"}
      BY <1>1, <1>2, <1>4
<1>5. CASE t \in arunning /\ aworker[t] \in {"created", "locking"}
      BY <1>1, <1>2, <1>5 DEF Workers
<1>6. CASE t \in arunning /\ aworker[t] \notin {"none", "ended", "created", "locking"}
      BY <1>1, <1>2, <1>3, <1>6 DEF Workers
<1> QED BY <1>4, <1>5, <1>6

\* What stopping a worker leaves of it.
LEMMA StoppingKeeps ==
    ASSUME ServerInv, NEW t \in Tasks, A!StopWorker(t),
           UNCHANGED <<A!store, acall, agiven, aupdates, aauth, aacted, adeciding>>
    PROVE  ServerInv' /\ StaysFinal
<1>1. /\ aworker' \in [Tasks -> Workers] /\ aasked' \in [Tasks -> {"none", "open", "set"}]
      /\ \A u \in Tasks : u # t => aworker'[u] = aworker[u] /\ aasked'[u] = aasked[u]
      /\ \/ aworker'[t] = aworker[t] /\ aasked'[t] \in {aasked[t], "none"}
         \/ aworker[t] \in {"created", "locking"} /\ aworker'[t] = "ended" /\ aasked'[t] = "none"
         \/ aworker[t] \in Driving /\ aworker'[t] = "aborting" /\ aasked'[t] = "none"
      BY StopWorkerMoves
<1>2. StoreTypes' /\ CallTypes' /\ WorkerTypes' /\ ApprovalTypes'
      BY <1>1 DEF ServerInv, StoreTypes, CallTypes, WorkerTypes, ApprovalTypes, A!store
<1>3. CallsInOrder'
      BY <1>1, CallsRest DEF A!store
<1>4. LocksExclude'
  <2>1. "ended" \notin Driving
        BY DEF Driving
  <2>2. aworker'[t] \in Driving => aworker[t] \in Driving
        BY <1>1, <2>1
  <2>3. aasked'[t] # "none" => aworker'[t] = "input"
        BY <1>1 DEF ServerInv, LocksExclude
  <2> QED BY <1>1, <2>2, <2>3, LocksFrame
<1>5. (\A u \in Tasks : ApprovalInOrder(u))'
      BY <1>1, ApprovalsRest
<1>6. StaysFinal
      BY DEF StaysFinal, A!store
<1> QED BY <1>2, <1>3, <1>4, <1>5, <1>6 DEF ServerInv

LEMMA CancelKeeps ==
    ASSUME ServerInv, (\E t \in Tasks : A!Cancel(t)) \/ (\E m \in TaskMessages : A!Finish(m))
    PROVE  ServerInv' /\ StaysFinal
<1>1. ASSUME NEW t \in Tasks, A!Cancel(t) PROVE ServerInv' /\ StaysFinal
      BY <1>1, StoppingKeeps DEF A!Cancel, A!approvals
<1>2. ASSUME NEW m \in TaskMessages, A!Finish(m) PROVE ServerInv' /\ StaysFinal
  <2>1. /\ acall[m] = "stopping" /\ UNCHANGED <<astate, aknown, amessages, aclaims, agiven, aupdates, aauth, aacted, adeciding>>
        BY <1>2 DEF A!Finish, A!approvals, A!store
  <2>2. UnderWay(m) /\ TaskOf(m) \in Tasks
        BY <2>1 DEF UnderWay, ServerInv, CallsInOrder
  <2>3. CASE A!StopWorker(TaskOf(m)) /\ acall' = acall
        BY <2>1, <2>2, <2>3, StoppingKeeps DEF A!store
  <2>4. CASE acall' = [acall EXCEPT ![m] = "over"] /\ UNCHANGED <<aworker, aasked>>
    <3>1. /\ aclaims' = [aclaims EXCEPT ![TaskOf(m)] = aclaims[TaskOf(m)]]
          /\ aclaims[TaskOf(m)] \in TaskMessages \cup {NoId}
          /\ amessages \in [TaskMessages -> [task : Tasks \cup {NoId}, started : BOOLEAN]]
          BY <2>1, <2>2 DEF ServerInv, StoreTypes
    <3> QED BY <2>1, <2>2, <2>4, <3>1, CallMoves
  <2> QED BY <1>2, <2>3, <2>4 DEF A!Finish, A!TaskOf, TaskOf
<1> QED BY <1>1, <1>2

LEMMA LaunchCallKeeps ==
    ASSUME ServerInv, NEW m \in TaskMessages, A!Launch(m) \/ A!Resume(m)
    PROVE  ServerInv' /\ StaysFinal
<1> DEFINE t == TaskOf(m)
<1>1. /\ acall[m] \in {"reading", "replying"}
      /\ UNCHANGED <<astate, aknown, amessages, aclaims, aauth, aacted, adeciding>>
      BY DEF A!Launch, A!Resume, A!approvals, A!store
<1>2. /\ UnderWay(m) /\ t \in Tasks /\ agiven[m] = 0 /\ astate[t] # "absent"
      /\ (~aknown[t] => astate[t] \in Final) /\ (aknown[t] => astate[t] \notin Final)
      /\ (astate[t] = "input" => aclaims[t] = m)
      BY <1>1 DEF UnderWay, ServerInv, CallsInOrder, CallTypes
<1>3. StoreTypes' /\ ApprovalTypes' /\ StaysFinal
      BY <1>1 DEF ServerInv, StoreTypes, ApprovalTypes, StaysFinal
<1>4. ASSUME acall' = [acall EXCEPT ![m] = "draining"]
      PROVE  /\ acall' \in [TaskMessages -> CallStages] /\ acall'[m] = "draining"
             /\ \A n \in TaskMessages : n # m => acall'[n] = acall[n]
      BY <1>4 DEF ServerInv, CallTypes, CallStages
<1>5. CASE A!Launch(m)
  <2>1. /\ aworker[t] \in {"none", "ended"} /\ aworker' = [aworker EXCEPT ![t] = "created"]
        /\ aupdates' = [aupdates EXCEPT ![t] = <<>>] /\ acall' = [acall EXCEPT ![m] = "draining"]
        /\ UNCHANGED <<aasked, agiven>>
        BY <1>5 DEF A!Launch, A!Idle, A!TaskOf, TaskOf
  <2>2. /\ aworker' \in [Tasks -> Workers] /\ aworker'[t] = "created" /\ \A u \in Tasks : u # t => aworker'[u] = aworker[u]
        BY <1>2, <2>1 DEF ServerInv, WorkerTypes, Workers
  <2>3. <<>> \in Seq(TaskUpdates)
        BY EmptySeq
  <2>4. aupdates' \in [Tasks -> Seq(TaskUpdates)]
        BY <1>2, <2>1, <2>3 DEF ServerInv, WorkerTypes
  <2>5. WorkerTypes' /\ CallTypes'
        BY <1>4, <2>1, <2>2, <2>4 DEF ServerInv, WorkerTypes, CallTypes
  <2>6. CallsInOrder'
    <3> HIDE DEF t
    <3> QED BY <1>1, <1>2, <1>4, <2>1, <2>2, CallFrame DEF t
  <2>7. LocksExclude'
    <3>1. "created" \notin Driving /\ aasked'[t] = "none"
          BY <1>2, <2>1 DEF ServerInv, LocksExclude, WorkerTypes, Driving
    <3> QED BY <1>2, <2>1, <2>2, <3>1, LocksFrame
  <2>8. (\A u \in Tasks : ApprovalInOrder(u))'
        BY <1>1, <1>2, <2>1, <2>2, ApprovalsRest
  <2> QED BY <1>3, <2>5, <2>6, <2>7, <2>8 DEF ServerInv
<1>6. CASE A!Resume(m) /\ aasked[t] = "open"
  <2>1. /\ aasked' = [aasked EXCEPT ![t] = "set"] /\ aupdates' = [aupdates EXCEPT ![t] = Append(@, "working")]
        /\ agiven' = [agiven EXCEPT ![m] = @ + 1] /\ acall' = [acall EXCEPT ![m] = "draining"] /\ aworker' = aworker
        BY <1>6 DEF A!Resume, A!TaskOf, TaskOf, A!Give
  <2>2. /\ aasked' \in [Tasks -> {"none", "open", "set"}] /\ \A u \in Tasks : u # t => aasked'[u] = aasked[u]
        /\ aworker[t] = "input"
        BY <1>2, <1>6, <2>1 DEF ServerInv, WorkerTypes, LocksExclude
  <2>3. aupdates[t] \in Seq(TaskUpdates) /\ "working" \in TaskUpdates
        BY <1>2 DEF ServerInv, WorkerTypes, TaskUpdates
  <2>4. Append(aupdates[t], "working") \in Seq(TaskUpdates)
        BY <2>3, AppendProperties
  <2>5. aupdates' \in [Tasks -> Seq(TaskUpdates)]
        BY <1>2, <2>1, <2>4 DEF ServerInv, WorkerTypes
  <2>6. agiven' \in [TaskMessages -> Nat] /\ agiven'[m] = 1 /\ \A n \in TaskMessages : n # m => agiven'[n] = agiven[n]
        BY <1>2, <2>1 DEF ServerInv, CallTypes
  <2>7. WorkerTypes' /\ CallTypes'
        BY <1>4, <2>1, <2>2, <2>5, <2>6 DEF ServerInv, WorkerTypes, CallTypes
  <2>8. CallsInOrder'
    <3> HIDE DEF t
    <3> QED BY <1>1, <1>2, <1>4, <2>1, <2>2, <2>6, CallFrame DEF t
  <2>9. LocksExclude'
        BY <1>2, <2>1, <2>2, LocksFrame
  <2>10. (\A u \in Tasks : ApprovalInOrder(u))'
        BY <1>1, <1>2, <2>1, ApprovalsRest
  <2> QED BY <1>3, <2>7, <2>8, <2>9, <2>10 DEF ServerInv
<1>7. CASE A!Resume(m) /\ aasked[t] # "open"
  <2>1. acall' = [acall EXCEPT ![m] = "over"] /\ UNCHANGED <<aworker, aasked, aupdates, agiven>>
        BY <1>7 DEF A!Resume, A!TaskOf, TaskOf
  <2>2. /\ aclaims' = [aclaims EXCEPT ![t] = aclaims[t]] /\ aclaims[t] \in TaskMessages \cup {NoId}
        /\ amessages \in [TaskMessages -> [task : Tasks \cup {NoId}, started : BOOLEAN]]
        BY <1>1, <1>2 DEF ServerInv, StoreTypes
  <2> QED BY <1>1, <1>2, <2>1, <2>2, CallMoves
<1> QED BY <1>5, <1>6, <1>7

\* A cancel ends its task, when its worker has stopped.
LEMMA CanceledKeeps == ASSUME ServerInv, NEW t \in Tasks, A!Canceled(t) PROVE ServerInv' /\ StaysFinal
<1>1. /\ A!Save(t, "canceled")
      /\ UNCHANGED <<amessages, acall, agiven, aworker, aasked, aupdates, aauth, aacted, adeciding>>
      BY DEF A!Canceled, A!approvals, A!execution
<1>2. "canceled" \in TaskUpdates /\ "canceled" \in Final /\ "canceled" # "input" /\ "canceled" # "absent"
      BY DEF TaskUpdates, Final
<1>3. /\ astate' \in [Tasks -> TaskStates] /\ aknown' \in [Tasks -> BOOLEAN]
      /\ aclaims' \in [Tasks -> TaskMessages \cup {NoId}]
      /\ \A u \in Tasks : u # t => astate'[u] = astate[u] /\ (aknown'[u] <=> aknown[u]) /\ aclaims'[u] = aclaims[u]
      /\ astate'[t] = IF astate[t] \notin Final THEN "canceled" ELSE astate[t]
      /\ aknown'[t] <=> aknown[t] /\ ~(astate[t] \notin Final)
      /\ aclaims'[t] = IF astate[t] \notin Final THEN NoId ELSE aclaims[t]
      BY <1>1, <1>2, Saves DEF ServerInv
<1>4. LocksExclude' /\ (\A u \in Tasks : ApprovalInOrder(u))' /\ WorkerTypes' /\ ApprovalTypes' /\ StoreTypes' /\ CallTypes'
      BY <1>1, <1>3, WorkersRest DEF ServerInv, WorkerTypes, ApprovalTypes, StoreTypes, CallTypes
<1>5. \A m \in TaskMessages : (UnderWay(m)' <=> UnderWay(m)) /\ TaskOf(m)' = TaskOf(m) /\ acall'[m] = acall[m]
      BY <1>1 DEF UnderWay, TaskOf
<1>6. \A m \in TaskMessages : UnderWay(m) => TaskOf(m) \in Tasks
      BY DEF ServerInv, CallsInOrder, UnderWay
<1>7. \A m \in TaskMessages : TaskOf(m)' \in Tasks => astate'[TaskOf(m)'] # "absent"
      BY <1>2, <1>3, <1>5 DEF ServerInv, CallsInOrder
<1>8. \A u \in Tasks : ~aknown'[u] => astate'[u] \in Final
      BY <1>2, <1>3 DEF ServerInv, CallsInOrder
<1>9. \A m \in TaskMessages : acall'[m] \in {"started", "reading", "replying", "draining"} /\ aknown'[TaskOf(m)'] =>
          astate'[TaskOf(m)'] \notin Final
  <2> SUFFICES ASSUME NEW m \in TaskMessages, acall[m] \in {"started", "reading", "replying", "draining"}, aknown'[TaskOf(m)]
               PROVE  astate'[TaskOf(m)] \notin Final
      BY <1>5
  <2>1. TaskOf(m) \in Tasks
        BY DEF ServerInv, CallsInOrder
  <2>2. aknown[TaskOf(m)]
        BY <1>3, <2>1
  <2>3. astate[TaskOf(m)] \notin Final
        BY <2>2 DEF ServerInv, CallsInOrder
  <2> QED BY <1>3, <2>1, <2>2, <2>3
<1>10. \A m \in TaskMessages : UnderWay(m)' /\ astate'[TaskOf(m)'] = "input" => aclaims'[TaskOf(m)'] = m
      BY <1>2, <1>3, <1>5, <1>6 DEF ServerInv, CallsInOrder
<1>11. CallsInOrder'
      BY <1>1, <1>5, <1>7, <1>8, <1>9, <1>10 DEF ServerInv, CallsInOrder
<1>12. StaysFinal
      BY <1>1, <1>3 DEF StaysFinal
<1> QED BY <1>4, <1>11, <1>12 DEF ServerInv

\* A request that never reached the executor: its task fails, if it was to open one.
LEMMA AbandonKeeps == ASSUME ServerInv, NEW m \in TaskMessages, A!Abandon(m) PROVE ServerInv' /\ StaysFinal
<1> DEFINE t == TaskOf(m)
<1>1. /\ acall[m] = "admitted" /\ acall' = [acall EXCEPT ![m] = "over"]
      /\ astate' = [astate EXCEPT ![t] = IF @ = "submitted" THEN "failed" ELSE @]
      /\ aknown' = [aknown EXCEPT ![t] = @ /\ astate[t] # "submitted"]
      /\ aclaims' = [aclaims EXCEPT ![t] = IF @ = m THEN NoId ELSE @]
      /\ UNCHANGED <<amessages, agiven, aworker, aasked, aupdates, aauth, aacted, adeciding>>
      BY DEF A!Abandon, A!TaskOf, TaskOf, A!approvals, A!execution
<1>2. /\ UnderWay(m) /\ t \in Tasks /\ agiven[m] <= 1 /\ astate[t] # "absent" /\ (~aknown[t] => astate[t] \in Final)
      BY <1>1 DEF UnderWay, ServerInv, CallsInOrder
<1>3. "failed" \in Final \cap TaskStates /\ "submitted" \notin Final /\ "failed" # "absent"
      BY DEF Final, TaskStates, TaskUpdates
<1> HIDE DEF t
<1>4. /\ astate' \in [Tasks -> TaskStates] /\ \A u \in Tasks : u # t => astate'[u] = astate[u]
      /\ astate'[t] = IF astate[t] = "submitted" THEN "failed" ELSE astate[t]
      BY <1>1, <1>2, <1>3 DEF ServerInv, StoreTypes
<1>5. aknown' \in [Tasks -> BOOLEAN]
      BY <1>1 DEF ServerInv, StoreTypes
<1>6. /\ \A u \in Tasks : u # t => (aknown'[u] <=> aknown[u])
      /\ aknown'[t] <=> aknown[t] /\ astate[t] # "submitted"
      BY <1>1, <1>2 DEF ServerInv, StoreTypes
<1>7. /\ aclaims' \in [Tasks -> TaskMessages \cup {NoId}] /\ \A u \in Tasks : u # t => aclaims'[u] = aclaims[u]
      BY <1>1, <1>2 DEF ServerInv, StoreTypes
<1>8. CallTypes' /\ acall'[m] = "over" /\ \A n \in TaskMessages : n # m => acall'[n] = acall[n]
      BY <1>1 DEF ServerInv, CallTypes, CallStages
<1>9. LocksExclude' /\ (\A u \in Tasks : ApprovalInOrder(u))' /\ WorkerTypes' /\ ApprovalTypes' /\ StoreTypes'
      BY <1>1, <1>4, <1>5, <1>7, WorkersRest DEF ServerInv, WorkerTypes, ApprovalTypes, StoreTypes
<1>10. CallsInOrder'
      BY <1>1, <1>2, <1>3, <1>4, <1>6, <1>7, <1>8, CallFrame DEF t
<1>11. StaysFinal
      BY <1>1, <1>3, <1>4 DEF StaysFinal
<1> QED BY <1>8, <1>9, <1>10, <1>11 DEF ServerInv

\* A worker moves on, with its authorization.
LEMMA WorkerActs ==
    ASSUME ServerInv, NEW t \in Tasks,
           UNCHANGED <<astate, aknown, amessages, aclaims, acall, agiven>>, adeciding'.task \in Tasks \cup {NoId},
           aworker' \in [Tasks -> Workers], aasked' \in [Tasks -> {"none", "open", "set"}],
           aupdates' \in [Tasks -> Seq(TaskUpdates)], aauth' \in [Tasks -> Authorization], aacted' \in [Tasks -> Nat],
           \A u \in Tasks : u # t => /\ aworker'[u] = aworker[u] /\ aasked'[u] = aasked[u]
                                     /\ aauth'[u] = aauth[u] /\ aacted'[u] = aacted[u],
           aworker'[t] \in {"created", "locking"} => aworker[t] \in {"created", "locking"},
           aworker'[t] \in Driving => aworker[t] \in Driving \/ A!LockFree(t),
           aasked'[t] # "none" => aworker'[t] = "input",
           ApprovalInOrder(t)', astate[t] \in Final /\ aauth'[t].row = "approved" => aauth[t].row = "approved"
    PROVE  ServerInv' /\ StaysFinal
<1>1. StoreTypes' /\ CallTypes' /\ WorkerTypes' /\ ApprovalTypes'
      BY DEF ServerInv, StoreTypes, CallTypes, WorkerTypes, ApprovalTypes
<1>2. CallsInOrder' /\ LocksExclude'
      BY CallsRest, LocksFrame
<1>3. ASSUME NEW u \in Tasks PROVE ApprovalInOrder(u)'
  <2>1. u = t => ApprovalInOrder(u)'
        OBVIOUS
  <2>2. ASSUME u # t PROVE ApprovalInOrder(u)'
    <3>1. aworker'[u] = aworker[u] /\ aauth'[u] = aauth[u] /\ aacted'[u] = aacted[u] /\ ApprovalInOrder(u)
          BY <2>2 DEF ServerInv
    <3>2. aauth'[u].row = aauth[u].row /\ aauth'[u].future = aauth[u].future
          BY <3>1
    <3> QED BY ONLY <3>1, <3>2 DEF ApprovalInOrder
  <2> QED BY <2>1, <2>2
<1>4. StaysFinal
      BY DEF StaysFinal
<1> QED BY <1>1, <1>2, <1>3, <1>4 DEF ServerInv

LEMMA WorkerMoves ==
    ASSUME ServerInv, NEW t \in Tasks, NEW to \in Workers, aworker' = [aworker EXCEPT ![t] = to],
           UNCHANGED <<astate, aknown, amessages, aclaims, acall, agiven, aauth, aacted>>,
           adeciding'.task \in Tasks \cup {NoId},
           aasked' \in [Tasks -> {"none", "open", "set"}], aupdates' \in [Tasks -> Seq(TaskUpdates)],
           \A u \in Tasks : u # t => aasked'[u] = aasked[u],
           to \in {"created", "locking"} => aworker[t] \in {"created", "locking"},
           to \in Driving => aworker[t] \in Driving \/ A!LockFree(t),
           aasked'[t] # "none" => to = "input",
           aworker[t] \in {"approval", "finishing", "aborting"} => to \in {"approval", "finishing", "aborting"}
    PROVE  ServerInv' /\ StaysFinal
<1>1. /\ aworker' \in [Tasks -> Workers] /\ aworker'[t] = to
      /\ \A u \in Tasks : u # t => aworker'[u] = aworker[u]
      BY DEF ServerInv, WorkerTypes
<1>2. ApprovalInOrder(t)'
      BY <1>1 DEF ServerInv, ApprovalInOrder
<1> QED BY <1>1, <1>2, WorkerActs DEF ServerInv, ApprovalTypes

LEMMA Says ==
    ASSUME ServerInv, NEW t \in Tasks, NEW update \in TaskUpdates, A!Say(t, update)
    PROVE  aupdates' \in [Tasks -> Seq(TaskUpdates)]
<1>1. aupdates \in [Tasks -> Seq(TaskUpdates)] /\ aupdates[t] \in Seq(TaskUpdates)
      BY DEF ServerInv, WorkerTypes
<1>2. Append(aupdates[t], update) \in Seq(TaskUpdates)
      BY <1>1, AppendProperties
<1> QED BY <1>1, <1>2 DEF A!Say

\* The steps of a worker that leave its authorization alone.
LEMMA WorkingKeeps ==
    ASSUME ServerInv, NEW t \in Tasks,
           \/ A!Begin(t) \/ A!InputArrives(t) \/ A!RunEnds(t) \/ A!Conclude(t)
           \/ A!TimesOut(t) \/ A!RequestInput(t)
    PROVE  ServerInv' /\ StaysFinal
<1>1. /\ UNCHANGED <<astate, aknown, amessages, aclaims, acall, agiven, aauth, aacted, adeciding>>
      /\ adeciding'.task \in Tasks \cup {NoId}
      /\ aasked \in [Tasks -> {"none", "open", "set"}] /\ aupdates \in [Tasks -> Seq(TaskUpdates)]
      /\ aasked[t] # "none" => aworker[t] = "input"
      BY DEF A!Begin, A!InputArrives, A!RunEnds, A!Conclude, A!TimesOut, A!RequestInput, A!store, A!approvals,
             ServerInv, ApprovalTypes, WorkerTypes, LocksExclude
<1>2. {"working", "input", "completed", "failed", "rejected"} \subseteq TaskUpdates
      BY DEF TaskUpdates, Final
<1>3. CASE A!Begin(t)
  <2>1. /\ aworker[t] = "created" /\ aworker' = [aworker EXCEPT ![t] = "locking"] /\ aasked' = aasked
        /\ A!Say(t, "working")
        BY <1>3 DEF A!Begin, A!WorkerTo
  <2>2. aupdates' \in [Tasks -> Seq(TaskUpdates)]
        BY <1>2, <2>1, Says
  <2>3. "locking" \in Workers /\ "locking" \notin Driving
        BY DEF Workers, Driving
  <2> QED BY <1>1, <2>1, <2>2, <2>3, WorkerMoves
<1>4. CASE A!InputArrives(t)
  <2>1. /\ aworker[t] = "input" /\ aworker' = [aworker EXCEPT ![t] = "running"]
        /\ aasked' = [aasked EXCEPT ![t] = "none"] /\ aupdates' = aupdates
        BY <1>4 DEF A!InputArrives, A!WorkerTo
  <2>2. aasked' \in [Tasks -> {"none", "open", "set"}] /\ aasked'[t] = "none" /\ \A u \in Tasks : u # t => aasked'[u] = aasked[u]
        BY <1>1, <2>1
  <2>3. "running" \in Workers /\ "input" \in Driving
        BY DEF Workers, Driving
  <2> QED BY <1>1, <2>1, <2>2, <2>3, WorkerMoves
<1>5. CASE A!RunEnds(t)
  <2>1. PICK to \in {"done", "failing"} : aworker[t] = "running" /\ aworker' = [aworker EXCEPT ![t] = to]
        BY <1>5 DEF A!RunEnds, A!WorkerTo
  <2>2. UNCHANGED <<aasked, aupdates>>
        BY <1>5 DEF A!RunEnds
  <2>3. to \in Workers /\ "running" \in Driving
        BY DEF Workers, Driving
  <2> QED BY <1>1, <2>1, <2>2, <2>3, WorkerMoves
<1>6. CASE A!Conclude(t)
  <2>1. PICK update \in {"completed", "failed", "rejected"} : A!Say(t, update)
        BY <1>6 DEF A!Conclude
  <2>2. /\ aworker[t] \in {"done", "failing", "denied"} /\ aworker' = [aworker EXCEPT ![t] = "ended"] /\ aasked' = aasked
        BY <1>6 DEF A!Conclude, A!WorkerTo
  <2>3. aupdates' \in [Tasks -> Seq(TaskUpdates)]
        BY <1>2, <2>1, Says
  <2>4. "ended" \in Workers /\ "ended" \notin Driving
        BY DEF Workers, Driving
  <2> QED BY <1>1, <2>2, <2>3, <2>4, WorkerMoves
<1>7. CASE A!TimesOut(t)
  <2>1. /\ aworker[t] = "approval" /\ aworker' = [aworker EXCEPT ![t] = "finishing"] /\ UNCHANGED <<aasked, aupdates>>
        BY <1>7 DEF A!TimesOut, A!WorkerTo
  <2>2. "finishing" \in Workers /\ "approval" \in Driving
        BY DEF Workers, Driving
  <2> QED BY <1>1, <2>1, <2>2, WorkerMoves
<1>8. CASE A!RequestInput(t)
  <2>1. /\ aworker[t] = "running" /\ aworker' = [aworker EXCEPT ![t] = "input"] /\ A!Say(t, "input")
        /\ aasked' = [aasked EXCEPT ![t] = "open"]
        BY <1>8 DEF A!RequestInput, A!WorkerTo
  <2>2. aasked' \in [Tasks -> {"none", "open", "set"}] /\ \A u \in Tasks : u # t => aasked'[u] = aasked[u]
        BY <1>1, <2>1
  <2>3. aupdates' \in [Tasks -> Seq(TaskUpdates)]
        BY <1>2, <2>1, Says
  <2>4. "input" \in Workers /\ "running" \in Driving
        BY DEF Workers, Driving
  <2> QED BY <1>1, <2>1, <2>2, <2>3, <2>4, WorkerMoves
<1> QED BY <1>3, <1>4, <1>5, <1>6, <1>7, <1>8

\* The agent is given the message of the call that launched it, under the lock.
LEMMA AcquireKeeps == ASSUME ServerInv, NEW t \in Tasks, A!Acquire(t) PROVE ServerInv' /\ StaysFinal
<1>1. PICK m \in TaskMessages : TaskOf(m) = t /\ acall[m] = "draining" /\ agiven' = [agiven EXCEPT ![m] = @ + 1]
      BY DEF A!Acquire, A!Give, A!TaskOf, TaskOf
<1>2. /\ aworker[t] = "locking" /\ aworker' = [aworker EXCEPT ![t] = "running"] /\ A!LockFree(t)
      /\ UNCHANGED <<astate, aknown, amessages, aclaims, acall, aasked, aupdates, aauth, aacted, adeciding>>
      BY DEF A!Acquire, A!WorkerTo, A!store, A!approvals
<1>3. /\ UnderWay(m) /\ agiven[m] = 0 /\ aasked[t] = "none" /\ astate[t] # "absent"
      /\ (~aknown[t] => astate[t] \in Final) /\ (aknown[t] => astate[t] \notin Final)
      /\ (astate[t] = "input" => aclaims[t] = m)
      BY <1>1, <1>2 DEF UnderWay, ServerInv, CallsInOrder, LocksExclude, WorkerTypes
<1>4. /\ agiven' \in [TaskMessages -> Nat] /\ agiven'[m] = 1 /\ \A n \in TaskMessages : n # m => agiven'[n] = agiven[n]
      BY <1>1, <1>3 DEF ServerInv, CallTypes
<1>5. /\ aworker' \in [Tasks -> Workers] /\ aworker'[t] = "running" /\ \A u \in Tasks : u # t => aworker'[u] = aworker[u]
      BY <1>2 DEF ServerInv, WorkerTypes, Workers
<1>6. StoreTypes' /\ CallTypes' /\ WorkerTypes' /\ ApprovalTypes' /\ StaysFinal
      BY <1>2, <1>4, <1>5 DEF ServerInv, StoreTypes, CallTypes, WorkerTypes, ApprovalTypes, StaysFinal
<1>7. CallsInOrder'
      BY <1>1, <1>2, <1>3, <1>4, <1>5, CallFrame
<1>8. LocksExclude'
      BY <1>2, <1>3, <1>5, LocksFrame
<1>9. (\A u \in Tasks : ApprovalInOrder(u))'
      BY <1>2, <1>5, ApprovalsRest
<1> QED BY <1>6, <1>7, <1>8, <1>9 DEF ServerInv

\* What becomes of an authorization whose future is taken away.
LEMMA SettledRow ==
    ASSUME ServerInv, NEW t \in Tasks, NEW new \in {"consumed", "expired", "canceled"}, A!Settled(t, new)
    PROVE  /\ aauth' \in [Tasks -> Authorization] /\ aauth'[t].future = "gone"
           /\ aauth'[t].row = IF aauth[t].row = "pending" THEN new ELSE aauth[t].row
           /\ \A u \in Tasks : u # t => aauth'[u] = aauth[u]
<1>1. aauth \in [Tasks -> Authorization] /\ aauth[t] \in Authorization
      BY DEF ServerInv, ApprovalTypes
<1> DEFINE settled == [aauth[t] EXCEPT !.row = IF aauth[t].row = "pending" THEN new ELSE aauth[t].row, !.future = "gone"]
<1>2. settled \in Authorization /\ settled.future = "gone"
      /\ settled.row = IF aauth[t].row = "pending" THEN new ELSE aauth[t].row
      BY <1>1 DEF Authorization
<1>3. aauth' = [aauth EXCEPT ![t] = settled]
      BY <1>1 DEF A!Settled, Authorization
<1> HIDE DEF settled
<1> QED BY <1>1, <1>2, <1>3

\* The worker takes the answer, or gives its authorization up.
LEMMA SettlingKeeps ==
    ASSUME ServerInv, NEW t \in Tasks, A!Approved(t) \/ A!Denied(t) \/ A!Expired(t) \/ A!Abort(t)
    PROVE  ServerInv' /\ StaysFinal
<1>1. /\ UNCHANGED <<astate, aknown, amessages, aclaims, acall, agiven, aasked, adeciding>>
      /\ adeciding'.task \in Tasks \cup {NoId} /\ aacted \in [Tasks -> Nat] /\ ApprovalInOrder(t)
      /\ aasked \in [Tasks -> {"none", "open", "set"}] /\ aupdates \in [Tasks -> Seq(TaskUpdates)]
      /\ aasked[t] # "none" => aworker[t] = "input"
      BY DEF A!Approved, A!Denied, A!Expired, A!Abort, A!store, ServerInv, ApprovalTypes, WorkerTypes, LocksExclude
<1>2. PICK new \in {"consumed", "expired", "canceled"} : A!Settled(t, new)
      BY DEF A!Approved, A!Denied, A!Expired, A!Abort
<1>3. /\ aauth' \in [Tasks -> Authorization] /\ aauth'[t].future = "gone"
      /\ aauth'[t].row = IF aauth[t].row = "pending" THEN new ELSE aauth[t].row
      /\ \A u \in Tasks : u # t => aauth'[u] = aauth[u]
      BY <1>2, SettledRow
<1>4. PICK to \in {"running", "denied", "failing", "ended"} : aworker' = [aworker EXCEPT ![t] = to]
      BY DEF A!Approved, A!Denied, A!Expired, A!Abort, A!WorkerTo
<1>5. aworker[t] \in {"approval", "finishing", "aborting"}
      BY DEF A!Approved, A!Denied, A!Expired, A!Abort, A!WorkerTo
<1>6. /\ aworker' \in [Tasks -> Workers] /\ aworker'[t] = to /\ \A u \in Tasks : u # t => aworker'[u] = aworker[u]
      BY <1>4 DEF ServerInv, WorkerTypes, Workers
<1>7. aworker[t] \in Driving /\ aasked'[t] = "none" /\ aworker'[t] \notin {"created", "locking"}
      BY <1>1, <1>5, <1>6 DEF Driving
<1>8. CASE A!Approved(t)
  <2>1. aauth[t].future = "approved" /\ aacted' = [aacted EXCEPT ![t] = @ + 1] /\ A!Say(t, "working")
        BY <1>8 DEF A!Approved
  <2>2. "working" \in TaskUpdates
        BY DEF TaskUpdates
  <2>3. aupdates' \in [Tasks -> Seq(TaskUpdates)]
        BY <2>1, <2>2, Says
  <2>4. aauth[t].row = "approved" /\ aacted[t] = 0
        BY <1>1, <2>1 DEF ApprovalInOrder
  <2>5. aacted' \in [Tasks -> Nat] /\ aacted'[t] = 1 /\ \A u \in Tasks : u # t => aacted'[u] = aacted[u]
        BY <1>1, <2>1, <2>4
  <2>6. ApprovalInOrder(t)'
        BY <1>3, <2>4, <2>5 DEF ApprovalInOrder
  <2> QED BY <1>1, <1>3, <1>6, <1>7, <2>3, <2>4, <2>5, <2>6, WorkerActs
<1>9. CASE aacted' = aacted /\ aupdates' = aupdates
  <2>1. ApprovalInOrder(t)'
        BY <1>1, <1>3, <1>9 DEF ApprovalInOrder
  <2> QED BY <1>1, <1>3, <1>6, <1>7, <1>9, <2>1, WorkerActs
<1> QED BY <1>8, <1>9 DEF A!Denied, A!Expired, A!Abort

\* Steps of the registry of authorizations: it asks, expires and decides.
LEMMA CreateKeeps == ASSUME ServerInv, NEW t \in Tasks, A!Create(t) PROVE ServerInv' /\ StaysFinal
<1>1. /\ aworker[t] = "running"
      /\ UNCHANGED <<astate, aknown, amessages, aclaims, acall, agiven, aasked, adeciding>>
      /\ aasked \in [Tasks -> {"none", "open", "set"}] /\ adeciding'.task \in Tasks \cup {NoId}
      BY DEF A!Create, A!store, ServerInv, ApprovalTypes, WorkerTypes
<1>2. aasked'[t] = "none" /\ "running" \in Driving
      BY <1>1 DEF ServerInv, WorkerTypes, LocksExclude, Driving
<1>3. CASE astate[t] \in Final
  <2>1. aworker' = [aworker EXCEPT ![t] = "failing"] /\ UNCHANGED <<aauth, aacted, aupdates>>
        BY <1>3 DEF A!Create, A!WorkerTo, A!TERMINAL, Final
  <2>2. "failing" \in Workers /\ aupdates' \in [Tasks -> Seq(TaskUpdates)]
        BY <2>1 DEF Workers, ServerInv, WorkerTypes
  <2> QED BY <1>1, <1>2, <2>1, <2>2, WorkerMoves
<1>4. CASE astate[t] \notin Final
  <2>1. /\ aworker' = [aworker EXCEPT ![t] = "approval"] /\ A!Say(t, "auth")
        /\ aauth' = [aauth EXCEPT ![t] = [row |-> "pending", future |-> "open", expired |-> FALSE]]
        /\ aacted' = [aacted EXCEPT ![t] = 0]
        BY <1>4 DEF A!Create, A!WorkerTo, A!TERMINAL, Final
  <2>2. "auth" \in TaskUpdates
        BY DEF TaskUpdates
  <2>3. aupdates' \in [Tasks -> Seq(TaskUpdates)]
        BY <2>1, <2>2, Says
  <2>4. [row |-> "pending", future |-> "open", expired |-> FALSE] \in Authorization
        BY DEF Authorization
  <2>5. /\ aauth' \in [Tasks -> Authorization] /\ aauth'[t].row = "pending" /\ aauth'[t].future = "open"
        /\ \A u \in Tasks : u # t => aauth'[u] = aauth[u]
        BY <2>1, <2>4 DEF ServerInv, ApprovalTypes
  <2>6. aacted' \in [Tasks -> Nat] /\ aacted'[t] = 0 /\ \A u \in Tasks : u # t => aacted'[u] = aacted[u]
        BY <2>1 DEF ServerInv, ApprovalTypes
  <2>7. /\ aworker' \in [Tasks -> Workers] /\ aworker'[t] = "approval" /\ \A u \in Tasks : u # t => aworker'[u] = aworker[u]
        BY <2>1 DEF ServerInv, WorkerTypes, Workers
  <2>8. ApprovalInOrder(t)'
        BY <2>5, <2>6, <2>7 DEF ApprovalInOrder
  <2> QED BY <1>1, <1>2, <2>3, <2>5, <2>6, <2>7, <2>8, WorkerActs
<1> QED BY <1>3, <1>4

\* Only the flag, or the row and the future, of one authorization change.
LEMMA RegistryKeeps ==
    ASSUME ServerInv, (\E t \in Tasks : A!Expire(t) \/ A!Decide(t)) \/ A!Decided
    PROVE  ServerInv' /\ StaysFinal
<1>1. UNCHANGED <<astate, aknown, amessages, aclaims, acall, agiven, aworker, aasked, aupdates, aacted>>
      BY DEF A!Expire, A!Decide, A!Decided, A!store, A!execution
<1>2. /\ aworker' \in [Tasks -> Workers] /\ aasked' \in [Tasks -> {"none", "open", "set"}]
      /\ aupdates' \in [Tasks -> Seq(TaskUpdates)] /\ aacted' \in [Tasks -> Nat]
      /\ aauth \in [Tasks -> Authorization] /\ adeciding.task \in Tasks \cup {NoId}
      BY <1>1 DEF ServerInv, WorkerTypes, ApprovalTypes
<1>3. \A t \in Tasks : aasked'[t] # "none" => aworker'[t] = "input"
      BY <1>1 DEF ServerInv, LocksExclude
<1>4. ASSUME NEW t \in Tasks, A!Expire(t) PROVE ServerInv' /\ StaysFinal
  <2>1. aauth' = [aauth EXCEPT ![t].expired = TRUE] /\ adeciding' = adeciding
        BY <1>4 DEF A!Expire
  <2>2. /\ aauth' \in [Tasks -> Authorization] /\ \A u \in Tasks : u # t => aauth'[u] = aauth[u]
        /\ aauth'[t].row = aauth[t].row /\ aauth'[t].future = aauth[t].future
        BY <1>2, <2>1 DEF Authorization
  <2>3. ApprovalInOrder(t)'
        BY <1>1, <2>2 DEF ServerInv, ApprovalInOrder
  <2> QED BY <1>1, <1>2, <1>3, <2>1, <2>2, <2>3, WorkerActs
<1>5. ASSUME NEW t \in Tasks, A!Decide(t) PROVE ServerInv' /\ StaysFinal
  <2>1. PICK v \in BOOLEAN : adeciding' = [task |-> t, approved |-> v]
        BY <1>5 DEF A!Decide
  <2>2. aauth' = aauth
        BY <1>5 DEF A!Decide
  <2>3. adeciding'.task = t
        BY <2>1
  <2>4. ApprovalInOrder(t)'
        BY <1>1, <2>2 DEF ServerInv, ApprovalInOrder
  <2> QED BY <1>1, <1>2, <1>3, <2>2, <2>3, <2>4, WorkerActs
<1>6. ASSUME A!Decided PROVE ServerInv' /\ StaysFinal
  <2>1. PICK t \in Tasks : t = adeciding.task
        BY <1>2, <1>6 DEF A!Decided
  <2>2. /\ adeciding'.task = NoId
        /\ aauth' = [aauth EXCEPT ![t] =
              IF A!Decidable(t) THEN [@ EXCEPT !.row = A!Verdict, !.future = A!Verdict] ELSE @]
        BY <1>6, <2>1 DEF A!Decided, A!NoDecision
  <2>3. PICK verdict \in {"approved", "denied"} : verdict = A!Verdict
        BY DEF A!Verdict
  <2>4. CASE A!Decidable(t)
    <3>1. astate[t] \notin Final /\ aauth[t].row = "pending"
          BY <2>4 DEF A!Decidable, A!TERMINAL, Final
    <3>2. /\ aauth' \in [Tasks -> Authorization] /\ \A u \in Tasks : u # t => aauth'[u] = aauth[u]
          /\ aauth'[t].row = verdict /\ aauth'[t].future = verdict
          BY <1>2, <2>2, <2>3, <2>4 DEF Authorization
    <3>3. ApprovalInOrder(t)'
          BY <1>1, <3>1, <3>2 DEF ServerInv, ApprovalInOrder
    <3> QED BY <1>1, <1>2, <1>3, <2>2, <3>1, <3>2, <3>3, WorkerActs
  <2>5. CASE ~A!Decidable(t)
    <3>1. aauth' = aauth
          BY <1>2, <2>2, <2>5
    <3>2. ApprovalInOrder(t)'
          BY <1>1, <3>1 DEF ServerInv, ApprovalInOrder
    <3> QED BY <1>1, <1>2, <1>3, <2>2, <3>1, <3>2, WorkerActs
  <2> QED BY <2>4, <2>5
<1> QED BY <1>4, <1>5, <1>6

\* A crash: what was under way is over, and its tasks failed.
LEMMA ServerRestarts == ASSUME ServerInv, A!Restart PROVE ServerInv' /\ StaysFinal
<1>1. /\ acall' = [m \in TaskMessages |-> IF acall[m] = "idle" THEN "idle" ELSE "over"]
      /\ aworker' = [t \in Tasks |-> IF aworker[t] = "none" THEN "none" ELSE "ended"]
      /\ aasked' = [t \in Tasks |-> "none"] /\ aupdates' = [t \in Tasks |-> <<>>]
      /\ adeciding'.task = NoId /\ UNCHANGED <<amessages, aclaims, agiven, aacted>>
      BY DEF A!Restart, A!NoDecision
<1>2. \A t \in Tasks : t \in A!Active <=> astate[t] \notin Final \cup {"absent"}
      BY DEF A!Active, A!TERMINAL, Final
<1>3. /\ astate' \in [Tasks -> TaskStates]
      /\ \A t \in Tasks : astate'[t] = IF astate[t] \notin Final \cup {"absent"} THEN "failed" ELSE astate[t]
  <2>1. astate' = [t \in Tasks |-> IF t \in A!Active THEN "failed" ELSE astate[t]]
        BY DEF A!Restart
  <2>2. "failed" \in TaskStates /\ astate \in [Tasks -> TaskStates]
        BY DEF ServerInv, StoreTypes, TaskStates, TaskUpdates, Final
  <2> QED BY <1>2, <2>1, <2>2
<1>4. aknown' = [t \in Tasks |-> aknown[t] /\ t \notin A!Active] /\ aknown' \in [Tasks -> BOOLEAN]
      BY DEF A!Restart
<1>5. \A t \in Tasks : aknown'[t] <=> aknown[t] /\ astate[t] \in Final \cup {"absent"}
      BY <1>2, <1>4
<1>6. CallTypes' /\ \A m \in TaskMessages : acall'[m] = IF acall[m] = "idle" THEN "idle" ELSE "over"
      BY <1>1 DEF ServerInv, CallTypes, CallStages
<1>7. <<>> \in Seq(TaskUpdates)
      BY EmptySeq
<1>8. WorkerTypes' /\ \A t \in Tasks : aworker'[t] \in {"none", "ended"} /\ aasked'[t] = "none"
      BY <1>1, <1>7 DEF WorkerTypes, Workers
<1>9. /\ aauth' \in [Tasks -> Authorization]
      /\ \A t \in Tasks : aauth'[t].future = "gone" /\ aauth'[t].row = IF aauth[t].row = "pending" THEN "interrupted" ELSE aauth[t].row
  <2>1. aauth' = [t \in Tasks |->
            [aauth[t] EXCEPT !.row = IF @ = "pending" THEN "interrupted" ELSE @, !.future = "gone"]]
        BY DEF A!Restart
  <2>2. aauth \in [Tasks -> Authorization]
        BY DEF ServerInv, ApprovalTypes
  <2> QED BY <2>1, <2>2 DEF Authorization
<1>10. StoreTypes' /\ ApprovalTypes'
      BY <1>1, <1>3, <1>4, <1>9 DEF ServerInv, StoreTypes, ApprovalTypes
<1>11. CallsInOrder'
  <2>1. \A m \in TaskMessages : ~UnderWay(m)' /\ TaskOf(m)' = TaskOf(m)
        BY <1>1, <1>6 DEF UnderWay, TaskOf
  <2>2. "failed" \in Final /\ "failed" # "absent"
        BY DEF Final
  <2>3. \A m \in TaskMessages : TaskOf(m)' \in Tasks => astate'[TaskOf(m)'] # "absent"
        BY <1>3, <2>1, <2>2 DEF ServerInv, CallsInOrder
  <2>4. \A t \in Tasks : ~aknown'[t] => astate'[t] \in Final
        BY <1>3, <1>5, <2>2 DEF ServerInv, CallsInOrder
  <2>5. \A m \in TaskMessages : agiven'[m] <= 1 /\ (agiven'[m] # 0 => acall'[m] \in {"draining", "stopping", "over"})
        BY <1>1, <1>6 DEF ServerInv, CallsInOrder
  <2>6. \A m \in TaskMessages : (acall'[m] # "idle" => TaskOf(m)' \in Tasks) /\ acall'[m] \in {"idle", "over"}
        BY <1>6, <2>1 DEF ServerInv, CallsInOrder
  <2> QED BY <2>1, <2>3, <2>4, <2>5, <2>6 DEF CallsInOrder
<1>12. LocksExclude'
      BY <1>8 DEF LocksExclude, Driving
<1>13. (\A t \in Tasks : ApprovalInOrder(t))'
  <2> SUFFICES ASSUME NEW t \in Tasks PROVE ApprovalInOrder(t)'
      OBVIOUS
  <2>1. ApprovalInOrder(t)
        BY DEF ServerInv
  <2> QED BY <1>1, <1>9, <2>1 DEF ApprovalInOrder
<1>14. StaysFinal
      BY <1>3, <1>9 DEF StaysFinal
<1> QED BY <1>6, <1>8, <1>10, <1>11, <1>12, <1>13, <1>14 DEF ServerInv

LEMMA ServerNext == ASSUME ServerInv, A!Next PROVE ServerInv' /\ StaysFinal
<1>1. CASE \E m \in TaskMessages, t \in Tasks : A!Reserve(m, t) \/ A!Reply(m, t)
      BY <1>1, ReserveKeeps
<1>2. CASE \E m \in TaskMessages : A!CallStep(m) \/ A!Abandon(m)
      BY <1>2, DispatchKeeps, FirstKeeps, LaunchCallKeeps, DrainKeeps, CancelKeeps, AbandonKeeps DEF A!CallStep
<1>3. CASE \E t \in Tasks : A!WorkerStep(t) \/ A!RequestInput(t) \/ A!Create(t)
      BY <1>3, WorkingKeeps, AcquireKeeps, SettlingKeeps, CreateKeeps DEF A!WorkerStep
<1>4. CASE \E t \in Tasks : A!Expire(t) \/ A!Decide(t) \/ A!Cancel(t) \/ A!Canceled(t)
      BY <1>4, RegistryKeeps, CancelKeeps, CanceledKeeps
<1>5. CASE A!Decided \/ A!Restart
      BY <1>5, RegistryKeeps, ServerRestarts
<1> QED BY <1>1, <1>2, <1>3, <1>4, <1>5 DEF A!Next

LEMMA ServerRests == ASSUME ServerInv, UNCHANGED A!vars PROVE ServerInv'
<1>1. UNCHANGED <<astate, aknown, amessages, aclaims, acall, agiven, aworker, aasked, aupdates, aauth, aacted, adeciding>>
      BY DEF A!vars, A!store, A!execution, A!approvals
<1>2. StoreTypes' /\ CallTypes' /\ WorkerTypes' /\ ApprovalTypes'
      BY <1>1 DEF ServerInv, StoreTypes, CallTypes, WorkerTypes, ApprovalTypes
<1>3. LocksExclude' /\ (\A t \in Tasks : ApprovalInOrder(t))'
      BY <1>1, WorkersRest
<1>4. CallsInOrder'
      BY <1>1 DEF ServerInv, CallsInOrder, UnderWay, TaskOf
<1> QED BY <1>2, <1>3, <1>4 DEF ServerInv

LEMMA ServerStarts == ASSUME A!Init PROVE ServerInv
<1>1. StoreTypes
  <2>1. astate \in [Tasks -> TaskStates] /\ aclaims \in [Tasks -> TaskMessages \cup {NoId}]
        BY DEF A!Init, TaskStates
  <2>2. aknown \in [Tasks -> BOOLEAN]
        BY DEF A!Init
  <2>3. [task |-> NoId, started |-> FALSE] \in [task : Tasks \cup {NoId}, started : BOOLEAN]
        OBVIOUS
  <2>4. amessages \in [TaskMessages -> [task : Tasks \cup {NoId}, started : BOOLEAN]]
        BY <2>3 DEF A!Init
  <2> QED BY <2>1, <2>2, <2>4 DEF StoreTypes
<1>2. CallTypes
      BY DEF A!Init, CallTypes, CallStages
<1>3. WorkerTypes
  <2>1. <<>> \in Seq(TaskUpdates)
        BY EmptySeq
  <2> QED BY <2>1 DEF A!Init, WorkerTypes, Workers
<1>4. A!NoAuth \in Authorization /\ A!NoAuth.future = "gone" /\ A!NoAuth.row = "none"
      BY DEF A!NoAuth, Authorization
<1>5. ApprovalTypes /\ \A t \in Tasks : aauth[t] = A!NoAuth /\ aacted[t] = 0
      BY <1>4 DEF A!Init, ApprovalTypes, A!NoDecision
<1>6. CallsInOrder
      BY ServerConstants DEF A!Init, CallsInOrder, UnderWay, TaskOf
<1>7. LocksExclude
      BY DEF A!Init, LocksExclude, Driving
<1>8. \A t \in Tasks : ApprovalInOrder(t)
      BY <1>4, <1>5 DEF ApprovalInOrder
<1> QED BY <1>1, <1>2, <1>3, <1>5, <1>6, <1>7, <1>8 DEF ServerInv

LEMMA RunsOnce == ServerInv => A!NothingRunsTwice
<1> SUFFICES ASSUME ServerInv PROVE A!NothingRunsTwice
    OBVIOUS
<1>1. A!MessagesRunOnce
      BY DEF ServerInv, CallsInOrder, LocksExclude, A!MessagesRunOnce, A!Holding, Driving
<1>2. A!ApprovalIsSpent
      BY DEF ServerInv, ApprovalInOrder, A!ApprovalIsSpent, A!Idle
<1> QED BY <1>1, <1>2 DEF A!NothingRunsTwice

\* No message and no approved operation runs twice, no two workers share a
\* session, and a task that ended stays as it ended, for any tasks, messages and
\* faults: every retry, cancel, late answer, timeout and restart included.
THEOREM TasksRunOnceAndForAll == A!Spec => OnceAndForAll
<1>1. A!Init => ServerInv
      BY ServerStarts
<1>2. ServerInv /\ [A!Next]_(A!vars) => ServerInv'
      BY ServerNext, ServerRests
<1>3. ServerInv /\ ServerInv' /\ [A!Next]_(A!vars) => [A!NothingRunsTwice' /\ A!TerminalIsFinal]_(A!vars)
  <2> SUFFICES ASSUME ServerInv, ServerInv', A!Next PROVE A!NothingRunsTwice' /\ A!TerminalIsFinal
      OBVIOUS
  <2>1. A!NothingRunsTwice'
        BY RunsOnce, PTL
  <2>2. StaysFinal
        BY ServerNext
  <2> QED BY <2>1, <2>2 DEF StaysFinal, A!TerminalIsFinal, A!TERMINAL, Final
<1> QED BY <1>1, <1>2, <1>3, PTL DEF A!Spec, OnceAndForAll, A!OnceAndForAll

LEMMA TasksAmongServices == ServicesSpec => A!Spec
<1>1. ServicesInit => A!Init
      BY DEF ServicesInit
<1>2. [ServicesNext]_<<which, vars, server, receipts, trash, timers, approvals, voice, tools, calls>>
          => [A!Next]_(A!vars)
      BY DEF ServicesNext, server, A!vars, A!store, A!execution, A!approvals
<1> QED BY <1>1, <1>2, PTL DEF ServicesSpec, A!Spec

\* And they do in the composition that the runs check.
THEOREM TasksRunOnceAmongServices == ServicesSpec => OnceAndForAll
BY TasksAmongServices, TasksRunOnceAndForAll, PTL

-----------------------------------------------------------------------------
(***************************************************************************)
(* The generations of tools: ConnectionsAreKept.  A connection is counted  *)
(* once by each generation that holds it and is gone when none does        *)
(* (Counted); a staged generation is the newest, in use by nobody, and has *)
(* nothing yet for what it is still to load (StageInv); nobody but the     *)
(* generations in use and those of the reload holds a connection           *)
(* (PlaceInv); and the run has or awaits the lock at its boundaries only,  *)
(* with a generation open to it between them (RunInv).                     *)
(***************************************************************************)

\* The types of a connection and of a reload.
Connection == [server : Servers, origin : Nat, refs : Nat, state : {"starting", "up", "down", "gone"}]
Reload == [stage : H!Stages, by : {"none", "run", "retry"}, gen : Nat, todo : SUBSET Servers,
           client : Nat, old : Nat, raised : BOOLEAN]

\* The generations that hold a connection.
Owners(c) == {g \in DOMAIN hholds : c \in H!Held(g)}

PoolTypes ==
    /\ hclient \in Seq(Connection) /\ hholds \in Seq([Servers -> Nat])
    /\ hdeclared \subseteq Servers /\ horigin \in [Servers -> Nat]

\* What a generation holds for a server was started for that server.
HeldForServer ==
    \A g \in DOMAIN hholds : \A s \in Servers :
        hholds[g][s] # 0 => hholds[g][s] \in DOMAIN hclient /\ hclient[hholds[g][s]].server = s

\* A reload waits for its server to come up.
Starting(c) == htask.stage = "start" /\ htask.client = c

Counted(c) ==
    /\ hclient[c].refs = Cardinality(Owners(c))
    /\ hclient[c].state \in {"starting", "gone"} => Owners(c) = {}
    /\ hclient[c].state \in {"up", "down"} => Owners(c) # {}
    /\ hclient[c].state = "starting" => Starting(c)
    /\ Starting(c) => hclient[c].state = "starting"

PoolInv == PoolTypes /\ HeldForServer /\ \A c \in DOMAIN hclient : Counted(c)

StageInv ==
    /\ htask \in Reload
    /\ htask.stage = "none" => htask = H!Idle
    /\ htask.stage # "none" => htask.gen = Len(hholds) /\ htask.gen \in DOMAIN hholds /\ htask.by # "none"
    /\ htask.old \in {0} \cup DOMAIN hholds /\ (htask.stage # "retire" => htask.old = 0)
    /\ htask.stage \in {"setup", "load", "start", "discover", "reject"} => hcurrent # htask.gen /\ hactive # htask.gen
    /\ htask.stage \in {"setup", "load", "start", "discover"} => htask.gen \notin hshut
    /\ htask.stage = "retire" => hcurrent = htask.gen
    /\ htask.stage = "setup" => \A s \in Servers : hholds[htask.gen][s] = 0
    /\ htask.stage \in {"load", "start"} => \A s \in htask.todo : hholds[htask.gen][s] = 0
    /\ htask.stage = "discover" => \A s \in htask.todo : s # H!Mine => hholds[htask.gen][s] = 0
    /\ htask.stage \in {"start", "discover"} => htask.client \in DOMAIN hclient
    /\ htask.stage = "start" => H!Mine \in htask.todo
    /\ htask.stage = "discover" => hholds[htask.gen][H!Mine] = htask.client

PlaceInv ==
    /\ \A g \in DOMAIN hholds : (\E s \in Servers : hholds[g][s] # 0) =>
          g \in {hcurrent, hactive} \/ (htask.stage # "none" /\ g \in {htask.gen, htask.old})
    /\ hclosing = "done" => \A g \in DOMAIN hholds : \A s \in Servers : hholds[g][s] = 0

\* The run goes on with tools between its boundaries, where it may reload.
Boundaries == {"before", "after_model", "after_tools"}
UsingTools == {"round", "swap", "model", "after_model", "tools", "after_tools"}

RunInv ==
    /\ {hcurrent, hactive} \subseteq DOMAIN hholds /\ hshut \subseteq DOMAIN hholds
    /\ hrun \in H!RunStages /\ hrunning \in BOOLEAN /\ hwaiting \in Seq({"run", "retry"})
    /\ hclosing \in {"no", "stopping", "draining", "releasing", "done"}
    /\ hrun \in {"none", "before"} => ~hrunning
    /\ hrun \in UsingTools => hrunning
    /\ ~hrunning => hactive = hcurrent
    /\ \A i \in DOMAIN hwaiting : hwaiting[i] = "run" => hrun \in Boundaries /\ htask.by # "run"
    /\ \A i, j \in DOMAIN hwaiting : hwaiting[i] = "run" /\ hwaiting[j] = "run" => i = j
    /\ htask.by = "run" => hrun \in Boundaries
    /\ hclosing \in {"draining", "releasing", "done"} => hrun = "none"
    /\ hclosing \in {"releasing", "done"} => htask.stage = "none"
    /\ hrun \in UsingTools \ {"round", "swap"} => hactive \notin hshut
    /\ hclosing \in {"no", "stopping"} => hcurrent \notin hshut

ToolsInv == PoolInv /\ StageInv /\ PlaceInv /\ RunInv

LEMMA SameToolCardinality == \A T : H!Cardinality(T) = Cardinality(T)
BY Zenon DEF Cardinality, H!Cardinality

LEMMA FunctionsAreSequences == ASSUME NEW T, NEW n \in Nat, NEW f \in [1 .. n -> T] PROVE f \in Seq(T) /\ Len(f) = n
OBVIOUS

LEMMA PoolDomains ==
    ASSUME PoolTypes
    PROVE  /\ Len(hclient) \in Nat /\ hclient \in [1 .. Len(hclient) -> Connection] /\ DOMAIN hclient = 1 .. Len(hclient)
           /\ Len(hholds) \in Nat /\ hholds \in [1 .. Len(hholds) -> [Servers -> Nat]] /\ DOMAIN hholds = 1 .. Len(hholds)
<1>1. hclient \in Seq(Connection) /\ hholds \in Seq([Servers -> Nat])
      BY DEF PoolTypes
<1> QED BY <1>1, LenProperties

LEMMA OwnersAreFinite ==
    ASSUME PoolTypes, NEW c
    PROVE  IsFiniteSet(Owners(c)) /\ Cardinality(Owners(c)) \in Nat /\ (Cardinality(Owners(c)) = 0 <=> Owners(c) = {})
<1>1. IsFiniteSet(DOMAIN hholds)
      BY PoolDomains, FS_Interval
<1>2. Owners(c) \subseteq DOMAIN hholds
      BY DEF Owners
<1>3. IsFiniteSet(Owners(c))
      BY <1>1, <1>2, FS_Subset
<1> QED BY <1>3, FS_CardinalityType, FS_EmptySet

LEMMA OwnersAre ==
    ASSUME PoolTypes, NEW c, c # 0
    PROVE  Owners(c) = {g \in DOMAIN hholds : \E s \in Servers : hholds[g][s] = c}
BY DEF Owners, H!Held

-----------------------------------------------------------------------------
(* Connections are shared, and let go *)

\* Connections whose owners and state are as before.
LEMMA CountRests ==
    ASSUME NEW c, Counted(c), Owners(c)' = Owners(c), Starting(c)' => Starting(c), Starting(c) => Starting(c)',
           hclient'[c].refs = hclient[c].refs,
           hclient'[c].state = hclient[c].state \/ (hclient[c].state = "up" /\ hclient'[c].state = "down")
    PROVE  Counted(c)'
<1>1. Counted(c)' <=> /\ hclient'[c].refs = Cardinality(Owners(c)')
                      /\ hclient'[c].state \in {"starting", "gone"} => Owners(c)' = {}
                      /\ hclient'[c].state \in {"up", "down"} => Owners(c)' # {}
                      /\ hclient'[c].state = "starting" => Starting(c)'
                      /\ Starting(c)' => hclient'[c].state = "starting"
      BY DEF Counted
<1> QED BY <1>1 DEF Counted

\* Only the reload changes, and no start begins or ends.
LEMMA PoolRests ==
    ASSUME PoolInv, UNCHANGED <<hclient, hholds>>, hdeclared' \subseteq Servers, horigin' \in [Servers -> Nat],
           \A c \in DOMAIN hclient : (Starting(c)' => Starting(c)) /\ (Starting(c) => Starting(c)')
    PROVE  PoolInv'
<1>1. \A c \in DOMAIN hclient : Owners(c)' = Owners(c)
      BY DEF Owners, H!Held
<1>2. \A c \in DOMAIN hclient : Counted(c)'
      BY <1>1, CountRests DEF PoolInv
<1>3. PoolTypes' /\ HeldForServer'
      BY DEF PoolInv, PoolTypes, HeldForServer
<1> QED BY <1>2, <1>3 DEF PoolInv

\* The managers of some generations let go of everything they hold.
LEMMA LetGoKeeps ==
    ASSUME PoolInv, NEW gs \in SUBSET DOMAIN hholds, H!Release(gs), UNCHANGED <<hdeclared, horigin>>,
           \A c \in DOMAIN hclient : (Starting(c)' => Starting(c)) /\ (Starting(c) => Starting(c)')
    PROVE  /\ PoolInv' /\ Len(hholds') = Len(hholds) /\ DOMAIN hholds' = DOMAIN hholds
           /\ DOMAIN hclient' = DOMAIN hclient /\ \A c \in DOMAIN hclient : hclient'[c].server = hclient[c].server
           /\ \A g \in DOMAIN hholds : \A s \in Servers : hholds'[g][s] = IF g \in gs THEN 0 ELSE hholds[g][s]
<1>1. /\ Len(hclient) \in Nat /\ hclient \in [1 .. Len(hclient) -> Connection] /\ DOMAIN hclient = 1 .. Len(hclient)
      /\ Len(hholds) \in Nat /\ hholds \in [1 .. Len(hholds) -> [Servers -> Nat]] /\ DOMAIN hholds = 1 .. Len(hholds)
  <2>1. PoolTypes
        BY DEF PoolInv
  <2> QED BY ONLY <2>1, PoolDomains
<1>2. H!None \in [Servers -> Nat] /\ \A s \in Servers : H!None[s] = 0
      BY DEF H!None
<1>3. hholds' = [g \in 1 .. Len(hholds) |-> IF g \in gs THEN H!None ELSE hholds[g]]
      BY <1>1 DEF H!Release
<1>4. hholds' \in [1 .. Len(hholds) -> [Servers -> Nat]]
      BY <1>1, <1>2, <1>3
<1>5. hholds' \in Seq([Servers -> Nat]) /\ Len(hholds') = Len(hholds) /\ DOMAIN hholds' = DOMAIN hholds
      BY <1>1, <1>4, FunctionsAreSequences
<1>6. \A g \in DOMAIN hholds : \A s \in Servers : hholds'[g][s] = IF g \in gs THEN 0 ELSE hholds[g][s]
      BY <1>1, <1>2, <1>3
<1> DEFINE n(c) == Cardinality({g \in gs : c \in H!Held(g)})
           after(c) == [hclient[c] EXCEPT !.refs = hclient[c].refs - n(c),
                            !.state = IF n(c) > 0 /\ hclient[c].refs = n(c) THEN "gone" ELSE hclient[c].state]
<1>7. \A c \in DOMAIN hclient :
          /\ Owners(c)' = Owners(c) \ gs /\ n(c) = Cardinality(Owners(c) \cap gs)
          /\ n(c) \in Nat /\ (n(c) = 0 <=> Owners(c) \cap gs = {})
          /\ Cardinality(Owners(c) \ gs) = Cardinality(Owners(c)) - n(c) /\ Cardinality(Owners(c) \ gs) \in Nat
          /\ (Cardinality(Owners(c) \ gs) = 0 <=> Owners(c) \ gs = {})
  <2> SUFFICES ASSUME NEW c \in DOMAIN hclient
               PROVE  /\ Owners(c)' = Owners(c) \ gs /\ n(c) = Cardinality(Owners(c) \cap gs)
                      /\ n(c) \in Nat /\ (n(c) = 0 <=> Owners(c) \cap gs = {})
                      /\ Cardinality(Owners(c) \ gs) = Cardinality(Owners(c)) - n(c) /\ Cardinality(Owners(c) \ gs) \in Nat
                      /\ (Cardinality(Owners(c) \ gs) = 0 <=> Owners(c) \ gs = {})
      OBVIOUS
  <2>1. c # 0
        BY <1>1
  <2>2. Owners(c)' = {g \in DOMAIN hholds : \E s \in Servers : hholds'[g][s] = c}
        BY <1>5, <2>1 DEF Owners, H!Held
  <2>3. Owners(c)' = Owners(c) \ gs
        BY <1>6, <2>1, <2>2, OwnersAre DEF PoolInv
  <2>4. {g \in gs : c \in H!Held(g)} = Owners(c) \cap gs
        BY DEF Owners
  <2>5. IsFiniteSet(Owners(c))
        BY OwnersAreFinite DEF PoolInv
  <2>6. IsFiniteSet(Owners(c) \cap gs) /\ IsFiniteSet(Owners(c) \ gs)
        /\ Cardinality(Owners(c) \ gs) = Cardinality(Owners(c)) - Cardinality(Owners(c) \cap gs)
        BY <2>5, FS_Intersection, FS_Difference
  <2> QED BY <2>3, <2>4, <2>6, FS_CardinalityType, FS_EmptySet
<1>8. \A c \in DOMAIN hclient : hclient[c] \in Connection /\ n(c) \in Nat /\ hclient[c].refs - n(c) \in Nat
      BY <1>1, <1>7 DEF PoolInv, Counted
<1>9. hclient' = [c \in 1 .. Len(hclient) |-> after(c)]
      BY <1>1, SameToolCardinality DEF H!Release
<1>10. \A c \in DOMAIN hclient :
           /\ after(c) \in Connection /\ after(c).server = hclient[c].server /\ after(c).refs = hclient[c].refs - n(c)
           /\ after(c).state = IF n(c) > 0 /\ hclient[c].refs = n(c) THEN "gone" ELSE hclient[c].state
      BY <1>8 DEF Connection
<1> HIDE DEF n, after
<1>11. hclient' \in [1 .. Len(hclient) -> Connection]
      BY <1>1, <1>9, <1>10
<1>12. hclient' \in Seq(Connection) /\ DOMAIN hclient' = DOMAIN hclient /\ \A c \in DOMAIN hclient : hclient'[c] = after(c)
      BY <1>1, <1>9, <1>11, FunctionsAreSequences
<1>13. PoolTypes' /\ HeldForServer'
  <2>1. PoolTypes'
        BY <1>5, <1>12 DEF PoolInv, PoolTypes
  <2>2. HeldForServer /\ \A c \in DOMAIN hclient : hclient'[c].server = hclient[c].server
        BY <1>10, <1>12 DEF PoolInv
  <2>3. ASSUME NEW g \in DOMAIN hholds, NEW s \in Servers, hholds'[g][s] # 0
        PROVE  hholds'[g][s] \in DOMAIN hclient /\ hclient'[hholds'[g][s]].server = s
    <3>1. hholds'[g][s] = hholds[g][s]
          BY <1>6, <2>3
    <3>2. hholds[g][s] \in DOMAIN hclient /\ hclient[hholds[g][s]].server = s
          BY <2>2, <2>3, <3>1 DEF HeldForServer
    <3> QED BY <2>2, <3>1, <3>2
  <2>4. HeldForServer'
        BY <1>5, <1>12, <2>3 DEF HeldForServer
  <2> QED BY <2>1, <2>4
<1>14. \A c \in DOMAIN hclient : Counted(c)'
  <2> SUFFICES ASSUME NEW c \in DOMAIN hclient PROVE Counted(c)'
      OBVIOUS
  <2>1. Counted(c) /\ hclient[c].state \in {"starting", "up", "down", "gone"}
        BY <1>8 DEF PoolInv, Connection
  <2>2. CASE n(c) = 0
    <3>1. Owners(c)' = Owners(c)
          BY <1>7, <2>2
    <3>2. hclient'[c].refs = hclient[c].refs /\ hclient'[c].state = hclient[c].state
          BY <1>8, <1>10, <1>12, <2>2 DEF Connection
    <3> QED BY <2>1, <3>1, <3>2, CountRests
  <2>3. CASE n(c) # 0
    <3>1. Owners(c) # {} /\ hclient[c].state \in {"up", "down"} /\ ~Starting(c) /\ ~Starting(c)'
          BY <1>7, <2>1, <2>3 DEF Counted
    <3>2. hclient[c].refs = Cardinality(Owners(c)) /\ hclient[c].refs \in Nat
          BY <1>8, <2>1 DEF Counted, Connection
    <3>3. /\ hclient'[c].refs = hclient[c].refs - n(c)
          /\ hclient'[c].state = IF n(c) > 0 /\ hclient[c].refs = n(c) THEN "gone" ELSE hclient[c].state
          BY <1>10, <1>12
    <3>4. hclient'[c].refs = Cardinality(Owners(c)')
          BY <1>7, <3>2, <3>3
    <3>5. n(c) > 0 /\ (hclient[c].refs = n(c) => Owners(c)' = {}) /\ (Owners(c)' = {} => hclient[c].refs = n(c))
      <4>1. /\ Owners(c)' = Owners(c) \ gs /\ n(c) \in Nat
            /\ Cardinality(Owners(c) \ gs) = Cardinality(Owners(c)) - n(c)
            /\ (Cardinality(Owners(c) \ gs) = 0 <=> Owners(c) \ gs = {})
            BY <1>7
      <4> QED BY <2>3, <3>2, <4>1
    <3> QED BY <3>1, <3>3, <3>4, <3>5 DEF Counted
  <2> QED BY <2>2, <2>3
<1> QED BY <1>5, <1>6, <1>10, <1>12, <1>13, <1>14 DEF PoolInv

\* One generation holds something else for one server.
Put(held, h, s, c) == [held EXCEPT ![h][s] = c]

LEMMA OneCell ==
    ASSUME PoolTypes, NEW h \in DOMAIN hholds, NEW s \in Servers, NEW c \in Nat, hholds' = Put(hholds, h, s, c)
    PROVE  /\ hholds' \in Seq([Servers -> Nat]) /\ Len(hholds') = Len(hholds) /\ DOMAIN hholds' = DOMAIN hholds
           /\ \A g \in DOMAIN hholds : \A r \in Servers : hholds'[g][r] = IF g = h /\ r = s THEN c ELSE hholds[g][r]
<1>1. /\ Len(hholds) \in Nat /\ hholds \in [1 .. Len(hholds) -> [Servers -> Nat]] /\ DOMAIN hholds = 1 .. Len(hholds)
      BY PoolDomains
<1>2. hholds' \in [1 .. Len(hholds) -> [Servers -> Nat]]
      BY <1>1 DEF Put
<1>3. \A g \in DOMAIN hholds : \A r \in Servers : hholds'[g][r] = IF g = h /\ r = s THEN c ELSE hholds[g][r]
      BY <1>1 DEF Put
<1>4. hholds' \in Seq([Servers -> Nat]) /\ Len(hholds') = Len(hholds)
  <2>1. Len(hholds) \in Nat
        BY <1>1
  <2> QED BY ONLY <2>1, <1>2, FunctionsAreSequences
<1>5. DOMAIN hholds' = DOMAIN hholds
      BY <1>1, <1>2
<1> QED BY <1>3, <1>4, <1>5

\* Servers that hold what they held, or a connection of their own.
LEMMA HeldStay ==
    ASSUME HeldForServer, DOMAIN hholds' = DOMAIN hholds, DOMAIN hclient \subseteq DOMAIN hclient',
           \A c \in DOMAIN hclient : hclient'[c].server = hclient[c].server,
           \A g \in DOMAIN hholds : \A r \in Servers :
               \/ hholds'[g][r] \in {0, hholds[g][r]}
               \/ hholds'[g][r] \in DOMAIN hclient' /\ hclient'[hholds'[g][r]].server = r
    PROVE  HeldForServer'
<1>1. ASSUME NEW g \in DOMAIN hholds, NEW r \in Servers, hholds'[g][r] # 0
      PROVE  hholds'[g][r] \in DOMAIN hclient' /\ hclient'[hholds'[g][r]].server = r
  <2>1. CASE hholds'[g][r] = hholds[g][r]
    <3>1. hholds[g][r] \in DOMAIN hclient /\ hclient[hholds[g][r]].server = r
          BY <1>1, <2>1 DEF HeldForServer
    <3> QED BY <2>1, <3>1
  <2> QED BY <1>1, <2>1
<1> QED BY <1>1 DEF HeldForServer

\* One connection is counted, or is not any more, for one generation.
LEMMA OwnerMore ==
    ASSUME PoolTypes, NEW c \in DOMAIN hclient, NEW h
    PROVE  /\ h \notin Owners(c) => Cardinality(Owners(c) \cup {h}) = Cardinality(Owners(c)) + 1
           /\ h \in Owners(c) => Cardinality(Owners(c) \ {h}) = Cardinality(Owners(c)) - 1
           /\ h \in Owners(c) => (Cardinality(Owners(c)) = 1 <=> Owners(c) \ {h} = {})
<1>1. IsFiniteSet(Owners(c))
  <2>1. PoolTypes
        OBVIOUS
  <2> QED BY ONLY <2>1, OwnersAreFinite
<1>2. IsFiniteSet(Owners(c) \ {h}) /\ (h \in Owners(c) => Cardinality(Owners(c) \ {h}) = Cardinality(Owners(c)) - 1)
      BY <1>1, FS_RemoveElement
<1>3. Cardinality(Owners(c) \ {h}) = 0 <=> Owners(c) \ {h} = {}
      BY <1>2, FS_EmptySet
<1>4. Cardinality(Owners(c)) \in Nat
      BY <1>1, FS_CardinalityType
<1>5. h \notin Owners(c) => Cardinality(Owners(c) \cup {h}) = Cardinality(Owners(c)) + 1
      BY <1>1, FS_AddElement
<1> QED BY <1>2, <1>3, <1>4, <1>5

\* The staged generation gives up what it holds for a server.
LEMMA RemoveKeeps ==
    ASSUME PoolInv, StageInv, htask.stage = "discover", htask'.stage # "start", H!Remove(H!Mine), UNCHANGED <<hdeclared, horigin>>
    PROVE  PoolInv' /\ DOMAIN hclient' = DOMAIN hclient /\ \A c \in DOMAIN hclient : hclient'[c].server = hclient[c].server
<1> PICK h, s, k : h = htask.gen /\ s = H!Mine /\ k = htask.client
    OBVIOUS
<1>1. /\ Len(hclient) \in Nat /\ hclient \in [1 .. Len(hclient) -> Connection] /\ DOMAIN hclient = 1 .. Len(hclient)
      /\ DOMAIN hholds = 1 .. Len(hholds)
  <2>1. PoolTypes
        BY DEF PoolInv
  <2> QED BY <2>1, PoolDomains
<1>2. h \in DOMAIN hholds /\ k \in DOMAIN hclient /\ hholds[h][s] = k /\ k # 0
      BY <1>1 DEF StageInv
<1>3. hclient[k] \in Connection /\ s = hclient[k].server /\ s \in Servers
      BY <1>1, <1>2 DEF Connection, H!Mine
<1>4. hholds' = Put(hholds, h, s, 0)
      BY DEF H!Remove, Put
<1>5. hclient' = [c \in DOMAIN hclient |-> IF c # k THEN hclient[c]
                     ELSE [hclient[c] EXCEPT !.refs = hclient[c].refs - 1,
                                             !.state = IF hclient[c].refs = 1 THEN "gone" ELSE hclient[c].state]]
      BY <1>2 DEF H!Remove, H!Released
<1>6. /\ hholds' \in Seq([Servers -> Nat]) /\ Len(hholds') = Len(hholds) /\ DOMAIN hholds' = DOMAIN hholds
      /\ \A g \in DOMAIN hholds : \A r \in Servers : hholds'[g][r] = IF g = h /\ r = s THEN 0 ELSE hholds[g][r]
  <2>1. PoolTypes
        BY DEF PoolInv
  <2>2. h \in DOMAIN hholds /\ s \in Servers /\ 0 \in Nat
        BY <1>2, <1>3
  <2> QED BY ONLY <1>4, <2>1, <2>2, OneCell
<1>7. \A c \in DOMAIN hclient : Owners(c)' = IF c = k THEN Owners(c) \ {h} ELSE Owners(c)
  <2> SUFFICES ASSUME NEW c \in DOMAIN hclient PROVE Owners(c)' = IF c = k THEN Owners(c) \ {h} ELSE Owners(c)
      OBVIOUS
  <2>1. c # 0
        BY <1>1
  <2>2. Owners(c)' = {g \in DOMAIN hholds : \E r \in Servers : hholds'[g][r] = c}
        BY <1>6, <2>1 DEF Owners, H!Held
  <2>3. Owners(c) = {g \in DOMAIN hholds : \E r \in Servers : hholds[g][r] = c}
        BY <2>1, OwnersAre DEF PoolInv
  <2>4. \A r \in Servers : hholds[h][r] = k => r = s
        BY <1>2, <1>3 DEF PoolInv, HeldForServer
  <2>5. ASSUME NEW g \in DOMAIN hholds, NEW r \in Servers, hholds'[g][r] = c
        PROVE  hholds[g][r] = c /\ ~(g = h /\ c = k)
        BY <1>6, <2>1, <2>4, <2>5
  <2>6. ASSUME NEW g \in DOMAIN hholds, NEW r \in Servers, hholds[g][r] = c, ~(g = h /\ c = k)
        PROVE  hholds'[g][r] = c
        BY <1>2, <1>6, <2>6
  <2>7. CASE c = k
        BY <2>2, <2>3, <2>5, <2>6, <2>7
  <2>8. CASE c # k
        BY <2>2, <2>3, <2>5, <2>6, <2>8
  <2> QED BY <2>7, <2>8
<1>8. h \in Owners(k) /\ Counted(k) /\ hclient[k].refs = Cardinality(Owners(k)) /\ hclient[k].refs \in Nat
  <2>1. Owners(k) = {g \in DOMAIN hholds : \E r \in Servers : hholds[g][r] = k}
        BY <1>2, OwnersAre DEF PoolInv
  <2> QED BY <1>2, <1>3, <2>1 DEF PoolInv, Counted, Connection
<1>9. /\ Cardinality(Owners(k) \ {h}) = Cardinality(Owners(k)) - 1 /\ Cardinality(Owners(k) \ {h}) \in Nat
      /\ Cardinality(Owners(k)) = 1 <=> Owners(k) \ {h} = {}
  <2>1. PoolTypes
        BY DEF PoolInv
  <2>2. IsFiniteSet(Owners(k) \ {h})
        BY <2>1, OwnersAreFinite, FS_RemoveElement
  <2> QED BY <1>2, <1>8, <2>1, <2>2, OwnerMore, FS_CardinalityType
<1>10. /\ hclient'[k] = [hclient[k] EXCEPT !.refs = hclient[k].refs - 1,
                                           !.state = IF hclient[k].refs = 1 THEN "gone" ELSE hclient[k].state]
       /\ \A c \in DOMAIN hclient : c # k => hclient'[c] = hclient[c]
      BY <1>2, <1>5
<1>11. /\ hclient'[k] \in Connection /\ hclient'[k].server = s /\ hclient'[k].refs = Cardinality(Owners(k)')
       /\ hclient'[k].state = IF Owners(k)' = {} THEN "gone" ELSE hclient[k].state
  <2>1. hclient[k].refs - 1 \in Nat /\ Owners(k)' = Owners(k) \ {h}
        BY <1>2, <1>7, <1>8, <1>9
  <2>2. /\ hclient'[k] \in Connection /\ hclient'[k].server = hclient[k].server /\ hclient'[k].refs = hclient[k].refs - 1
        /\ hclient'[k].state = IF hclient[k].refs = 1 THEN "gone" ELSE hclient[k].state
        BY <1>3, <1>10, <2>1 DEF Connection
  <2> QED BY <1>3, <1>8, <1>9, <2>1, <2>2
<1>12. hclient' \in Seq(Connection) /\ DOMAIN hclient' = DOMAIN hclient
  <2>1. hclient' \in [1 .. Len(hclient) -> Connection]
        BY <1>1, <1>5, <1>10, <1>11
  <2> QED BY <1>1, <2>1, FunctionsAreSequences
<1>13. \A c \in DOMAIN hclient : hclient'[c].server = hclient[c].server
      BY <1>3, <1>10, <1>11
<1>14. PoolTypes' /\ HeldForServer'
  <2>1. PoolTypes'
        BY <1>6, <1>12 DEF PoolInv, PoolTypes
  <2>2. HeldForServer
        BY DEF PoolInv
  <2>3. HeldForServer'
        BY <1>6, <1>12, <1>13, <2>2, HeldStay
  <2> QED BY <2>1, <2>3
<1>15. \A c \in DOMAIN hclient : ~Starting(c) /\ ~Starting(c)'
      BY DEF Starting
<1>16. ASSUME NEW c \in DOMAIN hclient PROVE Counted(c)'
  <2>1. Counted(c)
        BY DEF PoolInv
  <2>2. CASE c = k
    <3>1. hclient[k].state \in {"up", "down"}
          BY <1>3, <1>8, <1>15, <2>2 DEF Counted, Connection
    <3> QED BY <1>11, <1>15, <2>2, <3>1 DEF Counted
  <2>3. CASE c # k
        BY <1>7, <1>10, <1>15, <2>1, <2>3, CountRests
  <2> QED BY <2>2, <2>3
<1> QED BY <1>12, <1>13, <1>14, <1>16 DEF PoolInv

\* The staged generation shares a connection, or has one of its own.
LEMMA OwnerAdded ==
    ASSUME PoolInv, NEW h \in DOMAIN hholds, NEW s \in Servers, NEW k \in DOMAIN hclient, hholds[h][s] = 0,
           hclient[k].server = s, hholds' = Put(hholds, h, s, k), UNCHANGED <<hdeclared, horigin>>,
           hclient' \in [1 .. Len(hclient) -> Connection], \A c \in DOMAIN hclient : c # k => hclient'[c] = hclient[c],
           hclient'[k].server = s, hclient'[k].refs = hclient[k].refs + 1, hclient'[k].state = "up",
           \A c \in DOMAIN hclient : ~Starting(c)' /\ (Starting(c) => c = k)
    PROVE  /\ PoolInv' /\ Len(hholds') = Len(hholds) /\ DOMAIN hholds' = DOMAIN hholds /\ DOMAIN hclient' = DOMAIN hclient
           /\ \A c \in DOMAIN hclient : hclient'[c].server = hclient[c].server
           /\ \A g \in DOMAIN hholds : \A r \in Servers : hholds'[g][r] = IF g = h /\ r = s THEN k ELSE hholds[g][r]
<1>0. PoolTypes /\ HeldForServer /\ \A c \in DOMAIN hclient : Counted(c)
      BY DEF PoolInv
<1>1. /\ Len(hclient) \in Nat /\ hclient \in [1 .. Len(hclient) -> Connection] /\ DOMAIN hclient = 1 .. Len(hclient)
      /\ DOMAIN hholds = 1 .. Len(hholds)
      BY ONLY <1>0, PoolDomains
<1>2. hclient' \in Seq(Connection) /\ DOMAIN hclient' = DOMAIN hclient
      BY <1>1, FunctionsAreSequences
<1>3. \A c \in DOMAIN hclient : hclient'[c].server = hclient[c].server
      OBVIOUS
<1>4. /\ hholds' \in Seq([Servers -> Nat]) /\ Len(hholds') = Len(hholds) /\ DOMAIN hholds' = DOMAIN hholds
      /\ \A g \in DOMAIN hholds : \A r \in Servers : hholds'[g][r] = IF g = h /\ r = s THEN k ELSE hholds[g][r]
  <2>1. k \in Nat
        BY <1>1
  <2> QED BY <1>0, <2>1, OneCell
<1>5. PoolTypes' /\ HeldForServer'
  <2>1. PoolTypes'
        BY <1>0, <1>2, <1>4 DEF PoolTypes
  <2>2. HeldForServer'
        BY <1>0, <1>2, <1>3, <1>4, HeldStay
  <2> QED BY <2>1, <2>2
<1>6. \A c \in DOMAIN hclient :
          /\ Owners(c) = {g \in DOMAIN hholds : \E r \in Servers : hholds[g][r] = c}
          /\ Owners(c)' = {g \in DOMAIN hholds : \E r \in Servers : hholds'[g][r] = c}
  <2> SUFFICES ASSUME NEW c \in DOMAIN hclient
               PROVE  /\ Owners(c) = {g \in DOMAIN hholds : \E r \in Servers : hholds[g][r] = c}
                      /\ Owners(c)' = {g \in DOMAIN hholds : \E r \in Servers : hholds'[g][r] = c}
      OBVIOUS
  <2>1. c # 0
        BY <1>1
  <2>2. Owners(c) = {g \in DOMAIN hholds : \E r \in Servers : hholds[g][r] = c}
        BY <1>0, <2>1, OwnersAre
  <2>3. Owners(c)' = {g \in DOMAIN hholds : \E r \in Servers : hholds'[g][r] = c}
        BY <1>4, <2>1 DEF Owners, H!Held
  <2> QED BY <2>2, <2>3
<1>7. \A r \in Servers : hholds[h][r] # k
      BY <1>0, <1>1 DEF HeldForServer
<1>8. h \notin Owners(k) /\ Owners(k)' = Owners(k) \cup {h}
  <2>1. hholds'[h][s] = k /\ \A g \in DOMAIN hholds \ {h} : \A r \in Servers : hholds'[g][r] = hholds[g][r]
        BY <1>4
  <2>2. Owners(k) = {g \in DOMAIN hholds : \E r \in Servers : hholds[g][r] = k}
        /\ Owners(k)' = {g \in DOMAIN hholds : \E r \in Servers : hholds'[g][r] = k}
        BY <1>6
  <2>3. h \notin Owners(k) /\ h \in Owners(k)'
        BY <1>7, <2>1, <2>2
  <2>4. \A g \in DOMAIN hholds \ {h} : (g \in Owners(k) => g \in Owners(k)') /\ (g \in Owners(k)' => g \in Owners(k))
        BY <2>1, <2>2
  <2>5. Owners(k) \subseteq DOMAIN hholds /\ Owners(k)' \subseteq DOMAIN hholds
        BY <2>2
  <2> QED BY <2>3, <2>4, <2>5
<1>9. \A c \in DOMAIN hclient : c # k => Owners(c)' = Owners(c)
  <2> SUFFICES ASSUME NEW c \in DOMAIN hclient, c # k PROVE Owners(c)' = Owners(c)
      OBVIOUS
  <2>1. c # 0
        BY <1>1
  <2>2. \A g \in DOMAIN hholds : (\E r \in Servers : hholds[g][r] = c) <=> (\E r \in Servers : hholds'[g][r] = c)
        BY <1>4, <2>1
  <2> QED BY <1>6, <2>2
<1>10. Cardinality(Owners(k) \cup {h}) = Cardinality(Owners(k)) + 1
      BY <1>0, <1>8, OwnerMore
<1>11. ASSUME NEW c \in DOMAIN hclient PROVE Counted(c)'
  <2>1. CASE c = k
    <3>1. hclient[k].refs = Cardinality(Owners(k))
          BY <1>0 DEF Counted
    <3> QED BY <1>8, <1>10, <2>1, <3>1 DEF Counted
  <2>2. CASE c # k
    <3>1. ~Starting(c) /\ ~Starting(c)' /\ hclient'[c] = hclient[c]
          BY <2>2
    <3> QED BY <1>0, <1>9, <2>2, <3>1, CountRests
  <2> QED BY <2>1, <2>2
<1> QED BY <1>2, <1>3, <1>4, <1>5, <1>11 DEF PoolInv

\* Servers die, or do not come up.
LEMMA StatesMove ==
    ASSUME PoolInv, UNCHANGED <<hholds, hdeclared, horigin>>, hclient' \in [1 .. Len(hclient) -> Connection],
           \A c \in DOMAIN hclient : hclient'[c].server = hclient[c].server /\ hclient'[c].refs = hclient[c].refs,
           \A c \in DOMAIN hclient :
               \/ /\ hclient'[c].state = hclient[c].state \/ (hclient[c].state = "up" /\ hclient'[c].state = "down")
                  /\ (Starting(c)' => Starting(c)) /\ (Starting(c) => Starting(c)')
               \/ hclient[c].state = "starting" /\ hclient'[c].state = "gone" /\ ~Starting(c)'
    PROVE  PoolInv' /\ DOMAIN hclient' = DOMAIN hclient
<1>0. PoolTypes /\ HeldForServer /\ \A c \in DOMAIN hclient : Counted(c)
      BY DEF PoolInv
<1>1. Len(hclient) \in Nat /\ DOMAIN hclient = 1 .. Len(hclient)
      BY ONLY <1>0, PoolDomains
<1>2. hclient' \in Seq(Connection) /\ DOMAIN hclient' = DOMAIN hclient
      BY <1>1, FunctionsAreSequences
<1>3. PoolTypes' /\ HeldForServer'
      BY <1>0, <1>2 DEF PoolTypes, HeldForServer
<1>4. \A c : Owners(c)' = Owners(c)
      BY DEF Owners, H!Held
<1>5. ASSUME NEW c \in DOMAIN hclient PROVE Counted(c)'
  <2>1. CASE hclient[c].state = "starting" /\ hclient'[c].state = "gone" /\ ~Starting(c)'
        BY <1>0, <1>4, <2>1 DEF Counted
  <2>2. CASE ~(hclient[c].state = "starting" /\ hclient'[c].state = "gone" /\ ~Starting(c)')
        BY <1>0, <1>4, <2>2, CountRests
  <2> QED BY <2>1, <2>2
<1> QED BY <1>2, <1>3, <1>5 DEF PoolInv

\* A server is started, and nobody holds it yet.
LEMMA StartedPool ==
    ASSUME PoolInv, NEW k \in Connection, hclient' = Append(hclient, k), UNCHANGED <<hholds, hdeclared, horigin>>,
           k.refs = 0, k.state = "starting", \A c \in DOMAIN hclient : ~Starting(c) /\ ~Starting(c)',
           htask'.stage = "start" /\ htask'.client = Len(hclient) + 1
    PROVE  /\ PoolInv' /\ Len(hclient) + 1 \in DOMAIN hclient' /\ hclient'[Len(hclient) + 1] = k
           /\ DOMAIN hclient \subseteq DOMAIN hclient' /\ \A c \in DOMAIN hclient : hclient'[c] = hclient[c]
<1>0. PoolTypes /\ HeldForServer /\ \A c \in DOMAIN hclient : Counted(c)
      BY DEF PoolInv
<1>1. Len(hclient) \in Nat /\ DOMAIN hclient = 1 .. Len(hclient) /\ hclient \in Seq(Connection)
      BY <1>0, PoolDomains DEF PoolTypes
<1>2. /\ hclient' \in Seq(Connection) /\ Len(hclient') = Len(hclient) + 1 /\ hclient'[Len(hclient) + 1] = k
      /\ \A c \in 1 .. Len(hclient) : hclient'[c] = hclient[c]
      BY <1>1, AppendProperties
<1>3. DOMAIN hclient' = 1 .. Len(hclient) + 1
      BY <1>2, LenProperties
<1>4. PoolTypes' /\ HeldForServer'
      BY <1>0, <1>1, <1>2, <1>3 DEF PoolTypes, HeldForServer
<1>5. \A c : Owners(c)' = Owners(c)
      BY DEF Owners, H!Held
<1>6. \A c : c = Len(hclient) + 1 => Owners(c) = {}
  <2>1. \A g \in DOMAIN hholds : \A s \in Servers : hholds[g][s] # Len(hclient) + 1
        BY <1>0, <1>1 DEF HeldForServer
  <2> QED BY <2>1 DEF Owners, H!Held
<1>7. ASSUME NEW c \in DOMAIN hclient' PROVE Counted(c)'
  <2>1. CASE c \in DOMAIN hclient
        BY <1>0, <1>1, <1>2, <1>5, <2>1, CountRests
  <2>2. CASE c = Len(hclient) + 1
    <3>1. Owners(c)' = {} /\ hclient'[c] = k
          BY <1>2, <1>5, <1>6, <2>2
    <3>2. Cardinality(Owners(c)') = 0
          BY <3>1, FS_EmptySet
    <3>3. Starting(c)'
          BY <2>2 DEF Starting
    <3> QED BY <3>1, <3>2, <3>3 DEF Counted
  <2> QED BY <1>1, <1>3, <2>1, <2>2
<1> QED BY <1>1, <1>2, <1>3, <1>4, <1>7 DEF PoolInv

\* A generation is staged, with nothing in it.
LEMMA StagedPool ==
    ASSUME PoolInv, hholds' = Append(hholds, H!None), UNCHANGED <<hclient, hdeclared, horigin>>,
           \A c \in DOMAIN hclient : (Starting(c)' => Starting(c)) /\ (Starting(c) => Starting(c)')
    PROVE  /\ PoolInv' /\ Len(hholds') = Len(hholds) + 1 /\ DOMAIN hholds' = DOMAIN hholds \cup {Len(hholds) + 1}
           /\ Len(hholds) + 1 \notin DOMAIN hholds /\ \A s \in Servers : hholds'[Len(hholds) + 1][s] = 0
           /\ \A g \in DOMAIN hholds : hholds'[g] = hholds[g]
<1>0. PoolTypes /\ HeldForServer /\ \A c \in DOMAIN hclient : Counted(c)
      BY DEF PoolInv
<1>1. Len(hholds) \in Nat /\ DOMAIN hholds = 1 .. Len(hholds) /\ hholds \in Seq([Servers -> Nat]) /\ DOMAIN hclient = 1 .. Len(hclient)
      BY <1>0, PoolDomains DEF PoolTypes
<1>2. H!None \in [Servers -> Nat] /\ \A s \in Servers : H!None[s] = 0
      BY DEF H!None
<1>3. /\ hholds' \in Seq([Servers -> Nat]) /\ Len(hholds') = Len(hholds) + 1 /\ hholds'[Len(hholds) + 1] = H!None
      /\ \A g \in 1 .. Len(hholds) : hholds'[g] = hholds[g]
      BY <1>1, <1>2, AppendProperties
<1>4. DOMAIN hholds' = DOMAIN hholds \cup {Len(hholds) + 1} /\ Len(hholds) + 1 \notin DOMAIN hholds
  <2>1. DOMAIN hholds' = 1 .. Len(hholds) + 1
        BY <1>3, LenProperties
  <2> QED BY <1>1, <2>1
<1>5. PoolTypes' /\ HeldForServer'
      BY <1>0, <1>1, <1>2, <1>3, <1>4 DEF PoolTypes, HeldForServer
<1>6. ASSUME NEW c \in DOMAIN hclient PROVE Owners(c)' = Owners(c)
  <2>1. c # 0
        BY <1>1
  <2>2. Owners(c) = {g \in DOMAIN hholds : \E r \in Servers : hholds[g][r] = c}
        BY <1>0, <2>1, OwnersAre
  <2>3. Owners(c)' = {g \in DOMAIN hholds' : \E r \in Servers : hholds'[g][r] = c}
        BY <2>1 DEF Owners, H!Held
  <2> QED BY <1>1, <1>2, <1>3, <1>4, <2>1, <2>2, <2>3
<1>7. \A c \in DOMAIN hclient : Counted(c)'
      BY <1>0, <1>6, CountRests
<1> QED BY <1>1, <1>2, <1>3, <1>4, <1>5, <1>7 DEF PoolInv

-----------------------------------------------------------------------------
(* What the steps of a reload and those of the run leave alone *)

LEMMA ToolTypes ==
    ASSUME ToolsInv
    PROVE  /\ PoolTypes /\ htask \in Reload /\ \A c \in DOMAIN hclient : hclient[c] \in Connection
           /\ \A g \in DOMAIN hholds : hholds[g] \in [Servers -> Nat]
           /\ DOMAIN hclient = 1 .. Len(hclient) /\ Len(hclient) \in Nat /\ hclient \in [1 .. Len(hclient) -> Connection]
<1>1. PoolTypes /\ htask \in Reload
      BY DEF ToolsInv, PoolInv, StageInv
<1> QED BY ONLY <1>1, PoolDomains

\* The reload stays where it is.
LEMMA StageRests ==
    ASSUME StageInv, htask' = htask, Len(hholds') = Len(hholds), DOMAIN hholds' = DOMAIN hholds,
           htask.stage \in {"setup", "load", "start", "discover"} =>
               \A s \in Servers : hholds'[htask.gen][s] = hholds[htask.gen][s],
           htask.stage = "discover" => H!Mine \in Servers,
           DOMAIN hclient \subseteq DOMAIN hclient', \A c \in DOMAIN hclient : hclient'[c].server = hclient[c].server,
           hcurrent' = hcurrent, hactive' \in {hactive, hcurrent}, hshut' \subseteq hshut \cup {hactive, hcurrent}
    PROVE  StageInv'
<1>1. /\ htask' \in Reload /\ (htask'.stage = "none" => htask' = H!Idle)
      /\ htask'.stage # "none" => htask'.gen = Len(hholds') /\ htask'.gen \in DOMAIN hholds' /\ htask'.by # "none"
      /\ htask'.old \in {0} \cup DOMAIN hholds' /\ (htask'.stage # "retire" => htask'.old = 0)
      BY DEF StageInv, H!Idle
<1>2. /\ htask'.stage \in {"setup", "load", "start", "discover", "reject"} => hcurrent' # htask'.gen /\ hactive' # htask'.gen
      /\ htask'.stage \in {"setup", "load", "start", "discover"} => htask'.gen \notin hshut'
      /\ htask'.stage = "retire" => hcurrent' = htask'.gen
      BY DEF StageInv
<1>3. htask.todo \subseteq Servers
      BY DEF StageInv, Reload
<1>4. htask.stage \in {"start", "discover"} => H!Mine' = H!Mine /\ htask.client \in DOMAIN hclient'
      BY DEF StageInv, H!Mine
<1>5. htask'.stage = "setup" => \A s \in Servers : hholds'[htask'.gen][s] = 0
      BY DEF StageInv
<1>6. htask'.stage \in {"load", "start"} => \A s \in htask'.todo : hholds'[htask'.gen][s] = 0
      BY <1>3 DEF StageInv
<1>7. htask'.stage = "discover" => \A s \in htask'.todo : s # H!Mine' => hholds'[htask'.gen][s] = 0
      BY <1>3, <1>4 DEF StageInv
<1>8. htask'.stage = "start" => H!Mine' \in htask'.todo
      BY <1>4 DEF StageInv
<1>9. htask'.stage = "discover" => hholds'[htask'.gen][H!Mine'] = htask'.client
      BY <1>4 DEF StageInv
<1> QED BY <1>1, <1>2, <1>4, <1>5, <1>6, <1>7, <1>8, <1>9 DEF StageInv

\* Generations let go, and one that the run leaves is empty.
LEMMA PlaceRests ==
    ASSUME PlaceInv, htask' = htask, DOMAIN hholds' = DOMAIN hholds, hcurrent' = hcurrent,
           \A g \in DOMAIN hholds : \A s \in Servers : hholds'[g][s] \in {0, hholds[g][s]},
           \/ hactive' = hactive
           \/ hactive' = hcurrent /\ (hactive # hcurrent => \A s \in Servers : hholds'[hactive][s] = 0),
           hclosing' = "done" => \/ hclosing = "done"
                                 \/ \A g \in DOMAIN hholds : \A s \in Servers : hholds'[g][s] = 0
    PROVE  PlaceInv'
<1>1. ASSUME NEW g \in DOMAIN hholds, NEW s \in Servers, hholds'[g][s] # 0
      PROVE  g \in {hcurrent', hactive'} \/ (htask'.stage # "none" /\ g \in {htask'.gen, htask'.old})
  <2>1. hholds[g][s] # 0
        BY <1>1
  <2>2. g \in {hcurrent, hactive} \/ (htask.stage # "none" /\ g \in {htask.gen, htask.old})
        BY <1>1, <2>1 DEF PlaceInv
  <2> QED BY <1>1, <2>2
<1>2. hclosing' = "done" => \A g \in DOMAIN hholds : \A s \in Servers : hholds'[g][s] = 0
  <2>1. CASE hclosing = "done"
    <3>1. \A g \in DOMAIN hholds : \A s \in Servers : hholds[g][s] = 0
          BY <2>1 DEF PlaceInv
    <3> QED BY <3>1
  <2> QED BY <2>1
<1> QED BY <1>1, <1>2 DEF PlaceInv

\* The reload goes on, and changes at most what its generation holds.
LEMMA PlaceGoesOn ==
    ASSUME PlaceInv, RunInv, htask.stage # "none", htask'.stage # "none", htask'.gen = htask.gen, htask'.old = htask.old,
           UNCHANGED <<hcurrent, hactive, hclosing>>, DOMAIN hholds' = DOMAIN hholds,
           \A g \in DOMAIN hholds : g # htask.gen => \A s \in Servers : hholds'[g][s] = hholds[g][s]
    PROVE  PlaceInv'
<1>1. hclosing' # "done"
      BY DEF RunInv
<1>2. ASSUME NEW g \in DOMAIN hholds, NEW s \in Servers, hholds'[g][s] # 0
      PROVE  g \in {hcurrent', hactive'} \/ (htask'.stage # "none" /\ g \in {htask'.gen, htask'.old})
  <2>1. CASE g = htask.gen
        BY <2>1
  <2>2. CASE g # htask.gen
    <3>1. hholds[g][s] # 0
          BY <1>2, <2>2
    <3> QED BY <3>1 DEF PlaceInv
  <2> QED BY <2>1, <2>2
<1> QED BY <1>1, <1>2 DEF PlaceInv

LEMMA RunGoesOn ==
    ASSUME RunInv, htask.stage # "none", htask'.stage # "none", htask'.by = htask.by, DOMAIN hholds' = DOMAIN hholds,
           UNCHANGED <<hcurrent, hactive, hrun, hrunning, hwaiting, hclosing>>,
           \/ hshut' = hshut
           \/ hshut' = hshut \cup {htask.gen} /\ htask.gen \in DOMAIN hholds \ {hcurrent, hactive}
    PROVE  RunInv'
<1>1. /\ {hcurrent', hactive'} \subseteq DOMAIN hholds' /\ hshut' \subseteq DOMAIN hholds'
      /\ hrun' \in UsingTools \ {"round", "swap"} => hactive' \notin hshut'
      /\ hclosing' \in {"no", "stopping"} => hcurrent' \notin hshut'
      BY DEF RunInv
<1> QED BY <1>1 DEF RunInv

-----------------------------------------------------------------------------
(* The steps of a reload *)

LEMMA ReloadSetsUp == ASSUME ToolsInv, H!SetUp PROVE ToolsInv'
<1>0. PoolInv /\ StageInv /\ PlaceInv /\ RunInv /\ htask \in Reload
      BY ToolTypes DEF ToolsInv
<1>1. htask.stage = "setup" /\ UNCHANGED <<hclient, hholds, hdeclared, horigin, hshut, hcurrent, hactive, hrun, hrunning, hwaiting, hclosing>>
      BY DEF H!SetUp, H!world, H!pool, H!place
<1>2. /\ htask' \in Reload /\ htask'.stage = "load" /\ htask'.todo = hdeclared /\ htask'.gen = htask.gen /\ htask'.by = htask.by
      /\ htask'.old = htask.old
      BY <1>0 DEF H!SetUp, Reload, H!Stages, PoolInv, PoolTypes
<1>3. \A c : ~Starting(c) /\ ~Starting(c)'
      BY <1>1, <1>2 DEF Starting
<1>4. PoolInv'
      BY <1>0, <1>1, <1>3, PoolRests DEF PoolInv, PoolTypes
<1>5. hdeclared \subseteq Servers
      BY <1>0 DEF PoolInv, PoolTypes
<1>6. StageInv'
      BY <1>0, <1>1, <1>2, <1>5 DEF StageInv
<1>7. PlaceInv' /\ RunInv'
      BY <1>0, <1>1, <1>2, PlaceGoesOn, RunGoesOn
<1> QED BY <1>4, <1>6, <1>7 DEF ToolsInv

LEMMA ReloadSkips ==
    ASSUME ToolsInv, (\E s \in Servers : H!Skip(s)) \/ H!Discovered
    PROVE  ToolsInv'
<1>0. PoolInv /\ StageInv /\ PlaceInv /\ RunInv /\ htask \in Reload
      BY ToolTypes DEF ToolsInv
<1>1. /\ htask.stage \in {"load", "discover"}
      /\ UNCHANGED <<hclient, hholds, hdeclared, horigin, hshut, hcurrent, hactive, hrun, hrunning, hwaiting, hclosing>>
      BY DEF H!Skip, H!Discovered, H!world, H!pool, H!place
<1>2. /\ htask' \in Reload /\ htask'.stage = "load" /\ htask'.gen = htask.gen /\ htask'.by = htask.by /\ htask'.old = htask.old
      /\ htask'.todo \subseteq htask.todo /\ (htask.stage = "discover" => H!Mine \notin htask'.todo)
  <2>1. CASE \E s \in Servers : H!Skip(s)
    <3>1. PICK s \in Servers : htask.stage = "load" /\ htask' = [htask EXCEPT !.todo = htask.todo \ {s}]
          BY <2>1 DEF H!Skip
    <3> QED BY <1>0, <3>1 DEF Reload
  <2>2. CASE H!Discovered
    <3>1. htask' = [htask EXCEPT !.stage = "load", !.todo = htask.todo \ {H!Mine}, !.client = 0]
          BY <2>2 DEF H!Discovered
    <3> QED BY ONLY <1>0, <3>1 DEF Reload, H!Stages
  <2> QED BY <2>1, <2>2
<1>3. \A c : ~Starting(c) /\ ~Starting(c)'
      BY <1>1, <1>2 DEF Starting
<1>4. PoolInv'
      BY <1>0, <1>1, <1>3, PoolRests DEF PoolInv, PoolTypes
<1>5. \A s \in htask'.todo : hholds[htask.gen][s] = 0
      BY <1>0, <1>1, <1>2 DEF StageInv
<1>6. StageInv'
      BY <1>0, <1>1, <1>2, <1>5 DEF StageInv
<1>7. PlaceInv' /\ RunInv'
      BY <1>0, <1>1, <1>2, PlaceGoesOn, RunGoesOn
<1> QED BY <1>4, <1>6, <1>7 DEF ToolsInv

LEMMA ReloadShares == ASSUME ToolsInv, NEW s \in Servers, H!Keep(s) PROVE ToolsInv'
<1>0. PoolInv /\ StageInv /\ PlaceInv /\ RunInv /\ htask \in Reload
      BY ToolTypes DEF ToolsInv
<1>1. PICK h, k : h = htask.gen /\ k = hholds[hcurrent][s]
      OBVIOUS
<1>2. /\ htask.stage = "load" /\ s \in htask.todo /\ k # 0 /\ hclient[k].state = "up"
      /\ hclient' = [hclient EXCEPT ![k].refs = @ + 1] /\ hholds' = Put(hholds, h, s, k)
      /\ UNCHANGED <<hdeclared, horigin, hshut, hcurrent, hactive, hrun, hrunning, hwaiting, hclosing>>
      BY <1>1 DEF H!Keep, H!Keeps, H!Retain, Put, H!world, H!place
<1>3. h \in DOMAIN hholds /\ hholds[h][s] = 0 /\ hcurrent \in DOMAIN hholds
      BY <1>0, <1>1, <1>2 DEF StageInv, RunInv
<1>4. k \in DOMAIN hclient /\ hclient[k].server = s
      BY <1>0, <1>1, <1>2, <1>3 DEF PoolInv, HeldForServer
<1>5. hclient[k] \in Connection /\ hclient \in [1 .. Len(hclient) -> Connection] /\ DOMAIN hclient = 1 .. Len(hclient)
      BY <1>4, ToolTypes
<1>6. /\ hclient' \in [1 .. Len(hclient) -> Connection] /\ \A c \in DOMAIN hclient : c # k => hclient'[c] = hclient[c]
      /\ hclient'[k].server = s /\ hclient'[k].refs = hclient[k].refs + 1 /\ hclient'[k].state = "up"
      BY <1>2, <1>4, <1>5 DEF Connection
<1>7. /\ htask' \in Reload /\ htask'.gen = htask.gen /\ htask'.by = htask.by /\ htask'.old = htask.old
      /\ \/ htask'.stage = "load" /\ htask'.todo = htask.todo \ {s}
         \/ htask'.stage = "discover" /\ htask'.todo = htask.todo /\ htask'.client = k
  <2>1. \/ htask' = [htask EXCEPT !.todo = htask.todo \ {s}]
        \/ htask' = [htask EXCEPT !.stage = "discover", !.client = k]
        BY <1>1 DEF H!Keep
  <2>2. k \in Nat
        BY <1>4, <1>5
  <2> QED BY ONLY <1>0, <1>2, <2>1, <2>2 DEF Reload, H!Stages
<1>8. \A c : ~Starting(c) /\ ~Starting(c)'
      BY <1>2, <1>7 DEF Starting
<1>9. /\ PoolInv' /\ Len(hholds') = Len(hholds) /\ DOMAIN hholds' = DOMAIN hholds /\ DOMAIN hclient' = DOMAIN hclient
      /\ \A c \in DOMAIN hclient : hclient'[c].server = hclient[c].server
      /\ \A g \in DOMAIN hholds : \A r \in Servers : hholds'[g][r] = IF g = h /\ r = s THEN k ELSE hholds[g][r]
      BY <1>0, <1>2, <1>3, <1>4, <1>6, <1>8, OwnerAdded
<1>10. htask.todo \subseteq Servers /\ \A r \in htask.todo : hholds[h][r] = 0
      BY <1>0, <1>1, <1>2 DEF StageInv, Reload
<1>11. StageInv'
  <2>1. /\ htask'.gen = Len(hholds') /\ htask'.gen \in DOMAIN hholds' /\ htask'.by # "none" /\ htask'.old = 0
        /\ hcurrent' # htask'.gen /\ hactive' # htask'.gen /\ htask'.gen \notin hshut'
        BY <1>0, <1>2, <1>7, <1>9 DEF StageInv
  <2>2. CASE htask'.stage = "load" /\ htask'.todo = htask.todo \ {s}
    <3>1. \A r \in htask'.todo : hholds'[htask'.gen][r] = 0
          BY <1>1, <1>3, <1>7, <1>9, <1>10, <2>2
    <3> QED BY <1>7, <2>1, <2>2, <3>1 DEF StageInv
  <2>3. CASE htask'.stage = "discover" /\ htask'.todo = htask.todo /\ htask'.client = k
    <3>1. H!Mine' = s /\ hholds'[htask'.gen][s] = k /\ htask'.client \in DOMAIN hclient'
          BY <1>1, <1>3, <1>4, <1>6, <1>7, <1>9, <2>3 DEF H!Mine
    <3>2. \A r \in htask'.todo : r # s => hholds'[htask'.gen][r] = 0
          BY <1>1, <1>3, <1>7, <1>9, <1>10, <2>3
    <3> QED BY <1>7, <2>1, <2>3, <3>1, <3>2 DEF StageInv
  <2> QED BY <1>7, <2>2, <2>3
<1>12. PlaceInv' /\ RunInv'
      BY <1>0, <1>1, <1>2, <1>7, <1>9, PlaceGoesOn, RunGoesOn
<1> QED BY <1>9, <1>11, <1>12 DEF ToolsInv

LEMMA ReloadStarts == ASSUME ToolsInv, NEW s \in Servers, H!Start(s) PROVE ToolsInv'
<1>0. PoolInv /\ StageInv /\ PlaceInv /\ RunInv /\ htask \in Reload
      BY ToolTypes DEF ToolsInv
<1>1. PICK k : k = [server |-> s, origin |-> horigin[s], refs |-> 0, state |-> "starting"]
      OBVIOUS
<1>2. /\ htask.stage = "load" /\ s \in htask.todo /\ hclient' = Append(hclient, k)
      /\ UNCHANGED <<hholds, hdeclared, horigin, hshut, hcurrent, hactive, hrun, hrunning, hwaiting, hclosing>>
      BY <1>1 DEF H!Start, H!world, H!place
<1>3. k \in Connection /\ k.refs = 0 /\ k.state = "starting" /\ k.server = s
      BY <1>0, <1>1 DEF Connection, PoolInv, PoolTypes
<1>4. Len(hclient) \in Nat
      BY ToolTypes
<1>5. /\ htask' \in Reload /\ htask'.gen = htask.gen /\ htask'.by = htask.by /\ htask'.old = htask.old
      /\ htask'.stage = "start" /\ htask'.todo = htask.todo /\ htask'.client = Len(hclient) + 1
  <2>1. PICK n \in Nat : n = Len(hclient) + 1
        BY <1>4
  <2>2. htask' = [htask EXCEPT !.stage = "start", !.client = n]
        BY <2>1 DEF H!Start
  <2>3. /\ htask' \in Reload /\ htask'.gen = htask.gen /\ htask'.by = htask.by /\ htask'.old = htask.old
        /\ htask'.stage = "start" /\ htask'.todo = htask.todo /\ htask'.client = n
        BY ONLY <1>0, <2>2 DEF Reload, H!Stages
  <2> QED BY <2>1, <2>3
<1>6. DOMAIN hclient = 1 .. Len(hclient)
      BY ToolTypes
<1>7. \A c \in DOMAIN hclient : ~Starting(c) /\ ~Starting(c)'
      BY <1>2, <1>4, <1>5, <1>6 DEF Starting
<1>8. PoolInv' /\ Len(hclient) + 1 \in DOMAIN hclient' /\ hclient'[Len(hclient) + 1] = k
      BY <1>0, <1>2, <1>3, <1>5, <1>7, StartedPool
<1>9. H!Mine' = s
      BY <1>3, <1>5, <1>8 DEF H!Mine
<1>10. StageInv'
      BY <1>0, <1>2, <1>5, <1>8, <1>9 DEF StageInv
<1>11. PlaceInv' /\ RunInv'
      BY <1>0, <1>2, <1>5, PlaceGoesOn, RunGoesOn
<1> QED BY <1>8, <1>10, <1>11 DEF ToolsInv

\* The server of a staged connection.
LEMMA MineIs ==
    ASSUME ToolsInv, htask.stage \in {"start", "discover"}
    PROVE  htask.client \in DOMAIN hclient /\ hclient[htask.client] \in Connection
           /\ H!Mine = hclient[htask.client].server /\ H!Mine \in Servers
<1>1. htask.client \in DOMAIN hclient
      BY DEF ToolsInv, StageInv
<1>2. hclient[htask.client] \in Connection
      BY <1>1, ToolTypes
<1> QED BY <1>1, <1>2 DEF H!Mine, Connection

LEMMA ServerStarted == ASSUME ToolsInv, H!Started PROVE ToolsInv'
<1>0. PoolInv /\ StageInv /\ PlaceInv /\ RunInv /\ htask \in Reload
      BY ToolTypes DEF ToolsInv
<1>1. PICK h, k, s : h = htask.gen /\ k = htask.client /\ s = H!Mine
      OBVIOUS
<1>2. /\ htask.stage = "start" /\ hclient' = [hclient EXCEPT ![k].state = "up", ![k].refs = 1]
      /\ hholds' = Put(hholds, h, s, k)
      /\ UNCHANGED <<hdeclared, horigin, hshut, hcurrent, hactive, hrun, hrunning, hwaiting, hclosing>>
      BY <1>1 DEF H!Started, Put, H!world, H!place
<1>3. k \in DOMAIN hclient /\ hclient[k] \in Connection /\ s = hclient[k].server /\ s \in Servers
      BY <1>1, <1>2, MineIs
<1>4. h \in DOMAIN hholds /\ s \in htask.todo /\ hholds[h][s] = 0
      BY <1>0, <1>1, <1>2 DEF StageInv
<1>5. hclient[k].refs = 0
  <2>1. Counted(k) /\ Starting(k)
        BY <1>0, <1>1, <1>2, <1>3 DEF PoolInv, Starting
  <2>2. hclient[k].refs = Cardinality(Owners(k)) /\ Owners(k) = {}
        BY <2>1 DEF Counted
  <2> QED BY <2>2, FS_EmptySet
<1>6. hclient \in [1 .. Len(hclient) -> Connection] /\ DOMAIN hclient = 1 .. Len(hclient)
      BY ToolTypes
<1>7. /\ hclient' \in [1 .. Len(hclient) -> Connection] /\ \A c \in DOMAIN hclient : c # k => hclient'[c] = hclient[c]
      /\ hclient'[k].server = s /\ hclient'[k].refs = hclient[k].refs + 1 /\ hclient'[k].state = "up"
      BY <1>2, <1>3, <1>5, <1>6 DEF Connection
<1>8. /\ htask' \in Reload /\ htask'.gen = htask.gen /\ htask'.by = htask.by /\ htask'.old = htask.old
      /\ htask'.stage = "discover" /\ htask'.todo = htask.todo /\ htask'.client = k
      BY <1>0, <1>1 DEF H!Started, Reload, H!Stages
<1>9. \A c \in DOMAIN hclient : ~Starting(c)' /\ (Starting(c) => c = k)
      BY <1>1, <1>8 DEF Starting
<1>10. /\ PoolInv' /\ Len(hholds') = Len(hholds) /\ DOMAIN hholds' = DOMAIN hholds /\ DOMAIN hclient' = DOMAIN hclient
      /\ \A g \in DOMAIN hholds : \A r \in Servers : hholds'[g][r] = IF g = h /\ r = s THEN k ELSE hholds[g][r]
  <2>1. PoolInv /\ hholds' = Put(hholds, h, s, k) /\ UNCHANGED <<hdeclared, horigin>> /\ hclient[k].server = s
        BY <1>0, <1>2, <1>3
  <2> QED BY ONLY <1>3, <1>4, <1>7, <1>9, <2>1, OwnerAdded
<1>11. htask.todo \subseteq Servers /\ \A r \in htask.todo : hholds[h][r] = 0
      BY <1>0, <1>1, <1>2 DEF StageInv, Reload
<1>12. StageInv'
  <2>1. /\ htask'.gen = Len(hholds') /\ htask'.gen \in DOMAIN hholds' /\ htask'.by # "none" /\ htask'.old = 0
        /\ hcurrent' # htask'.gen /\ hactive' # htask'.gen /\ htask'.gen \notin hshut'
        BY <1>0, <1>2, <1>8, <1>10 DEF StageInv
  <2>2. H!Mine' = s /\ hholds'[htask'.gen][s] = k /\ htask'.client \in DOMAIN hclient'
        BY <1>1, <1>3, <1>4, <1>7, <1>8, <1>10 DEF H!Mine
  <2>3. \A r \in htask'.todo : r # s => hholds'[htask'.gen][r] = 0
        BY <1>1, <1>4, <1>8, <1>10, <1>11
  <2> QED BY <1>8, <2>1, <2>2, <2>3 DEF StageInv
<1>13. PlaceInv' /\ RunInv'
      BY <1>0, <1>1, <1>2, <1>8, <1>10, PlaceGoesOn, RunGoesOn
<1> QED BY <1>10, <1>12, <1>13 DEF ToolsInv

\* The reload goes on with the servers it has still to load.
LEMMA LoadGoesOn ==
    ASSUME ToolsInv, PoolInv', htask.stage \in {"start", "discover"}, H!Failure(H!Mine), DOMAIN hclient' = DOMAIN hclient,
           UNCHANGED <<hshut, hcurrent, hactive, hrun, hrunning, hwaiting, hclosing>>,
           Len(hholds') = Len(hholds), DOMAIN hholds' = DOMAIN hholds,
           \A g \in DOMAIN hholds : \A r \in Servers :
               hholds'[g][r] = IF htask.stage = "discover" /\ g = htask.gen /\ r = H!Mine THEN 0 ELSE hholds[g][r]
    PROVE  ToolsInv'
<1>0. StageInv /\ PlaceInv /\ RunInv /\ htask \in Reload
      BY ToolTypes DEF ToolsInv
<1>1. htask' = [htask EXCEPT !.stage = "load", !.todo = htask.todo \ {H!Mine}, !.client = 0]
      BY DEF H!Failure
<1>2. /\ htask' \in Reload /\ htask'.stage = "load" /\ htask'.gen = htask.gen /\ htask'.by = htask.by /\ htask'.old = htask.old
      /\ htask'.todo = htask.todo \ {H!Mine}
      BY ONLY <1>0, <1>1 DEF Reload, H!Stages
<1>3. htask.todo \subseteq Servers /\ htask.gen \in DOMAIN hholds
      /\ \A r \in htask.todo : r # H!Mine => hholds[htask.gen][r] = 0
      BY <1>0 DEF StageInv, Reload
<1>4. \A r \in htask'.todo : hholds'[htask'.gen][r] = 0
      BY <1>2, <1>3
<1>5. StageInv'
      BY <1>0, <1>2, <1>4 DEF StageInv
<1>6. PlaceInv' /\ RunInv'
      BY <1>0, <1>2, PlaceGoesOn, RunGoesOn
<1> QED BY <1>5, <1>6 DEF ToolsInv

LEMMA ServerStartFails == ASSUME ToolsInv, H!StartFails PROVE ToolsInv'
<1>0. PoolInv /\ htask \in Reload
      BY ToolTypes DEF ToolsInv
<1>1. PICK k : k = htask.client
      OBVIOUS
<1>2. /\ htask.stage = "start" /\ hclient' = [hclient EXCEPT ![k].state = "gone"] /\ H!Failure(H!Mine)
      /\ UNCHANGED <<hholds, hdeclared, horigin, hshut, hcurrent, hactive, hrun, hrunning, hwaiting, hclosing>>
      BY <1>1 DEF H!StartFails, H!world, H!place
<1>3. k \in DOMAIN hclient /\ hclient[k] \in Connection
      BY <1>1, <1>2, MineIs
<1>4. hclient[k].state = "starting"
      BY <1>0, <1>1, <1>2, <1>3 DEF PoolInv, Counted, Starting
<1>5. hclient \in [1 .. Len(hclient) -> Connection] /\ DOMAIN hclient = 1 .. Len(hclient)
      BY ToolTypes
<1>6. /\ hclient' \in [1 .. Len(hclient) -> Connection] /\ \A c \in DOMAIN hclient : c # k => hclient'[c] = hclient[c]
      /\ hclient'[k].server = hclient[k].server /\ hclient'[k].refs = hclient[k].refs /\ hclient'[k].state = "gone"
      BY <1>2, <1>3, <1>5 DEF Connection
<1>7. \A c : ~Starting(c)' /\ (Starting(c) => c = k)
      BY <1>0, <1>1, <1>2 DEF Starting, H!Failure, Reload
<1>8. PoolInv' /\ DOMAIN hclient' = DOMAIN hclient
      BY <1>0, <1>2, <1>4, <1>6, <1>7, StatesMove
<1> QED BY <1>2, <1>8, LoadGoesOn

LEMMA DiscoveryFails == ASSUME ToolsInv, H!DiscoverFails PROVE ToolsInv'
<1>0. PoolInv /\ StageInv /\ htask \in Reload
      BY ToolTypes DEF ToolsInv
<1>1. /\ htask.stage = "discover" /\ H!Remove(H!Mine) /\ H!Failure(H!Mine)
      /\ UNCHANGED <<hdeclared, horigin, hshut, hcurrent, hactive, hrun, hrunning, hwaiting, hclosing>>
      BY DEF H!DiscoverFails, H!world, H!place
<1>2. htask'.stage = "load"
      BY <1>0, <1>1 DEF H!Failure, Reload
<1>3. PoolInv' /\ DOMAIN hclient' = DOMAIN hclient
      BY <1>0, <1>1, <1>2, RemoveKeeps
<1>4. /\ Len(hholds') = Len(hholds) /\ DOMAIN hholds' = DOMAIN hholds
      /\ \A g \in DOMAIN hholds : \A r \in Servers :
             hholds'[g][r] = IF g = htask.gen /\ r = H!Mine THEN 0 ELSE hholds[g][r]
  <2>1. hholds' = Put(hholds, htask.gen, H!Mine, 0)
        BY <1>1 DEF H!Remove, Put
  <2>2. PoolTypes /\ htask.gen \in DOMAIN hholds /\ H!Mine \in Servers /\ 0 \in Nat
        BY <1>0, <1>1, MineIs DEF PoolInv, StageInv
  <2> QED BY ONLY <2>1, <2>2, OneCell
<1> QED BY <1>1, <1>3, <1>4, LoadGoesOn

\* The staged generation is given up: its close has begun.
LEMMA GivenUp ==
    ASSUME StageInv, htask.stage \in {"setup", "load", "start", "discover"}, htask' \in Reload, htask'.stage = "reject",
           htask'.gen = htask.gen, htask'.by = htask.by, htask'.old = htask.old,
           UNCHANGED <<hholds, hcurrent, hactive>>
    PROVE  StageInv' /\ htask.gen \in DOMAIN hholds \ {hcurrent, hactive}
BY DEF StageInv

LEMMA ReloadRejects == ASSUME ToolsInv, H!Reject PROVE ToolsInv'
<1>0. PoolInv /\ StageInv /\ PlaceInv /\ RunInv /\ htask \in Reload
      BY ToolTypes DEF ToolsInv
<1>1. /\ htask.stage \in {"setup", "load"} /\ hshut' = hshut \cup {htask.gen}
      /\ UNCHANGED <<hclient, hholds, hdeclared, horigin, hcurrent, hactive, hrun, hrunning, hwaiting, hclosing>>
      BY DEF H!Reject, H!world, H!place
<1>2. /\ htask' \in Reload /\ htask'.stage = "reject" /\ htask'.gen = htask.gen /\ htask'.by = htask.by /\ htask'.old = htask.old
  <2>1. htask' = [htask EXCEPT !.stage = "reject"]
        BY DEF H!Reject
  <2> QED BY ONLY <1>0, <2>1 DEF Reload, H!Stages
<1>3. \A c : ~Starting(c) /\ ~Starting(c)'
      BY <1>1, <1>2 DEF Starting
<1>4. PoolInv'
      BY <1>0, <1>1, <1>3, PoolRests DEF PoolInv, PoolTypes
<1>5. StageInv' /\ htask.gen \in DOMAIN hholds \ {hcurrent, hactive}
      BY <1>0, <1>1, <1>2, GivenUp
<1>6. PlaceInv' /\ RunInv'
      BY <1>0, <1>1, <1>2, <1>5, PlaceGoesOn, RunGoesOn
<1> QED BY <1>4, <1>5, <1>6 DEF ToolsInv

\* A reload is cancelled wherever it waits.
LEMMA CancelledKeeps ==
    ASSUME ToolsInv, htask.stage \notin {"none", "load"}, H!Cancelled,
           UNCHANGED <<hholds, hdeclared, horigin, hcurrent, hactive>>
    PROVE  /\ PoolInv' /\ StageInv' /\ htask'.stage # "none"
           /\ htask'.gen = htask.gen /\ htask'.by = htask.by /\ htask'.old = htask.old
           /\ \/ hshut' = hshut
              \/ hshut' = hshut \cup {htask.gen} /\ htask.gen \in DOMAIN hholds \ {hcurrent, hactive}
<1>0. PoolInv /\ StageInv /\ PlaceInv /\ RunInv /\ htask \in Reload
      BY ToolTypes DEF ToolsInv
<1>1. CASE htask.stage \in {"setup", "start", "discover"}
  <2>1. htask' = [htask EXCEPT !.stage = "reject", !.raised = TRUE] /\ hshut' = hshut \cup {htask.gen}
        BY <1>1 DEF H!Cancelled
  <2>2. htask' \in Reload /\ htask'.stage = "reject" /\ htask'.gen = htask.gen /\ htask'.by = htask.by /\ htask'.old = htask.old
        BY ONLY <1>0, <2>1 DEF Reload, H!Stages
  <2>3. StageInv' /\ htask.gen \in DOMAIN hholds \ {hcurrent, hactive}
        BY <1>0, <1>1, <2>2, GivenUp
  <2>4. /\ hclient \in [1 .. Len(hclient) -> Connection] /\ DOMAIN hclient = 1 .. Len(hclient)
        /\ \A c \in DOMAIN hclient : hclient[c] \in Connection
        BY ToolTypes
  <2>5. PICK k : k = IF htask.stage = "start" THEN htask.client ELSE 0
        OBVIOUS
  <2>6. hclient' = [c \in DOMAIN hclient |-> IF htask.stage = "start" /\ c = htask.client
                                               THEN [hclient[c] EXCEPT !.state = "gone"] ELSE hclient[c]]
        BY DEF H!Cancelled
  <2>7. ASSUME NEW c \in DOMAIN hclient
        PROVE  /\ hclient'[c] \in Connection /\ hclient'[c].server = hclient[c].server /\ hclient'[c].refs = hclient[c].refs
               /\ hclient'[c].state = IF Starting(c) THEN "gone" ELSE hclient[c].state
    <3>1. hclient'[c] = IF Starting(c) THEN [hclient[c] EXCEPT !.state = "gone"] ELSE hclient[c]
          BY <2>6 DEF Starting
    <3> QED BY <2>4, <3>1 DEF Connection
  <2>8. hclient' \in [1 .. Len(hclient) -> Connection]
        BY <2>4, <2>6, <2>7
  <2>9. \A c \in DOMAIN hclient :
            \/ hclient'[c].state = hclient[c].state /\ ~Starting(c) /\ ~Starting(c)'
            \/ hclient[c].state = "starting" /\ hclient'[c].state = "gone" /\ ~Starting(c)'
    <3>1. \A c : ~Starting(c)'
          BY <2>2 DEF Starting
    <3>2. \A c \in DOMAIN hclient : Starting(c) => hclient[c].state = "starting"
          BY <1>0 DEF PoolInv, Counted
    <3> QED BY <2>7, <3>1, <3>2
  <2>10. PoolInv'
        BY <1>0, <2>7, <2>8, <2>9, StatesMove
  <2> QED BY <2>1, <2>2, <2>3, <2>10
<1>2. CASE htask.stage \notin {"setup", "start", "discover"}
  <2>1. htask' = [htask EXCEPT !.raised = TRUE] /\ hshut' = hshut
        BY <1>2 DEF H!Cancelled
  <2>2. /\ htask' \in Reload /\ htask'.stage = htask.stage /\ htask'.gen = htask.gen /\ htask'.by = htask.by
        /\ htask'.old = htask.old
        BY ONLY <1>0, <2>1 DEF Reload, H!Stages
  <2>3. htask.stage \in {"reject", "retire"}
        BY <1>0, <1>2 DEF Reload, H!Stages
  <2>4. hclient' = hclient
    <3>1. hclient' = [c \in DOMAIN hclient |-> hclient[c]]
          BY <1>2 DEF H!Cancelled
    <3> QED BY <3>1, ToolTypes
  <2>5. \A c : ~Starting(c) /\ ~Starting(c)'
        BY <2>2, <2>3 DEF Starting
  <2>6. PoolInv'
        BY <1>0, <2>4, <2>5, PoolRests DEF PoolInv, PoolTypes
  <2>7. StageInv'
        BY <1>0, <2>1, <2>2, <2>3 DEF StageInv
  <2> QED BY <1>2, <2>1, <2>2, <2>6, <2>7
<1> QED BY <1>1, <1>2

LEMMA ReloadCancelled == ASSUME ToolsInv, H!Cancel PROVE ToolsInv'
<1>0. PlaceInv /\ RunInv
      BY DEF ToolsInv
<1>1. /\ htask.stage \notin {"none", "load"} /\ H!Cancelled
      /\ UNCHANGED <<hholds, hdeclared, horigin, hcurrent, hactive, hrun, hrunning, hwaiting, hclosing>>
      BY DEF H!Cancel, H!world, H!place
<1>2. /\ PoolInv' /\ StageInv' /\ htask'.stage # "none"
      /\ htask'.gen = htask.gen /\ htask'.by = htask.by /\ htask'.old = htask.old
      /\ \/ hshut' = hshut
         \/ hshut' = hshut \cup {htask.gen} /\ htask.gen \in DOMAIN hholds \ {hcurrent, hactive}
      BY <1>1, CancelledKeeps
<1>3. PlaceInv' /\ RunInv'
      BY <1>0, <1>1, <1>2, PlaceGoesOn, RunGoesOn
<1> QED BY <1>2, <1>3 DEF ToolsInv

LEMMA ReloadCommits == ASSUME ToolsInv, H!Commit PROVE ToolsInv'
<1>0. PoolInv /\ StageInv /\ PlaceInv /\ RunInv /\ htask \in Reload
      BY ToolTypes DEF ToolsInv
<1>1. /\ htask.stage = "load" /\ hcurrent' = htask.gen /\ hactive' = IF hrunning THEN hactive ELSE htask.gen
      /\ UNCHANGED <<hclient, hholds, hdeclared, horigin, hrun, hrunning, hwaiting, hclosing>>
      BY DEF H!Commit, H!world
<1>2. \/ /\ hcurrent # hactive' /\ hshut' = hshut \cup {hcurrent}
         /\ htask' = [htask EXCEPT !.stage = "retire", !.old = hcurrent]
      \/ hcurrent = hactive' /\ hshut' = hshut /\ htask' = [htask EXCEPT !.stage = "retire"]
      BY DEF H!Commit
<1>3. /\ hcurrent \in DOMAIN hholds /\ hactive \in DOMAIN hholds /\ hcurrent \in Nat
      /\ htask.gen \in DOMAIN hholds \ {hcurrent, hactive} /\ htask.gen \notin hshut /\ htask.old = 0
      /\ htask.gen = Len(hholds) /\ htask.by # "none"
  <2>1. DOMAIN hholds = 1 .. Len(hholds) /\ Len(hholds) \in Nat
        BY <1>0, PoolDomains DEF PoolInv
  <2> QED BY <1>0, <1>1, <2>1 DEF StageInv, RunInv
<1>4. /\ htask' \in Reload /\ htask'.stage = "retire" /\ htask'.gen = htask.gen /\ htask'.by = htask.by
      /\ htask'.old \in {0, hcurrent} /\ (hcurrent # hactive' => htask'.old = hcurrent)
  <2>1. 0 \in Nat /\ hcurrent \in Nat /\ htask.old = 0
        BY <1>3
  <2> QED BY ONLY <1>0, <1>2, <2>1 DEF Reload, H!Stages
<1>5. \A c : ~Starting(c) /\ ~Starting(c)'
      BY <1>1, <1>4 DEF Starting
<1>6. PoolInv'
      BY <1>0, <1>1, <1>5, PoolRests DEF PoolInv, PoolTypes
<1>7. StageInv'
      BY <1>1, <1>3, <1>4 DEF StageInv
<1>8. PlaceInv'
  <2>1. hclosing' # "done"
        BY <1>0, <1>1 DEF RunInv
  <2>2. ASSUME NEW g \in DOMAIN hholds, NEW s \in Servers, hholds[g][s] # 0
        PROVE  g \in {hcurrent', hactive'} \/ (htask'.stage # "none" /\ g \in {htask'.gen, htask'.old})
    <3>1. g \in {hcurrent, hactive, htask.gen}
          BY <1>0, <1>3, <2>2 DEF PlaceInv
    <3>2. hactive \in {hactive', hcurrent}
          BY <1>0, <1>1 DEF RunInv
    <3> QED BY <1>1, <1>4, <3>1, <3>2
  <2> QED BY <1>1, <2>1, <2>2 DEF PlaceInv
<1>9. RunInv'
  <2>1. /\ {hcurrent', hactive'} \subseteq DOMAIN hholds' /\ hshut' \subseteq DOMAIN hholds'
        /\ hclosing' \in {"no", "stopping"} => hcurrent' \notin hshut'
        BY <1>0, <1>1, <1>2, <1>3 DEF RunInv
  <2>2. hrun' \in UsingTools \ {"round", "swap"} => hactive' \notin hshut'
        BY <1>0, <1>1, <1>2 DEF RunInv
  <2>3. ~hrunning' => hactive' = hcurrent'
        BY <1>1
  <2> QED BY <1>0, <1>1, <1>4, <2>1, <2>2, <2>3 DEF RunInv
<1> QED BY <1>6, <1>7, <1>8, <1>9 DEF ToolsInv

\* The reload is over, and its caller goes on.
LEMMA ReloadReturns ==
    ASSUME ToolsInv, htask.stage \in {"reject", "retire"}, NEW gs,
           gs = IF htask.stage = "reject" THEN {htask.gen} ELSE {htask.old} \ {0},
           NEW raised \in BOOLEAN, H!Release(gs), H!ReloadEnds(raised),
           UNCHANGED <<hdeclared, horigin, hshut, hcurrent, hwaiting, hclosing>>
    PROVE  ToolsInv'
<1> USE DEF H!ReloadEnds
<1>0. PoolInv /\ StageInv /\ PlaceInv /\ RunInv /\ htask \in Reload
      BY ToolTypes DEF ToolsInv
<1>1. htask' = H!Idle /\ htask'.stage = "none" /\ htask'.by = "none" /\ htask'.old = 0
      BY DEF H!Return, H!Idle
<1>2. \A c : ~Starting(c) /\ ~Starting(c)'
      BY <1>1 DEF Starting
<1>3. gs \in SUBSET DOMAIN hholds
      BY <1>0 DEF StageInv
<1>4. /\ PoolInv' /\ Len(hholds') = Len(hholds) /\ DOMAIN hholds' = DOMAIN hholds
      /\ \A g \in DOMAIN hholds : \A s \in Servers : hholds'[g][s] = IF g \in gs THEN 0 ELSE hholds[g][s]
      BY <1>0, <1>2, <1>3, LetGoKeeps
<1>5. StageInv'
      BY <1>1 DEF StageInv, H!Idle, Reload, H!Stages
<1>6. hactive' \in {hactive, hcurrent} /\ (hactive' # hactive => hactive = hcurrent)
  <2>1. H!Enters(raised) => ~hrunning
        BY <1>0 DEF H!Enters, RunInv
  <2> QED BY <1>0, <2>1 DEF RunInv
<1>7. PlaceInv'
  <2>1. hclosing' # "done"
        BY <1>0 DEF RunInv
  <2>2. ASSUME NEW g \in DOMAIN hholds, NEW s \in Servers, hholds'[g][s] # 0
        PROVE  g \in {hcurrent', hactive'}
    <3>1. g \notin gs /\ hholds[g][s] # 0
          BY <1>4, <2>2
    <3>2. g \in {hcurrent, hactive, htask.gen, htask.old}
          BY <1>0, <3>1 DEF PlaceInv
    <3>3. g # 0
          BY <1>0, PoolDomains DEF PoolInv
    <3>4. g \in {hcurrent, hactive}
          BY <1>0, <3>1, <3>2, <3>3 DEF StageInv
    <3> QED BY <1>6, <3>4
  <2> QED BY <1>4, <2>1, <2>2 DEF PlaceInv
<1>8. /\ hrun' = IF htask.by # "run" THEN hrun
                 ELSE IF raised THEN "after"
                 ELSE CASE hrun = "before" -> "round" [] hrun = "after_model" -> "tools" [] hrun = "after_tools" -> "round"
      BY DEF H!Return
<1>9. CASE htask.by # "run"
  <2>1. hrun' = hrun /\ UNCHANGED <<hrunning, hactive>>
        BY <1>8, <1>9 DEF H!Enters
  <2> HIDE DEF H!Enters
  <2> QED BY <1>0, <1>1, <1>4, <1>5, <1>7, <2>1 DEF RunInv, ToolsInv
<1>10. CASE htask.by = "run"
  <2>1. /\ hrun \in Boundaries /\ hclosing \in {"no", "stopping"} /\ \A i \in DOMAIN hwaiting : hwaiting[i] # "run"
        BY <1>0, <1>10 DEF RunInv, Boundaries
  <2>2. CASE raised
    <3>1. hrun' = "after" /\ UNCHANGED <<hrunning, hactive>>
          BY <1>8, <1>10, <2>2 DEF H!Enters
    <3>2. RunInv'
          BY <1>0, <1>1, <1>4, <2>1, <3>1 DEF RunInv, H!RunStages, UsingTools, Boundaries
    <3> QED BY <1>4, <1>5, <1>7, <3>2 DEF ToolsInv
  <2>3. CASE ~raised /\ hrun = "before"
    <3>1. hrun' = "round" /\ hrunning' = TRUE /\ hactive' = hcurrent
          BY <1>8, <1>10, <2>3 DEF H!Enters
    <3>2. RunInv'
          BY <1>0, <1>1, <1>4, <2>1, <3>1 DEF RunInv, H!RunStages, UsingTools, Boundaries
    <3> QED BY <1>4, <1>5, <1>7, <3>2 DEF ToolsInv
  <2>4. CASE ~raised /\ hrun # "before"
    <3>1. hrun' \in {"round", "tools"} /\ UNCHANGED <<hrunning, hactive>>
          BY <1>8, <1>10, <2>1, <2>4 DEF H!Enters, Boundaries
    <3>2. hrun \in {"after_model", "after_tools"}
          BY <2>1, <2>4 DEF Boundaries
    <3>3. hrunning /\ hactive \notin hshut
          BY <1>0, <3>2 DEF RunInv, UsingTools
    <3>4. RunInv'
          BY <1>0, <1>1, <1>4, <2>1, <3>1, <3>3 DEF RunInv, H!RunStages, UsingTools, Boundaries
    <3> QED BY <1>4, <1>5, <1>7, <3>4 DEF ToolsInv
  <2> QED BY <2>2, <2>3, <2>4
<1> QED BY <1>9, <1>10

LEMMA ReloadIsOver == ASSUME ToolsInv, H!Rejected \/ H!Retired PROVE ToolsInv'
<1>1. PICK gs : gs = IF htask.stage = "reject" THEN {htask.gen} ELSE {htask.old} \ {0}
      OBVIOUS
<1>2. htask.raised \in BOOLEAN
      BY ToolTypes DEF Reload
<1>3. PICK raised \in BOOLEAN : H!ReloadEnds(raised)
      BY <1>2 DEF H!Rejected, H!Retired
<1>4. /\ htask.stage \in {"reject", "retire"} /\ H!Release(gs)
      /\ UNCHANGED <<hdeclared, horigin, hshut, hcurrent, hwaiting, hclosing>>
      BY <1>1 DEF H!Rejected, H!Retired, H!world
<1> QED BY <1>1, <1>3, <1>4, ReloadReturns

LEMMA ReloadBegins == ASSUME ToolsInv, H!BeginReload PROVE ToolsInv'
<1>0. PoolInv /\ StageInv /\ PlaceInv /\ RunInv /\ htask \in Reload
      BY ToolTypes DEF ToolsInv
<1>1. /\ hwaiting # <<>> /\ htask = H!Idle /\ hwaiting' = Tail(hwaiting) /\ htask.stage = "none" /\ htask.by = "none"
      /\ UNCHANGED <<hclient, hdeclared, horigin, hshut, hcurrent, hactive, hrunning, hclosing>>
      BY DEF H!BeginReload, H!world, H!place, H!Idle
<1>2. hwaiting \in Seq({"run", "retry"}) /\ DOMAIN hwaiting = 1 .. Len(hwaiting) /\ Len(hwaiting) \in Nat
      BY <1>0, LenProperties DEF RunInv
<1>3. /\ hwaiting' \in Seq({"run", "retry"}) /\ DOMAIN hwaiting' = 1 .. Len(hwaiting) - 1 /\ 1 \in DOMAIN hwaiting
      /\ Head(hwaiting) = hwaiting[1] /\ Head(hwaiting) \in {"run", "retry"}
      /\ \A i \in DOMAIN hwaiting' : hwaiting'[i] = hwaiting[i + 1] /\ i + 1 \in DOMAIN hwaiting
  <2>1. /\ Head(hwaiting) \in {"run", "retry"} /\ Tail(hwaiting) \in Seq({"run", "retry"}) /\ Len(Tail(hwaiting)) = Len(hwaiting) - 1
        /\ \A i \in 1 .. Len(Tail(hwaiting)) : Tail(hwaiting)[i] = hwaiting[i + 1]
        BY <1>1, <1>2, HeadTailProperties
  <2>2. Len(hwaiting) # 0
        BY <1>1, <1>2, EmptySeq
  <2>3. DOMAIN Tail(hwaiting) = 1 .. Len(hwaiting) - 1
        BY <2>1, LenProperties
  <2>4. Head(hwaiting) = hwaiting[1]
        BY <1>1, <1>2
  <2> QED BY <1>1, <1>2, <2>1, <2>2, <2>3, <2>4
<1>4. /\ \A i \in DOMAIN hwaiting' : hwaiting'[i] = "run" => hrun \in Boundaries /\ hwaiting[1] # "run"
      /\ \A i, j \in DOMAIN hwaiting' : hwaiting'[i] = "run" /\ hwaiting'[j] = "run" => i = j
      /\ hwaiting[1] = "run" => hrun \in Boundaries
  <2>1. \A i \in DOMAIN hwaiting' : hwaiting'[i] = "run" => hrun \in Boundaries
        BY <1>0, <1>3 DEF RunInv
  <2>2. \A i \in DOMAIN hwaiting' : hwaiting'[i] = "run" /\ hwaiting[1] = "run" => i + 1 = 1
        BY <1>0, <1>3 DEF RunInv
  <2>3. \A i, j \in DOMAIN hwaiting' : hwaiting'[i] = "run" /\ hwaiting'[j] = "run" => i + 1 = j + 1
        BY <1>0, <1>3 DEF RunInv
  <2>4. hwaiting[1] = "run" => hrun \in Boundaries
        BY <1>0, <1>3 DEF RunInv
  <2> QED BY <1>2, <1>3, <2>1, <2>2, <2>3, <2>4
<1>5. CASE hclosing \in {"draining", "releasing", "done"}
  <2>1. hholds' = hholds /\ htask' = htask /\ hrun' = IF hwaiting[1] = "run" THEN "after" ELSE hrun
        BY <1>3, <1>5 DEF H!BeginReload
  <2>2. hrun = "none" /\ hwaiting[1] # "run"
        BY <1>0, <1>4, <1>5 DEF RunInv, Boundaries
  <2>3. \A c : ~Starting(c) /\ ~Starting(c)'
        BY <1>1, <2>1 DEF Starting
  <2>4. PoolInv'
        BY <1>0, <1>1, <2>1, <2>3, PoolRests DEF PoolInv, PoolTypes
  <2>5. StageInv' /\ PlaceInv'
        BY <1>0, <1>1, <2>1 DEF StageInv, PlaceInv, H!Idle
  <2>6. RunInv'
        BY <1>0, <1>1, <1>3, <1>4, <2>1, <2>2 DEF RunInv
  <2> QED BY <2>4, <2>5, <2>6 DEF ToolsInv
<1>6. CASE hclosing \notin {"draining", "releasing", "done"}
  <2>1. /\ hholds' = Append(hholds, H!None) /\ hrun' = hrun
        /\ htask' = [H!Idle EXCEPT !.stage = "setup", !.by = hwaiting[1], !.gen = Len(hholds) + 1]
        BY <1>3, <1>6 DEF H!BeginReload
  <2>2. PICK n \in Nat : n = Len(hholds) + 1
        BY <1>0, PoolDomains DEF PoolInv
  <2>3. /\ htask' \in Reload /\ htask'.stage = "setup" /\ htask'.by = hwaiting[1] /\ htask'.gen = n /\ htask'.old = 0
    <3>1. htask' = [H!Idle EXCEPT !.stage = "setup", !.by = hwaiting[1], !.gen = n]
          BY <2>1, <2>2
    <3>2. hwaiting[1] \in {"run", "retry"}
          BY <1>3
    <3> QED BY ONLY <2>2, <3>1, <3>2 DEF Reload, H!Stages, H!Idle
  <2>4. \A c : ~Starting(c) /\ ~Starting(c)'
        BY <1>1, <2>3 DEF Starting
  <2>5. /\ PoolInv' /\ Len(hholds') = n /\ DOMAIN hholds' = DOMAIN hholds \cup {n} /\ n \notin DOMAIN hholds
        /\ (\A s \in Servers : hholds'[n][s] = 0) /\ \A g \in DOMAIN hholds : hholds'[g] = hholds[g]
        BY <1>0, <1>1, <2>1, <2>2, <2>4, StagedPool
  <2>6. StageInv'
        BY <1>0, <1>1, <1>3, <2>3, <2>5 DEF StageInv, RunInv
  <2>7. PlaceInv'
    <3>1. hclosing' # "done"
          BY <1>1, <1>6
    <3>2. \A g \in DOMAIN hholds' : (\E s \in Servers : hholds'[g][s] # 0) => g \in {hcurrent', hactive'}
          BY <1>0, <1>1, <2>5 DEF PlaceInv
    <3> QED BY <3>1, <3>2 DEF PlaceInv
  <2>8. RunInv'
        BY <1>0, <1>1, <1>3, <1>4, <1>6, <2>1, <2>3, <2>5 DEF RunInv
  <2> QED BY <2>5, <2>6, <2>7, <2>8 DEF ToolsInv
<1> QED BY <1>5, <1>6

-----------------------------------------------------------------------------
(* The steps of the run, and of those around it *)

\* Nothing is shared or let go, and only generations in use begin to close.
LEMMA NothingMoves ==
    ASSUME ToolsInv, UNCHANGED <<hclient, hholds, htask, hcurrent, hactive>>, hdeclared' \subseteq Servers,
           horigin' \in [Servers -> Nat], hshut' \subseteq hshut \cup {hactive, hcurrent}, hclosing' = "done" => hclosing = "done"
    PROVE  PoolInv' /\ StageInv' /\ PlaceInv'
<1>0. PoolInv /\ StageInv /\ PlaceInv
      BY DEF ToolsInv
<1>1. PoolInv'
  <2>1. \A c : (Starting(c)' => Starting(c)) /\ (Starting(c) => Starting(c)')
        BY DEF Starting
  <2> QED BY <1>0, <2>1, PoolRests
<1>2. StageInv'
  <2>1. htask.stage = "discover" => H!Mine \in Servers
        BY MineIs
  <2> QED BY <1>0, <2>1, StageRests
<1>3. PlaceInv'
      BY <1>0, PlaceRests
<1> QED BY <1>1, <1>2, <1>3

\* Generations in use are let go, and no other.
LEMMA UsedAreLetGo ==
    ASSUME ToolsInv, NEW gs \in SUBSET {hactive, hcurrent}, H!Release(gs),
           UNCHANGED <<htask, hdeclared, horigin, hshut, hcurrent>>,
           \/ hactive' = hactive
           \/ hactive' = hcurrent /\ (hactive \in gs \/ hactive = hcurrent),
           hclosing' = "done" => hclosing = "releasing" /\ {hactive, hcurrent} \subseteq gs
    PROVE  PoolInv' /\ StageInv' /\ PlaceInv' /\ DOMAIN hholds' = DOMAIN hholds
<1>0. PoolInv /\ StageInv /\ PlaceInv /\ RunInv
      BY DEF ToolsInv
<1>1. \A c : (Starting(c)' => Starting(c)) /\ (Starting(c) => Starting(c)')
      BY DEF Starting
<1>2. gs \in SUBSET DOMAIN hholds
      BY <1>0 DEF RunInv
<1>3. /\ PoolInv' /\ Len(hholds') = Len(hholds) /\ DOMAIN hholds' = DOMAIN hholds
      /\ DOMAIN hclient' = DOMAIN hclient /\ \A c \in DOMAIN hclient : hclient'[c].server = hclient[c].server
      /\ \A g \in DOMAIN hholds : \A s \in Servers : hholds'[g][s] = IF g \in gs THEN 0 ELSE hholds[g][s]
      BY <1>0, <1>1, <1>2, LetGoKeeps
<1>4. StageInv'
  <2>1. htask.stage = "discover" => H!Mine \in Servers
        BY MineIs
  <2>2. htask.stage \in {"setup", "load", "start", "discover"} => htask.gen \in DOMAIN hholds \ gs
        BY <1>0 DEF StageInv
  <2> QED BY <1>0, <1>3, <2>1, <2>2, StageRests
<1>5. hclosing' = "done" => \A g \in DOMAIN hholds : \A s \in Servers : hholds'[g][s] = 0
  <2> SUFFICES ASSUME hclosing' = "done", NEW g \in DOMAIN hholds, NEW s \in Servers, hholds[g][s] # 0 PROVE g \in gs
      BY <1>3
  <2>1. htask.stage = "none"
        BY <1>0 DEF RunInv
  <2> QED BY <1>0, <2>1 DEF PlaceInv
<1>6. PlaceInv'
  <2>1. hactive # hactive' => hactive' = hcurrent /\ (hactive # hcurrent => \A s \in Servers : hholds'[hactive][s] = 0)
        BY <1>2, <1>3
  <2>2. \A g \in DOMAIN hholds : \A s \in Servers : hholds'[g][s] \in {0, hholds[g][s]}
        BY <1>3
  <2> QED BY <1>0, <1>3, <1>5, <2>1, <2>2, PlaceRests
<1> QED BY <1>3, <1>4, <1>6

\* The run is in line from where it is, once more.
LEMMA Queues ==
    ASSUME RunInv, NEW w \in {"run", "retry"}, hwaiting' = Append(hwaiting, w)
    PROVE  /\ hwaiting' \in Seq({"run", "retry"})
           /\ \A i \in DOMAIN hwaiting' : hwaiting'[i] = w \/ (i \in DOMAIN hwaiting /\ hwaiting'[i] = hwaiting[i])
           /\ (\A i \in DOMAIN hwaiting : hwaiting[i] # "run") \/ w # "run" =>
                  \A i, j \in DOMAIN hwaiting' : hwaiting'[i] = "run" /\ hwaiting'[j] = "run" => i = j
<1>1. hwaiting \in Seq({"run", "retry"}) /\ DOMAIN hwaiting = 1 .. Len(hwaiting) /\ Len(hwaiting) \in Nat
      BY LenProperties DEF RunInv
<1>2. /\ hwaiting' \in Seq({"run", "retry"}) /\ Len(hwaiting') = Len(hwaiting) + 1 /\ hwaiting'[Len(hwaiting) + 1] = w
      /\ \A i \in 1 .. Len(hwaiting) : hwaiting'[i] = hwaiting[i]
      BY <1>1, AppendProperties
<1>3. DOMAIN hwaiting' = 1 .. Len(hwaiting) + 1
      BY <1>2, LenProperties
<1>4. \A i \in DOMAIN hwaiting' :
          (i \in DOMAIN hwaiting /\ hwaiting'[i] = hwaiting[i]) \/ (i = Len(hwaiting) + 1 /\ hwaiting'[i] = w)
      BY <1>1, <1>2, <1>3
<1>5. \A i, j \in DOMAIN hwaiting : hwaiting[i] = "run" /\ hwaiting[j] = "run" => i = j
      BY DEF RunInv
<1> QED BY <1>2, <1>4, <1>5

\* One place of the line is given up.
LEMMA GivesUpLine ==
    ASSUME RunInv, H!GivesUp
    PROVE  /\ hwaiting' \in Seq({"run", "retry"}) /\ \A i \in DOMAIN hwaiting' : hwaiting'[i] # "run"
           /\ hrun \in Boundaries /\ htask.by # "run" /\ hrun' = "after"
<1>1. hwaiting \in Seq({"run", "retry"}) /\ DOMAIN hwaiting = 1 .. Len(hwaiting) /\ Len(hwaiting) \in Nat
      BY LenProperties DEF RunInv
<1>2. PICK i \in DOMAIN hwaiting : hwaiting[i] = "run" /\ hwaiting' = SubSeq(hwaiting, 1, i - 1) \o SubSeq(hwaiting, i + 1, Len(hwaiting))
      BY DEF H!GivesUp
<1>3. \A j \in DOMAIN hwaiting : hwaiting[j] \in {"run", "retry"}
      BY <1>1, ElementOfSeq
<1> DEFINE before == SubSeq(hwaiting, 1, i - 1)
           rest == SubSeq(hwaiting, i + 1, Len(hwaiting))
<1>4. /\ before \in Seq({"run", "retry"}) /\ Len(before) = i - 1
      /\ \A j \in 1 .. i - 1 : before[j] = hwaiting[j]
  <2>1. \A j \in 1 .. i - 1 : hwaiting[j] \in {"run", "retry"}
        BY <1>1, <1>2, <1>3
  <2>2. 1 \in Int /\ i - 1 \in Int /\ i - 1 >= 0
        BY <1>1, <1>2
  <2>3. /\ before \in Seq({"run", "retry"}) /\ Len(before) = IF 1 <= i - 1 THEN i - 1 - 1 + 1 ELSE 0
        /\ \A j \in 1 .. i - 1 - 1 + 1 : before[j] = hwaiting[1 + j - 1]
        BY <2>1, <2>2, SubSeqProperties
  <2> QED BY <2>2, <2>3
<1>5. /\ rest \in Seq({"run", "retry"}) /\ Len(rest) = Len(hwaiting) - i
      /\ \A j \in 1 .. Len(hwaiting) - i : rest[j] = hwaiting[i + j]
  <2>1. \A j \in i + 1 .. Len(hwaiting) : hwaiting[j] \in {"run", "retry"}
        BY <1>1, <1>2, <1>3
  <2>2. i + 1 \in Int /\ Len(hwaiting) \in Int /\ i \in Int /\ i <= Len(hwaiting)
        BY <1>1, <1>2
  <2>3. /\ rest \in Seq({"run", "retry"})
        /\ Len(rest) = IF i + 1 <= Len(hwaiting) THEN Len(hwaiting) - (i + 1) + 1 ELSE 0
        /\ \A j \in 1 .. Len(hwaiting) - (i + 1) + 1 : rest[j] = hwaiting[i + 1 + j - 1]
        BY <2>1, <2>2, SubSeqProperties
  <2> QED BY <2>2, <2>3
<1> HIDE DEF before, rest
<1>6. /\ hwaiting' \in Seq({"run", "retry"}) /\ Len(hwaiting') = Len(before) + Len(rest)
      /\ \A j \in 1 .. Len(before) + Len(rest) :
             hwaiting'[j] = IF j <= Len(before) THEN before[j] ELSE rest[j - Len(before)]
  <2>1. hwaiting' = before \o rest
        BY <1>2 DEF before, rest
  <2> QED BY <1>4, <1>5, <2>1, ConcatProperties
<1>7. DOMAIN hwaiting' = 1 .. Len(before) + Len(rest)
      BY <1>6, LenProperties
<1>8. \A j \in DOMAIN hwaiting : j # i => hwaiting[j] # "run"
      BY <1>2 DEF RunInv
<1>9. ASSUME NEW j \in DOMAIN hwaiting' PROVE hwaiting'[j] # "run"
  <2>1. CASE j <= i - 1
    <3>1. j \in DOMAIN hwaiting /\ j # i /\ hwaiting'[j] = hwaiting[j]
          BY <1>1, <1>2, <1>4, <1>5, <1>6, <1>7, <1>9, <2>1
    <3> QED BY <1>8, <3>1
  <2>2. CASE ~(j <= i - 1)
    <3>1. j + 1 \in DOMAIN hwaiting /\ j + 1 # i /\ hwaiting'[j] = hwaiting[j + 1]
      <4>1. j \in Nat /\ i \in Nat /\ j >= i /\ j <= Len(hwaiting) - 1 /\ Len(before) = i - 1
            BY <1>1, <1>2, <1>4, <1>5, <1>7, <1>9, <2>2
      <4>2. j - Len(before) \in 1 .. Len(hwaiting) - i /\ i + (j - Len(before)) = j + 1 /\ ~(j <= Len(before))
            BY <1>1, <4>1
      <4>3. hwaiting'[j] = rest[j - Len(before)]
            BY <1>6, <1>7, <1>9, <4>2
      <4>4. rest[j - Len(before)] = hwaiting[i + (j - Len(before))]
            BY <1>5, <4>2
      <4> QED BY <1>1, <4>1, <4>2, <4>3, <4>4
    <3> QED BY <1>8, <3>1
  <2> QED BY <2>1, <2>2
<1> QED BY <1>2, <1>6, <1>9 DEF RunInv, H!GivesUp

\* Steps of the run that share nothing and let nothing go.
LEMMA RunSteps ==
    ASSUME ToolsInv, H!BeginRun \/ H!Boundary \/ H!Leave \/ H!LeaveLine \/ H!Round \/ H!After
    PROVE  ToolsInv'
<1>0. RunInv
      BY DEF ToolsInv
<1>1. /\ UNCHANGED <<hclient, hholds, htask, hcurrent, hactive, hrunning, hdeclared, horigin, hclosing>>
      /\ hshut' \subseteq hshut \cup {hactive}
      BY DEF H!BeginRun, H!Boundary, H!Leave, H!LeaveLine, H!Round, H!After, H!world, H!pool, H!place
<1>2. PoolInv' /\ StageInv' /\ PlaceInv'
  <2>1. hdeclared' \subseteq Servers /\ horigin' \in [Servers -> Nat]
        BY <1>1, ToolTypes DEF PoolTypes
  <2> QED BY <1>1, <2>1, NothingMoves
<1>3. CASE H!BeginRun
  <2>1. hrun = "none" /\ hclosing = "no" /\ hrun' = "before" /\ hwaiting' = Append(hwaiting, "run") /\ hshut' = hshut
        BY <1>3 DEF H!BeginRun, H!pool
  <2>2. htask.by # "run" /\ \A i \in DOMAIN hwaiting : hwaiting[i] # "run"
        BY <1>0, <2>1 DEF RunInv, Boundaries
  <2>3. /\ hwaiting' \in Seq({"run", "retry"})
        /\ \A i, j \in DOMAIN hwaiting' : hwaiting'[i] = "run" /\ hwaiting'[j] = "run" => i = j
        BY <1>0, <2>1, <2>2, Queues
  <2>4. RunInv'
        BY <1>0, <1>1, <2>1, <2>2, <2>3 DEF RunInv, Boundaries, UsingTools, H!RunStages
  <2> QED BY <1>2, <2>4 DEF ToolsInv
<1>4. CASE H!Boundary
  <2>1. /\ \/ hrun = "model" /\ hrun' = "after_model"
           \/ hrun = "tools" /\ hrun' = "after_tools"
        /\ hwaiting' = Append(hwaiting, "run") /\ hshut' = hshut
        BY <1>4 DEF H!Boundary, H!pool
  <2>2. htask.by # "run" /\ \A i \in DOMAIN hwaiting : hwaiting[i] # "run"
        BY <1>0, <2>1 DEF RunInv, Boundaries
  <2>3. /\ hwaiting' \in Seq({"run", "retry"})
        /\ \A i, j \in DOMAIN hwaiting' : hwaiting'[i] = "run" /\ hwaiting'[j] = "run" => i = j
        BY <1>0, <2>1, <2>2, Queues
  <2>4. hrunning /\ hactive \notin hshut /\ hclosing \in {"no", "stopping"}
        BY <1>0, <2>1 DEF RunInv, UsingTools
  <2>5. RunInv'
        BY <1>0, <1>1, <2>1, <2>2, <2>3, <2>4 DEF RunInv, Boundaries, UsingTools, H!RunStages
  <2> QED BY <1>2, <2>5 DEF ToolsInv
<1>5. CASE H!Leave
  <2>1. hrun \in {"round", "model", "tools"} /\ hrun' = "after" /\ hwaiting' = hwaiting /\ hshut' = hshut
        BY <1>5 DEF H!Leave, H!pool
  <2>2. RunInv'
        BY <1>0, <1>1, <2>1 DEF RunInv, Boundaries, UsingTools, H!RunStages
  <2> QED BY <1>2, <2>2 DEF ToolsInv
<1>6. CASE H!LeaveLine
  <2>1. H!GivesUp /\ hshut' = hshut
        BY <1>6 DEF H!LeaveLine, H!pool
  <2>2. /\ hwaiting' \in Seq({"run", "retry"}) /\ \A i \in DOMAIN hwaiting' : hwaiting'[i] # "run"
        /\ hrun \in Boundaries /\ htask.by # "run" /\ hrun' = "after"
        BY <1>0, <2>1, GivesUpLine
  <2>3. hclosing \in {"no", "stopping"}
        BY <1>0, <2>2 DEF RunInv, Boundaries
  <2>4. RunInv'
        BY <1>0, <1>1, <2>1, <2>2, <2>3 DEF RunInv, UsingTools, H!RunStages
  <2> QED BY <1>2, <2>4 DEF ToolsInv
<1>7. CASE H!Round
  <2>1. /\ hrun = "round" /\ hwaiting' = hwaiting
        /\ \/ hactive = hcurrent /\ hrun' = "model" /\ hshut' = hshut
           \/ hactive # hcurrent /\ hrun' = "swap" /\ hshut' = hshut \cup {hactive}
        BY <1>7 DEF H!Round
  <2>2. hrunning /\ hcurrent \notin hshut /\ hclosing \in {"no", "stopping"} /\ htask.by # "run"
        /\ \A i \in DOMAIN hwaiting : hwaiting[i] # "run"
        BY <1>0, <2>1 DEF RunInv, UsingTools, Boundaries
  <2>3. {hcurrent', hactive'} \subseteq DOMAIN hholds' /\ hshut' \subseteq DOMAIN hholds' /\ hcurrent' \notin hshut'
        BY <1>0, <1>1, <2>1, <2>2 DEF RunInv
  <2>4. RunInv'
        BY <1>0, <1>1, <2>1, <2>2, <2>3 DEF RunInv, Boundaries, UsingTools, H!RunStages
  <2> QED BY <1>2, <2>4 DEF ToolsInv
<1>8. CASE H!After
  <2>1. /\ hrun = "after" /\ hrun' = "ending" /\ hwaiting' = hwaiting
        /\ hshut' = IF hactive # hcurrent THEN hshut \cup {hactive} ELSE hshut
        BY <1>8 DEF H!After
  <2>2. hclosing \in {"no", "stopping"} /\ hcurrent \notin hshut /\ htask.by # "run"
        /\ \A i \in DOMAIN hwaiting : hwaiting[i] # "run"
        BY <1>0, <2>1 DEF RunInv, Boundaries
  <2>3. {hcurrent', hactive'} \subseteq DOMAIN hholds' /\ hshut' \subseteq DOMAIN hholds' /\ hcurrent' \notin hshut'
        BY <1>0, <1>1, <2>1, <2>2 DEF RunInv
  <2>4. RunInv'
        BY <1>0, <1>1, <2>1, <2>2, <2>3 DEF RunInv, UsingTools, H!RunStages
  <2> QED BY <1>2, <2>4 DEF ToolsInv
<1> QED BY <1>3, <1>4, <1>5, <1>6, <1>7, <1>8

\* The run leaves its generation, within a response or at its end.
LEMMA RunLetsGo == ASSUME ToolsInv, H!Swap \/ H!EndRun PROVE ToolsInv'
<1>0. RunInv
      BY DEF ToolsInv
<1>1. UNCHANGED <<htask, hcurrent, hdeclared, horigin, hclosing, hshut, hwaiting>>
      BY DEF H!Swap, H!EndRun, H!world
<1>2. CASE H!Swap
  <2>1. /\ hrun = "swap" /\ H!Release({hactive}) /\ hrunning' = hrunning
        /\ \/ hrun' = "model" /\ hactive' = hcurrent
           \/ hrun' = "after" /\ hactive' = hactive
        BY <1>2 DEF H!Swap
  <2>2. hclosing \in {"no", "stopping"} /\ hcurrent \notin hshut /\ htask.by # "run" /\ hrunning
        /\ \A i \in DOMAIN hwaiting : hwaiting[i] # "run"
        BY <1>0, <2>1 DEF RunInv, Boundaries, UsingTools
  <2>3. {hactive} \in SUBSET {hactive, hcurrent} /\ hclosing' # "done"
        BY <1>1, <2>2
  <2>4. PoolInv' /\ StageInv' /\ PlaceInv' /\ DOMAIN hholds' = DOMAIN hholds
        BY <1>1, <2>1, <2>3, UsedAreLetGo
  <2>5. RunInv'
        BY <1>0, <1>1, <2>1, <2>2, <2>4 DEF RunInv, UsingTools, H!RunStages
  <2> QED BY <2>4, <2>5 DEF ToolsInv
<1>3. CASE H!EndRun
  <2>1. hrun = "ending" /\ hrun' = "none" /\ H!Release({hactive} \ {hcurrent}) /\ hactive' = hcurrent /\ hrunning' = FALSE
        BY <1>3 DEF H!EndRun
  <2>2. hclosing \in {"no", "stopping"} /\ htask.by # "run" /\ \A i \in DOMAIN hwaiting : hwaiting[i] # "run"
        BY <1>0, <2>1 DEF RunInv, Boundaries
  <2>3. {hactive} \ {hcurrent} \in SUBSET {hactive, hcurrent} /\ hclosing' # "done"
        /\ (hactive \in {hactive} \ {hcurrent} \/ hactive = hcurrent)
        BY <1>1, <2>2
  <2>4. PoolInv' /\ StageInv' /\ PlaceInv' /\ DOMAIN hholds' = DOMAIN hholds
        BY <1>1, <2>1, <2>3, UsedAreLetGo
  <2>5. RunInv'
        BY <1>0, <1>1, <2>1, <2>2, <2>4 DEF RunInv, UsingTools, H!RunStages
  <2> QED BY <2>4, <2>5 DEF ToolsInv
<1> QED BY <1>2, <1>3

\* The operator, and the servers.
LEMMA WorldSteps == ASSUME ToolsInv, H!Edit \/ (\E s \in Servers : H!Retry(s)) PROVE ToolsInv'
<1>0. RunInv
      BY DEF ToolsInv
<1>1. /\ UNCHANGED <<hclient, hholds, htask, hcurrent, hactive, hrunning, hrun, hclosing, hshut>>
      BY DEF H!Edit, H!Retry, H!world, H!pool, H!place
<1>2. hdeclared \subseteq Servers /\ horigin \in [Servers -> Nat]
      BY ToolTypes DEF PoolTypes
<1>3. hdeclared' \subseteq Servers /\ horigin' \in [Servers -> Nat]
      BY <1>2 DEF H!Edit, H!Retry, H!world
<1>4. PoolInv' /\ StageInv' /\ PlaceInv'
      BY <1>1, <1>3, NothingMoves
<1>5. CASE hwaiting' = hwaiting
  <2>1. RunInv'
        BY <1>0, <1>1, <1>5 DEF RunInv
  <2> QED BY <1>4, <2>1 DEF ToolsInv
<1>6. CASE hwaiting' = Append(hwaiting, "retry")
  <2>1. /\ hwaiting' \in Seq({"run", "retry"})
        /\ \A i \in DOMAIN hwaiting' : hwaiting'[i] = "retry" \/ (i \in DOMAIN hwaiting /\ hwaiting'[i] = hwaiting[i])
        /\ \A i, j \in DOMAIN hwaiting' : hwaiting'[i] = "run" /\ hwaiting'[j] = "run" => i = j
        BY <1>0, <1>6, Queues
  <2>2. \A i \in DOMAIN hwaiting' : hwaiting'[i] = "run" => hrun' \in Boundaries /\ htask'.by # "run"
        BY <1>0, <1>1, <2>1 DEF RunInv
  <2>3. RunInv'
        BY <1>0, <1>1, <2>1, <2>2 DEF RunInv
  <2> QED BY <1>4, <2>3 DEF ToolsInv
<1> QED BY <1>5, <1>6 DEF H!Edit, H!Retry

LEMMA ServerDies == ASSUME ToolsInv, NEW c \in DOMAIN hclient, H!Dies(c) PROVE ToolsInv'
<1>0. PoolInv /\ StageInv /\ PlaceInv /\ RunInv
      BY DEF ToolsInv
<1>1. /\ hclient[c].state = "up" /\ hclient' = [hclient EXCEPT ![c].state = "down"]
      /\ UNCHANGED <<hholds, htask, hcurrent, hactive, hrunning, hrun, hclosing, hshut, hwaiting, hdeclared, horigin>>
      BY DEF H!Dies, H!world, H!place
<1>2. hclient[c] \in Connection /\ hclient \in [1 .. Len(hclient) -> Connection] /\ DOMAIN hclient = 1 .. Len(hclient)
      BY ToolTypes
<1>3. /\ hclient' \in [1 .. Len(hclient) -> Connection] /\ \A k \in DOMAIN hclient : k # c => hclient'[k] = hclient[k]
      /\ hclient'[c].server = hclient[c].server /\ hclient'[c].refs = hclient[c].refs /\ hclient'[c].state = "down"
      BY <1>1, <1>2 DEF Connection
<1>4. \A k : (Starting(k)' => Starting(k)) /\ (Starting(k) => Starting(k)')
      BY <1>1 DEF Starting
<1>5. PoolInv' /\ DOMAIN hclient' = DOMAIN hclient
      BY <1>0, <1>1, <1>3, <1>4, StatesMove
<1>6. StageInv'
  <2>1. htask.stage = "discover" => H!Mine \in Servers
        BY MineIs
  <2> QED BY <1>0, <1>1, <1>3, <1>5, <2>1, StageRests
<1>7. PlaceInv' /\ RunInv'
      BY <1>0, <1>1 DEF PlaceInv, RunInv
<1> QED BY <1>5, <1>6, <1>7 DEF ToolsInv

\* Close cancels the run, wherever it is.
LEMMA HarnessCloses == ASSUME ToolsInv, H!Close PROVE ToolsInv'
<1>0. PlaceInv /\ RunInv
      BY DEF ToolsInv
<1>1. /\ hclosing = "no" /\ hclosing' = "stopping"
      /\ UNCHANGED <<hholds, hcurrent, hactive, hrunning, hdeclared, horigin>>
      BY DEF H!Close, H!world, H!place
<1>2. hdeclared' \subseteq Servers /\ horigin' \in [Servers -> Nat]
      BY <1>1, ToolTypes DEF PoolTypes
<1>3. CASE H!InLine
  <2>1. H!GivesUp /\ UNCHANGED <<hclient, hshut, htask>>
        BY <1>3 DEF H!Close
  <2>2. /\ hwaiting' \in Seq({"run", "retry"}) /\ \A i \in DOMAIN hwaiting' : hwaiting'[i] # "run"
        /\ hrun \in Boundaries /\ htask.by # "run" /\ hrun' = "after"
        BY <1>0, <2>1, GivesUpLine
  <2>3. PoolInv' /\ StageInv' /\ PlaceInv'
        BY <1>1, <1>2, <2>1, NothingMoves
  <2>4. RunInv'
        BY <1>0, <1>1, <2>1, <2>2 DEF RunInv, UsingTools, H!RunStages
  <2> QED BY <2>3, <2>4 DEF ToolsInv
<1>4. CASE ~H!InLine
  <2>1. /\ hwaiting' = hwaiting /\ hrun' = IF hrun \in {"round", "model", "tools"} THEN "after" ELSE hrun
        /\ IF htask.by = "run" /\ htask.stage # "load" THEN H!Cancelled ELSE UNCHANGED <<hclient, hshut, htask>>
        BY <1>4 DEF H!Close
  <2>2. hrun' = hrun \/ (hrun' = "after" /\ hrun \in UsingTools /\ hrun \notin Boundaries)
        BY <2>1 DEF UsingTools, Boundaries
  <2>3. ASSUME htask'.by = htask.by,
               hshut' = hshut \/ (hshut' = hshut \cup {htask.gen} /\ htask.gen \in DOMAIN hholds \ {hcurrent, hactive})
        PROVE  RunInv'
    <3>1. {hcurrent', hactive'} \subseteq DOMAIN hholds' /\ hshut' \subseteq DOMAIN hholds' /\ hcurrent' \notin hshut'
          /\ (hactive' \in hshut' => hactive \in hshut)
          BY <1>0, <1>1, <2>3 DEF RunInv
    <3>2. /\ hrun' \in H!RunStages /\ (hrun' \in {"none", "before"} => ~hrunning') /\ (hrun' \in UsingTools => hrunning')
          /\ (hrun' \in UsingTools \ {"round", "swap"} => hactive' \notin hshut')
          BY <1>0, <1>1, <2>2, <3>1 DEF RunInv, UsingTools, H!RunStages
    <3>3. /\ \A i \in DOMAIN hwaiting' : hwaiting'[i] = "run" => hrun' \in Boundaries /\ htask'.by # "run"
          /\ htask'.by = "run" => hrun' \in Boundaries
          BY <1>0, <2>1, <2>2, <2>3 DEF RunInv
    <3> QED BY <1>0, <1>1, <2>1, <3>1, <3>2, <3>3 DEF RunInv
  <2>4. CASE htask.by = "run" /\ htask.stage # "load"
    <3>1. H!Cancelled /\ htask.stage \notin {"none", "load"}
      <4>1. htask.stage = "none" => htask.by = "none"
            BY DEF ToolsInv, StageInv, H!Idle
      <4> QED BY <2>1, <2>4, <4>1
    <3>2. /\ PoolInv' /\ StageInv' /\ htask'.stage # "none"
          /\ htask'.gen = htask.gen /\ htask'.by = htask.by /\ htask'.old = htask.old
          /\ \/ hshut' = hshut
             \/ hshut' = hshut \cup {htask.gen} /\ htask.gen \in DOMAIN hholds \ {hcurrent, hactive}
          BY <1>1, <3>1, CancelledKeeps
    <3>3. RunInv'
          BY <2>3, <3>2
    <3>4. PlaceInv'
      <4>1. \A g \in DOMAIN hholds : (\E s \in Servers : hholds[g][s] # 0) =>
                g \in {hcurrent, hactive} \/ g \in {htask.gen, htask.old}
            BY <1>0 DEF PlaceInv
      <4> QED BY <1>1, <3>2, <4>1 DEF PlaceInv
    <3> QED BY <3>2, <3>3, <3>4 DEF ToolsInv
  <2>5. CASE ~(htask.by = "run" /\ htask.stage # "load")
    <3>1. UNCHANGED <<hclient, hshut, htask>>
          BY <2>1, <2>5
    <3>2. PoolInv' /\ StageInv' /\ PlaceInv'
          BY <1>1, <1>2, <3>1, NothingMoves
    <3>3. RunInv'
          BY <2>3, <3>1
    <3> QED BY <3>2, <3>3 DEF ToolsInv
  <2> QED BY <2>4, <2>5
<1> QED BY <1>3, <1>4

LEMMA HarnessDrains == ASSUME ToolsInv, H!BeginDrain PROVE ToolsInv'
<1>0. StageInv /\ PlaceInv /\ RunInv
      BY DEF ToolsInv
<1>1. /\ hclosing = "stopping" /\ hrun = "none" /\ htask.stage # "load" /\ hclosing' = "draining"
      /\ IF htask # H!Idle THEN H!Cancelled ELSE UNCHANGED <<hclient, hshut, htask>>
      /\ UNCHANGED <<hholds, hcurrent, hactive, hrunning, hdeclared, horigin, hrun, hwaiting>>
      BY DEF H!BeginDrain, H!world, H!place
<1>2. hdeclared' \subseteq Servers /\ horigin' \in [Servers -> Nat]
      BY <1>1, ToolTypes DEF PoolTypes
<1>3. ASSUME htask'.by = htask.by, hshut' \subseteq DOMAIN hholds
      PROVE  RunInv'
      BY <1>0, <1>1, <1>3 DEF RunInv, UsingTools
<1>4. CASE htask = H!Idle
  <2>1. UNCHANGED <<hclient, hshut, htask>>
        BY <1>1, <1>4
  <2>2. PoolInv' /\ StageInv' /\ PlaceInv'
        BY <1>1, <1>2, <2>1, NothingMoves
  <2>3. RunInv'
        BY <1>0, <1>3, <2>1 DEF RunInv
  <2> QED BY <2>2, <2>3 DEF ToolsInv
<1>5. CASE htask # H!Idle
  <2>1. H!Cancelled /\ htask.stage \notin {"none", "load"}
        BY <1>0, <1>1, <1>5 DEF StageInv
  <2>2. /\ PoolInv' /\ StageInv' /\ htask'.stage # "none"
        /\ htask'.gen = htask.gen /\ htask'.by = htask.by /\ htask'.old = htask.old
        /\ \/ hshut' = hshut
           \/ hshut' = hshut \cup {htask.gen} /\ htask.gen \in DOMAIN hholds \ {hcurrent, hactive}
        BY <1>1, <2>1, CancelledKeeps
  <2>3. RunInv'
        BY <1>0, <1>3, <2>2 DEF RunInv
  <2>4. PlaceInv'
    <3>1. \A g \in DOMAIN hholds : (\E s \in Servers : hholds[g][s] # 0) =>
              g \in {hcurrent, hactive} \/ g \in {htask.gen, htask.old}
          BY <1>0 DEF PlaceInv
    <3> QED BY <1>1, <2>2, <3>1 DEF PlaceInv
  <2> QED BY <2>2, <2>3, <2>4 DEF ToolsInv
<1> QED BY <1>4, <1>5

LEMMA HarnessIsClosed == ASSUME ToolsInv, H!Drained \/ H!Closed PROVE ToolsInv'
<1>0. RunInv
      BY DEF ToolsInv
<1>1. UNCHANGED <<hdeclared, horigin, hcurrent, hactive, hrunning, hrun, htask, hwaiting>>
      BY DEF H!Drained, H!Closed, H!world, H!place
<1>2. hdeclared' \subseteq Servers /\ horigin' \in [Servers -> Nat]
      BY <1>1, ToolTypes DEF PoolTypes
<1>3. CASE H!Drained
  <2>1. /\ hclosing = "draining" /\ htask = H!Idle /\ hclosing' = "releasing" /\ hshut' = hshut \cup {hactive, hcurrent}
        /\ UNCHANGED <<hclient, hholds>>
        BY <1>3 DEF H!Drained
  <2>2. PoolInv' /\ StageInv' /\ PlaceInv'
        BY <1>1, <1>2, <2>1, NothingMoves
  <2>3. hrun = "none" /\ htask.stage = "none"
        BY <1>0, <2>1 DEF RunInv, H!Idle
  <2>4. RunInv'
        BY <1>0, <1>1, <2>1, <2>3 DEF RunInv, UsingTools
  <2> QED BY <2>2, <2>4 DEF ToolsInv
<1>4. CASE H!Closed
  <2>1. hclosing = "releasing" /\ hclosing' = "done" /\ H!Release({hactive, hcurrent}) /\ hshut' = hshut
        BY <1>4 DEF H!Closed
  <2>2. {hactive, hcurrent} \in SUBSET {hactive, hcurrent}
        OBVIOUS
  <2>3. PoolInv' /\ StageInv' /\ PlaceInv' /\ DOMAIN hholds' = DOMAIN hholds
        BY <1>1, <2>1, <2>2, UsedAreLetGo
  <2>4. RunInv'
        BY <1>0, <1>1, <2>1, <2>3 DEF RunInv
  <2> QED BY <2>3, <2>4 DEF ToolsInv
<1> QED BY <1>3, <1>4

LEMMA ToolsNext == ASSUME ToolsInv, H!Next PROVE ToolsInv'
<1>1. CASE H!BeginReload \/ H!SetUp \/ H!Started \/ H!StartFails \/ H!Discovered \/ H!DiscoverFails
      BY <1>1, ReloadBegins, ReloadSetsUp, ServerStarted, ServerStartFails, ReloadSkips, DiscoveryFails
<1>2. CASE \E s \in Servers : H!Skip(s) \/ H!Keep(s) \/ H!Start(s) \/ H!Retry(s)
      BY <1>2, ReloadSkips, ReloadShares, ReloadStarts, WorldSteps
<1>3. CASE H!Reject \/ H!Cancel \/ H!Rejected \/ H!Commit \/ H!Retired
      BY <1>3, ReloadRejects, ReloadCancelled, ReloadIsOver, ReloadCommits
<1>4. CASE H!BeginRun \/ H!Round \/ H!Swap \/ H!Boundary \/ H!Leave \/ H!LeaveLine \/ H!After \/ H!EndRun
      BY <1>4, RunSteps, RunLetsGo
<1>5. CASE H!Edit \/ (\E c \in DOMAIN hclient : H!Dies(c))
      BY <1>5, WorldSteps, ServerDies
<1>6. CASE H!Close \/ H!BeginDrain \/ H!Drained \/ H!Closed
      BY <1>6, HarnessCloses, HarnessDrains, HarnessIsClosed
<1> QED BY <1>1, <1>2, <1>3, <1>4, <1>5, <1>6 DEF H!Next

LEMMA ToolsRest == ASSUME ToolsInv, UNCHANGED H!vars PROVE ToolsInv'
<1>1. UNCHANGED <<hdeclared, horigin, hclient, hholds, hshut, hcurrent, hactive, hrunning, htask, hwaiting, hrun, hclosing>>
      BY DEF H!vars
<1>2. hdeclared' \subseteq Servers /\ horigin' \in [Servers -> Nat]
      BY <1>1, ToolTypes DEF PoolTypes
<1>3. PoolInv' /\ StageInv' /\ PlaceInv'
      BY <1>1, <1>2, NothingMoves
<1>4. RunInv'
      BY <1>1 DEF ToolsInv, RunInv
<1> QED BY <1>3, <1>4 DEF ToolsInv

LEMMA ToolsStart == ASSUME H!Init PROVE ToolsInv
<1>1. hclient = <<>> /\ hholds = <<H!None>> /\ hshut = {} /\ hcurrent = 1 /\ hactive = 1 /\ hrunning = FALSE
      /\ htask = H!Idle /\ hwaiting = <<>> /\ hrun = "none" /\ hclosing = "no"
      BY DEF H!Init
<1>2. H!None \in [Servers -> Nat] /\ \A s \in Servers : H!None[s] = 0
      BY DEF H!None
<1>3. hholds \in Seq([Servers -> Nat]) /\ DOMAIN hholds = {1} /\ hholds[1] = H!None
      BY <1>1, <1>2
<1>4. hclient \in Seq(Connection) /\ DOMAIN hclient = {} /\ hwaiting \in Seq({"run", "retry"}) /\ DOMAIN hwaiting = {}
      BY <1>1
<1>5. PoolInv
  <2>1. hdeclared \subseteq Servers /\ horigin \in [Servers -> Nat]
        BY DEF H!Init
  <2> QED BY <1>2, <1>3, <1>4, <2>1 DEF PoolInv, PoolTypes, HeldForServer
<1>6. StageInv
      BY <1>1 DEF StageInv, H!Idle, Reload, H!Stages
<1>7. PlaceInv
      BY <1>1, <1>2, <1>3 DEF PlaceInv
<1>8. RunInv
      BY <1>1, <1>3, <1>4 DEF RunInv, H!Idle, H!RunStages, UsingTools, Boundaries
<1> QED BY <1>5, <1>6, <1>7, <1>8 DEF ToolsInv

LEMMA Kept == ToolsInv => ConnectionsAreKept
<1> SUFFICES ASSUME ToolsInv PROVE ConnectionsAreKept
    OBVIOUS
<1>0. PoolInv /\ StageInv /\ PlaceInv /\ RunInv
      BY DEF ToolsInv
<1>1. ASSUME NEW g \in DOMAIN hholds, NEW c \in H!Held(g)
      PROVE  c \in DOMAIN hclient /\ g \in Owners(c) /\ hclient[c].state # "gone"
  <2>1. c \in DOMAIN hclient /\ g \in Owners(c)
        BY <1>0, <1>1 DEF H!Held, PoolInv, HeldForServer, Owners
  <2> QED BY <1>0, <2>1 DEF PoolInv, Counted
<1>2. H!HandlesStayOpen
      BY <1>0, <1>1 DEF H!HandlesStayOpen, RunInv, UsingTools
<1>3. H!ProcessesAreOwned
  <2> SUFFICES ASSUME NEW c \in DOMAIN hclient, hclient[c].state # "gone"
               PROVE  /\ hclosing # "done"
                      /\ (\E g \in DOMAIN hholds : c \in H!Held(g)) \/ (htask.stage = "start" /\ htask.client = c)
                      /\ (htask = H!Idle /\ hrun = "none" /\ hclosing = "no") => c \in H!Held(hcurrent)
      BY DEF H!ProcessesAreOwned
  <2>1. hclient[c].state \in {"starting", "up", "down"} /\ c # 0
        BY ToolTypes DEF Connection
  <2>2. CASE hclient[c].state = "starting"
    <3>1. htask.stage = "start" /\ htask.client = c
          BY <1>0, <2>2 DEF PoolInv, Counted, Starting
    <3> QED BY <1>0, <3>1 DEF RunInv, H!Idle
  <2>3. CASE hclient[c].state # "starting"
    <3>1. PICK g \in DOMAIN hholds : c \in H!Held(g)
          BY <1>0, <2>1, <2>3 DEF PoolInv, Counted, Owners
    <3>2. PICK s \in Servers : hholds[g][s] = c
          BY <3>1 DEF H!Held
    <3>3. g \in {hcurrent, hactive} \/ (htask.stage # "none" /\ g \in {htask.gen, htask.old})
          BY <1>0, <2>1, <3>2 DEF PlaceInv
    <3>4. hclosing # "done"
          BY <1>0, <2>1, <3>2 DEF PlaceInv
    <3>5. ASSUME htask = H!Idle, hrun = "none" PROVE g = hcurrent
          BY <1>0, <3>3, <3>5 DEF RunInv, H!Idle
    <3> QED BY <3>1, <3>4, <3>5
  <2> QED BY <2>2, <2>3
<1> QED BY <1>2, <1>3 DEF ConnectionsAreKept, H!ConnectionsAreKept

\* A response reaches the tools it was shown and no server process is lost, for
\* any servers and numbers of generations and faults: every reload, failure,
\* cancellation, death and close included.
THEOREM ConnectionsStayKept == H!Spec => []ConnectionsAreKept
<1>1. H!Init => ToolsInv
      BY ToolsStart
<1>2. ToolsInv /\ [H!Next]_(H!vars) => ToolsInv'
      BY ToolsNext, ToolsRest
<1> QED BY <1>1, <1>2, Kept, PTL DEF H!Spec

LEMMA ToolsAmongServices == ServicesSpec => H!Spec
<1>1. ServicesInit => H!Init
      BY DEF ServicesInit
<1>2. [ServicesNext]_<<which, vars, server, receipts, trash, timers, approvals, voice, tools, calls>>
          => [H!Next]_(H!vars)
      BY DEF ServicesNext, tools, H!vars
<1> QED BY <1>1, <1>2, PTL DEF ServicesSpec, H!Spec

\* And they are in the composition that the runs check.
THEOREM ConnectionsStayKeptAmongServices == ServicesSpec => []ConnectionsAreKept
BY ToolsAmongServices, ConnectionsStayKept, PTL

-----------------------------------------------------------------------------
(***************************************************************************)
(* The voice calls: CallsEndHonestly.  Calls come one after the other      *)
(* (CallsInLine); a call says that it is closing once it was stopped or its *)
(* task hangs up (ClosesOnce); and whoever ends it without a failure knows  *)
(* that the provider has nothing open (NothingOpen).                       *)
(***************************************************************************)

CallStates == {"none", "connecting", "connected", "closing", "closed", "error"}
HangingUp == {"asked", "hangup", "unconfirmed", "join"}

LineTypes ==
    /\ klane \in K!Calls \cup {0} /\ kstatus \in [K!Calls -> CallStates]
    /\ ksession \in [K!Calls -> {"none", "open", "over"}]
    /\ kpc \in K!Steps /\ kobserver \in {"none", "running", "done"}
    /\ kstop \in BOOLEAN /\ kfailed \in BOOLEAN /\ kknown \in BOOLEAN
    /\ kattached \in BOOLEAN /\ kfinalized \in BOOLEAN

CallsInLine ==
    /\ (kpc = "none" => klane = 0) /\ (klane = 0 => kpc = "none" /\ ~kstop /\ ~kfailed /\ kobserver # "running")
    /\ \A c \in K!Calls :
          /\ c = klane => kstatus[c] \in {"connecting", "connected", "closing"}
          /\ c # klane => kstatus[c] \in {"none", "closed", "error"}
          /\ kstatus[c] = "none" => ksession[c] = "none"
          /\ \A d \in K!Calls : c < d /\ kstatus[d] # "none" => kstatus[c] \in {"closed", "error"}

ClosesOnce ==
    /\ kstop => kstatus[klane] = "closing"
    /\ klane # 0 /\ kstatus[klane] = "closing" => kstop \/ kpc \in HangingUp
    /\ kpc \in HangingUp => kstatus[klane] = "closing"

\* An allocated session is known by its identifier, attached to, or lost with a
\* failure; and the task joins its observer only once that is settled.
NothingOpen ==
    /\ \A c \in K!Calls : kstatus[c] = "closed" => ksession[c] # "open"
    /\ klane # 0 =>
          /\ kpath \in {"webrtc", "relay", "login"}
          /\ kfinalized => ksession[klane] = "over"
          /\ kpath = "relay" => /\ kpc \notin {"offer", "provision", "answer", "media"}
                                /\ ksession[klane] # "none" => kattached
                                /\ kpc \in {"hangup", "join"} => kobserver # "running"
          /\ kpath # "relay" /\ ksession[klane] # "none" /\ ~kknown => kpc = "provision" \/ kfailed
          /\ kpc = "join" /\ ~kfailed => ksession[klane] # "open"

LineInv == LineTypes /\ CallsInLine /\ ClosesOnce /\ NothingOpen

LEMMA LineConstants == MaxCalls \in Nat /\ 0 \notin K!Calls
BY ServicesAssumption DEF K!VoiceCallsAssumption, K!Calls

\* What a step does to the records: nothing, or to that of the active call.
CallsMove == \A c \in K!Calls :
    /\ kstatus[c] = "closing" => kstatus'[c] \in {"closing", "closed", "error"}
    /\ kstatus[c] \in {"closed", "error"} => kstatus'[c] = kstatus[c]

\* Stopping a call, whoever asks for it.
OnlyStops ==
    /\ klane' = klane /\ ksession' = ksession /\ kfailed' = kfailed /\ kobserver' = kobserver /\ kpath' = kpath
    /\ kknown' = kknown /\ kattached' = kattached /\ kfinalized' = kfinalized
    /\ kpc' = kpc \/ (kpc = "live" /\ kpc' = "closing")

LEMMA CallStops ==
    ASSUME NEW c, LineInv, K!Stopped(c), OnlyStops
    PROVE  LineInv' /\ CallsMove
<1>0. LineTypes /\ CallsInLine /\ ClosesOnce /\ NothingOpen
      BY DEF LineInv
<1> USE DEF OnlyStops
<1>1. CASE UNCHANGED <<kstop, kstatus>>
  <2>1. LineTypes' /\ CallsMove
        BY <1>0, <1>1 DEF LineTypes, CallsMove, CallStates, K!Steps
  <2>2. CallsInLine'
        BY <1>0, <1>1 DEF CallsInLine
  <2>3. ClosesOnce'
        BY <1>0, <1>1 DEF ClosesOnce, HangingUp
  <2>4. NothingOpen'
        BY <1>0, <1>1 DEF NothingOpen
  <2> QED BY <2>1, <2>2, <2>3, <2>4 DEF LineInv
<1>2. CASE klane # 0 /\ kstop' = TRUE /\ kstatus' = [kstatus EXCEPT ![klane] = "closing"]
  <2>0. klane \in K!Calls /\ kstatus'[klane] = "closing" /\ (\A d \in K!Calls : d # klane => kstatus'[d] = kstatus[d])
        BY <1>0, <1>2 DEF LineTypes
  <2>1. LineTypes'
        BY <1>0, <1>2 DEF LineTypes, CallStates, K!Steps
  <2>2. kstatus[klane] \in {"connecting", "connected", "closing"}
        BY <1>0, <2>0 DEF CallsInLine
  <2>3. CallsInLine'
        BY <1>0, <1>2, <2>0, <2>2 DEF CallsInLine
  <2>4. ClosesOnce'
        BY <1>2, <2>0 DEF ClosesOnce
  <2>5. NothingOpen'
        BY <1>0, <2>0, <2>2 DEF NothingOpen
  <2>6. CallsMove
        BY <2>0, <2>2 DEF CallsMove
  <2> QED BY <2>1, <2>3, <2>4, <2>5, <2>6 DEF LineInv
<1>3. CASE c = 0 \/ klane # c \/ kstop
      BY <1>1, <1>3 DEF K!Stopped
<1>4. CASE c # 0 /\ klane = c /\ ~kstop
  <2>1. klane # 0 /\ kstop' = TRUE /\ kstatus' = [kstatus EXCEPT ![klane] = "closing"]
        BY <1>4 DEF K!Stopped
  <2> QED BY <1>2, <2>1
<1> QED BY <1>3, <1>4

LEMMA LineServeAudio == ASSUME LineInv, K!ServeAudio PROVE LineInv' /\ CallsMove
BY SMT, LineConstants DEF K!ServeAudio, LineInv, LineTypes, CallsInLine, ClosesOnce, NothingOpen,
   CallStates, HangingUp, CallsMove, K!Steps, K!Calls, K!outside, K!reading

LEMMA LineLeaseRunsOut == ASSUME LineInv, K!LeaseRunsOut PROVE LineInv' /\ CallsMove
BY SMT, LineConstants DEF K!LeaseRunsOut, LineInv, LineTypes, CallsInLine, ClosesOnce, NothingOpen,
   CallStates, HangingUp, CallsMove, K!Steps, K!Calls, K!outside, K!reading

LEMMA LinePollLate == ASSUME LineInv, K!PollLate PROVE LineInv' /\ CallsMove
<1>1. K!Stopped(klane) /\ OnlyStops
      BY DEF K!PollLate, K!reading, K!outside, OnlyStops
<1> QED BY <1>1, CallStops

LEMMA LineEnd == ASSUME LineInv, K!End PROVE LineInv' /\ CallsMove
<1>1. K!Stopped(klane) /\ OnlyStops
      BY DEF K!End, K!reading, K!outside, OnlyStops
<1> QED BY <1>1, CallStops

LEMMA LineShutdown == ASSUME LineInv, K!Shutdown PROVE LineInv' /\ CallsMove
<1>1. K!Stopped(klane) /\ OnlyStops
      BY DEF K!Shutdown, K!reading, K!outside, OnlyStops
<1> QED BY <1>1, CallStops

LEMMA LineShutDown == ASSUME LineInv, K!ShutDown PROVE LineInv' /\ CallsMove
BY SMT, LineConstants DEF K!ShutDown, LineInv, LineTypes, CallsInLine, ClosesOnce, NothingOpen,
   CallStates, HangingUp, CallsMove, K!Steps, K!Calls, K!outside, K!reading

LEMMA LineAttach == ASSUME LineInv, K!Attach PROVE LineInv' /\ CallsMove
BY SMT, LineConstants DEF K!Attach, LineInv, LineTypes, CallsInLine, ClosesOnce, NothingOpen,
   CallStates, HangingUp, CallsMove, K!Steps, K!Calls, K!outside, K!reading

LEMMA LineReadClosed == ASSUME LineInv, K!ReadClosed PROVE LineInv' /\ CallsMove
BY SMT, LineConstants DEF K!ReadClosed, LineInv, LineTypes, CallsInLine, ClosesOnce, NothingOpen,
   CallStates, HangingUp, CallsMove, K!Steps, K!Calls, K!outside, K!reading

LEMMA LineReadFails == ASSUME LineInv, K!ReadFails PROVE LineInv' /\ CallsMove
<1>0. LineTypes /\ CallsInLine /\ ClosesOnce /\ NothingOpen
      BY DEF LineInv
<1> USE DEF K!ReadFails, K!Over, K!Fail, K!OneFault, K!Calls, K!outside, K!reading
<1>1. LineTypes'
      BY <1>0 DEF LineTypes, CallStates, K!Steps
<1>a. UNCHANGED <<klane, kstatus, kstop, kpc>> /\ (klane = 0 => kpc = "none" /\ ~kstop /\ ~kfailed)
      BY <1>0 DEF CallsInLine
<1>b. \A c \in K!Calls : kstatus[c] = "none" => ksession'[c] = "none"
      BY <1>0 DEF LineTypes, CallsInLine
<1>c. klane # 0
      BY <1>0 DEF CallsInLine
<1>2. CallsInLine' /\ CallsMove
      BY ONLY <1>0, <1>a, <1>b, <1>c DEF CallsInLine, CallsMove
<1>3. ClosesOnce'
      BY <1>0 DEF LineTypes, CallsInLine, ClosesOnce, HangingUp
<1>4. NothingOpen'
      BY <1>0, LineConstants DEF LineTypes, CallsInLine, NothingOpen
<1> QED BY <1>1, <1>2, <1>3, <1>4 DEF LineInv

LEMMA LineAllocate == ASSUME LineInv, K!Allocate PROVE LineInv' /\ CallsMove
BY SMT, LineConstants DEF K!Allocate, LineInv, LineTypes, CallsInLine, ClosesOnce, NothingOpen,
   CallStates, HangingUp, CallsMove, K!Steps, K!Calls, K!outside, K!reading

LEMMA LineAsked == ASSUME LineInv, K!Asked PROVE LineInv' /\ CallsMove
BY SMT, LineConstants DEF K!Asked, K!Over, LineInv, LineTypes, CallsInLine, ClosesOnce, NothingOpen,
   CallStates, HangingUp, CallsMove, K!Steps, K!Calls, K!outside, K!reading

LEMMA LineSeed == ASSUME LineInv, K!Seed PROVE LineInv' /\ CallsMove
BY SMT, LineConstants DEF K!Seed, K!Go, LineInv, LineTypes, CallsInLine, ClosesOnce, NothingOpen,
   CallStates, HangingUp, CallsMove, K!Steps, K!Calls, K!outside, K!reading

LEMMA LineSetupFails == ASSUME LineInv, K!SetupFails PROVE LineInv' /\ CallsMove
<1>0. LineTypes /\ CallsInLine /\ ClosesOnce /\ NothingOpen
      BY DEF LineInv
<1> USE DEF K!SetupFails, K!Retire, K!OneFault, K!Paths, K!Calls, K!outside, K!reading
<1>1. LineTypes'
      BY <1>0 DEF LineTypes, CallStates, K!Steps
<1>2. CallsInLine' /\ CallsMove
      BY <1>0, LineConstants DEF LineTypes, CallsInLine, CallsMove
<1>3. ClosesOnce'
      BY <1>0 DEF LineTypes, CallsInLine, ClosesOnce, HangingUp
<1>4. NothingOpen'
      BY <1>0, LineConstants DEF LineTypes, CallsInLine, NothingOpen
<1> QED BY <1>1, <1>2, <1>3, <1>4 DEF LineInv

LEMMA LineBegin == ASSUME LineInv, K!Begin PROVE LineInv' /\ CallsMove
<1>0. LineTypes /\ CallsInLine /\ ClosesOnce /\ NothingOpen
      BY DEF LineInv
<1> USE DEF K!Begin, K!Go, K!Calls, K!outside, K!reading
<1>a. kpc = "begin" /\ UNCHANGED <<klane, kstatus, ksession, kstop, kfailed, kknown, kattached, kfinalized>>
      OBVIOUS
<1>b. klane # 0 /\ kpath \in {"webrtc", "relay", "login"}
      BY <1>0, <1>a DEF CallsInLine, NothingOpen
<1>c. kpc' \in {"closing", "provision", "offer", "attach"} /\ kobserver' \in {kobserver, "running"}
      BY <1>b
<1>1. LineTypes'
      BY ONLY <1>0, <1>a, <1>c DEF LineTypes, CallStates, K!Steps
<1>2. CallsInLine' /\ CallsMove
      BY ONLY <1>0, <1>a, <1>b, <1>c DEF CallsInLine, CallsMove
<1>3. ClosesOnce'
      BY ONLY <1>0, <1>a, <1>c DEF ClosesOnce, HangingUp
<1>4. NothingOpen'
      BY <1>0, LineConstants DEF LineTypes, CallsInLine, NothingOpen
<1> QED BY <1>1, <1>2, <1>3, <1>4 DEF LineInv

LEMMA LineOffer == ASSUME LineInv, K!Offer PROVE LineInv' /\ CallsMove
BY SMT, LineConstants DEF K!Offer, K!Go, LineInv, LineTypes, CallsInLine, ClosesOnce, NothingOpen,
   CallStates, HangingUp, CallsMove, K!Steps, K!Calls, K!outside, K!reading

LEMMA LineProvisioned == ASSUME LineInv, K!Provisioned PROVE LineInv' /\ CallsMove
BY SMT, LineConstants DEF K!Provisioned, K!Go, LineInv, LineTypes, CallsInLine, ClosesOnce,
   NothingOpen, CallStates, HangingUp, CallsMove, K!Steps, K!Calls, K!outside, K!reading

LEMMA LineAnswerRead == ASSUME LineInv, K!AnswerRead PROVE LineInv' /\ CallsMove
BY SMT, LineConstants DEF K!AnswerRead, K!Go, LineInv, LineTypes, CallsInLine, ClosesOnce,
   NothingOpen, CallStates, HangingUp, CallsMove, K!Steps, K!Calls, K!outside, K!reading

LEMMA LineMediaUp == ASSUME LineInv, K!MediaUp PROVE LineInv' /\ CallsMove
BY SMT, LineConstants DEF K!MediaUp, K!Go, LineInv, LineTypes, CallsInLine, ClosesOnce, NothingOpen,
   CallStates, HangingUp, CallsMove, K!Steps, K!Calls, K!outside, K!reading

LEMMA LineSetupStopped == ASSUME LineInv, K!SetupStopped PROVE LineInv' /\ CallsMove
BY SMT, LineConstants DEF K!SetupStopped, K!Go, LineInv, LineTypes, CallsInLine, ClosesOnce,
   NothingOpen, CallStates, HangingUp, CallsMove, K!Steps, K!Calls, K!outside, K!reading

LEMMA LineProvisionFails == ASSUME LineInv, K!ProvisionFails PROVE LineInv' /\ CallsMove
<1>0. LineTypes /\ CallsInLine /\ ClosesOnce /\ NothingOpen
      BY DEF LineInv
<1> USE DEF K!ProvisionFails, K!Go, K!Fail, K!Calls, K!outside, K!reading
<1>1. LineTypes'
      BY <1>0 DEF LineTypes, CallStates, K!Steps
<1>2. CallsInLine' /\ CallsMove
      BY <1>0, LineConstants DEF LineTypes, CallsInLine, CallsMove
<1>3. ClosesOnce'
      BY <1>0 DEF LineTypes, CallsInLine, ClosesOnce, HangingUp
<1>4. NothingOpen'
      BY <1>0, LineConstants DEF LineTypes, CallsInLine, NothingOpen
<1> QED BY <1>1, <1>2, <1>3, <1>4 DEF LineInv

LEMMA LineConnect == ASSUME LineInv, K!Connect PROVE LineInv' /\ CallsMove
BY SMT, LineConstants DEF K!Connect, K!Go, LineInv, LineTypes, CallsInLine, ClosesOnce, NothingOpen,
   CallStates, HangingUp, CallsMove, K!Steps, K!Calls, K!outside, K!reading

LEMMA LineNotConnected == ASSUME LineInv, K!NotConnected PROVE LineInv' /\ CallsMove
<1>0. LineTypes /\ CallsInLine /\ ClosesOnce /\ NothingOpen
      BY DEF LineInv
<1> USE DEF K!NotConnected, K!Go, K!Fail, K!Calls, K!outside, K!reading
<1>1. LineTypes'
      BY <1>0 DEF LineTypes, CallStates, K!Steps
<1>2. CallsInLine' /\ CallsMove
      BY <1>0, LineConstants DEF LineTypes, CallsInLine, CallsMove
<1>3. ClosesOnce'
      BY <1>0 DEF LineTypes, CallsInLine, ClosesOnce, HangingUp
<1>4. NothingOpen'
      BY <1>0, LineConstants DEF LineTypes, CallsInLine, NothingOpen
<1> QED BY <1>1, <1>2, <1>3, <1>4 DEF LineInv

LEMMA LineHangs == ASSUME LineInv, K!Hangs PROVE LineInv' /\ CallsMove
<1>1. kpc = "live" /\ kpc' = "closing"
      BY DEF K!Hangs, K!Go
<1>2. CASE K!Stopped(klane)
  <2>1. OnlyStops
        BY <1>1 DEF K!Hangs, K!reading, OnlyStops
  <2> QED BY <1>2, <2>1, CallStops
<1>3. CASE UNCHANGED <<kstop, kstatus>>
      BY SMT, <1>1, <1>3, LineConstants DEF K!Hangs, LineInv, LineTypes, CallsInLine, ClosesOnce,
         NothingOpen, CallStates, HangingUp, CallsMove, K!Steps, K!Calls, K!outside, K!reading
<1> QED BY <1>2, <1>3 DEF K!Hangs

LEMMA LineClosing == ASSUME LineInv, K!Closing PROVE LineInv' /\ CallsMove
BY SMT, LineConstants DEF K!Closing, K!Go, LineInv, LineTypes, CallsInLine, ClosesOnce, NothingOpen,
   CallStates, HangingUp, CallsMove, K!Steps, K!Calls, K!outside, K!reading

LEMMA LineWaited == ASSUME LineInv, K!Waited PROVE LineInv' /\ CallsMove
BY SMT, LineConstants DEF K!Waited, K!Over, K!Go, LineInv, LineTypes, CallsInLine, ClosesOnce,
   NothingOpen, CallStates, HangingUp, CallsMove, K!Steps, K!Calls, K!outside, K!reading

LEMMA LineHangUp == ASSUME LineInv, K!HangUp PROVE LineInv' /\ CallsMove
<1>0. LineTypes /\ CallsInLine /\ ClosesOnce /\ NothingOpen
      BY DEF LineInv
<1> USE DEF K!HangUp, K!Over, K!Go, K!Fail, K!OneFault, K!Calls, K!outside, K!reading
<1>1. LineTypes'
      BY <1>0 DEF LineTypes, CallStates, K!Steps
<1>2. CallsInLine' /\ CallsMove
      BY <1>0, LineConstants DEF LineTypes, CallsInLine, CallsMove
<1>3. ClosesOnce'
      BY <1>0 DEF LineTypes, CallsInLine, ClosesOnce, HangingUp
<1>4. NothingOpen'
      BY <1>0, LineConstants DEF LineTypes, CallsInLine, NothingOpen
<1> QED BY <1>1, <1>2, <1>3, <1>4 DEF LineInv

LEMMA LineNoHangUp == ASSUME LineInv, K!NoHangUp PROVE LineInv' /\ CallsMove
<1>0. LineTypes /\ CallsInLine /\ ClosesOnce /\ NothingOpen
      BY DEF LineInv
<1> USE DEF K!NoHangUp, K!Go, K!Fail, K!Calls, K!outside, K!reading
<1>1. LineTypes'
      BY <1>0 DEF LineTypes, CallStates, K!Steps
<1>2. CallsInLine' /\ CallsMove
      BY <1>0, LineConstants DEF LineTypes, CallsInLine, CallsMove
<1>3. ClosesOnce'
      BY <1>0 DEF LineTypes, CallsInLine, ClosesOnce, HangingUp
<1>4. NothingOpen'
      BY <1>0, LineConstants DEF LineTypes, CallsInLine, NothingOpen
<1> QED BY <1>1, <1>2, <1>3, <1>4 DEF LineInv

LEMMA LineFinish == ASSUME LineInv, K!Finish PROVE LineInv' /\ CallsMove
<1>0. LineTypes /\ CallsInLine /\ ClosesOnce /\ NothingOpen
      BY DEF LineInv
<1> USE DEF K!Finish, K!Retire, K!OneFault, K!Paths, K!Calls, K!outside, K!reading
<1>1. LineTypes'
      BY <1>0 DEF LineTypes, CallStates, K!Steps
<1>2. CallsInLine' /\ CallsMove
      BY <1>0, LineConstants DEF LineTypes, CallsInLine, CallsMove
<1>3. ClosesOnce'
      BY <1>0 DEF LineTypes, CallsInLine, ClosesOnce, HangingUp
<1>4. NothingOpen'
      BY <1>0, LineConstants DEF LineTypes, CallsInLine, NothingOpen
<1> QED BY <1>1, <1>2, <1>3, <1>4 DEF LineInv

LEMMA LineAnswer == ASSUME LineInv, NEW c \in K!Calls, K!Answer(c) PROVE LineInv' /\ CallsMove
BY SMT, LineConstants DEF K!Answer, LineInv, LineTypes, CallsInLine, ClosesOnce, NothingOpen,
   CallStates, HangingUp, CallsMove, K!Steps, K!Calls, K!outside, K!reading

LEMMA LineGiveUp == ASSUME LineInv, NEW c \in K!Calls, K!GiveUp(c) PROVE LineInv' /\ CallsMove
<1>1. K!Stopped(c) /\ OnlyStops
      BY DEF K!GiveUp, K!reading, K!outside, OnlyStops
<1> QED BY <1>1, CallStops

LEMMA LineJoin == ASSUME LineInv, NEW c \in K!Calls, K!Join(c) PROVE LineInv' /\ CallsMove
BY SMT, LineConstants DEF K!Join, LineInv, LineTypes, CallsInLine, ClosesOnce, NothingOpen,
   CallStates, HangingUp, CallsMove, K!Steps, K!Calls, K!outside, K!reading

LEMMA LineLeaveAudio == ASSUME LineInv, NEW c \in K!Calls, K!LeaveAudio(c) PROVE LineInv' /\ CallsMove
<1>1. K!Stopped(c) /\ OnlyStops
      BY DEF K!LeaveAudio, K!reading, K!outside, OnlyStops
<1> QED BY <1>1, CallStops

LEMMA LineExpire == ASSUME LineInv, NEW c \in K!Calls, K!Expire(c) PROVE LineInv' /\ CallsMove
BY SMT, LineConstants DEF K!Expire, K!Over, K!OneFault, LineInv, LineTypes, CallsInLine, ClosesOnce,
   NothingOpen, CallStates, HangingUp, CallsMove, K!Steps, K!Calls, K!outside, K!reading

LEMMA LineCreate == ASSUME LineInv, NEW p \in K!Paths, K!Create(p) PROVE LineInv' /\ CallsMove
<1>0. LineTypes /\ CallsInLine /\ ClosesOnce /\ NothingOpen
      BY DEF LineInv
<1> USE DEF K!Create, K!Paths, K!Calls
<1>1. LineTypes'
      BY <1>0 DEF LineTypes, CallStates, K!Steps
<1>2. CallsInLine' /\ CallsMove
      BY <1>0, LineConstants DEF LineTypes, CallsInLine, CallsMove
<1>3. ClosesOnce'
      BY <1>0 DEF LineTypes, CallsInLine, ClosesOnce, HangingUp
<1>4. NothingOpen'
      BY <1>0, LineConstants DEF LineTypes, CallsInLine, NothingOpen
<1> QED BY <1>1, <1>2, <1>3, <1>4 DEF LineInv

LEMMA LineTaskStep == ASSUME LineInv, K!TaskStep PROVE LineInv' /\ CallsMove
BY LineSeed, LineSetupFails, LineBegin, LineOffer, LineProvisioned, LineAnswerRead, LineMediaUp,
   LineSetupStopped, LineProvisionFails, LineConnect, LineNotConnected, LineHangs, LineClosing,
   LineWaited, LineHangUp, LineNoHangUp, LineFinish DEF K!TaskStep

LEMMA LineNext == ASSUME LineInv, K!Next PROVE LineInv' /\ CallsMove
<1>1. CASE \E p \in K!Paths : K!Create(p)
      BY <1>1, LineCreate
<1>2. CASE \E c \in K!Calls : K!Answer(c) \/ K!GiveUp(c) \/ K!Join(c) \/ K!LeaveAudio(c) \/ K!Expire(c)
      BY <1>2, LineAnswer, LineGiveUp, LineJoin, LineLeaveAudio, LineExpire
<1>3. CASE K!ServeAudio \/ K!LeaseRunsOut \/ K!PollLate \/ K!End \/ K!Shutdown \/ K!ShutDown
           \/ K!Attach \/ K!ReadClosed \/ K!ReadFails \/ K!Allocate \/ K!Asked
      BY <1>3, LineServeAudio, LineLeaseRunsOut, LinePollLate, LineEnd, LineShutdown, LineShutDown,
         LineAttach, LineReadClosed, LineReadFails, LineAllocate, LineAsked
<1>4. CASE K!TaskStep
      BY <1>4, LineTaskStep
<1> QED BY <1>1, <1>2, <1>3, <1>4 DEF K!Next

LEMMA LineRests == ASSUME LineInv, UNCHANGED K!vars PROVE LineInv'
BY DEF K!vars, LineInv, LineTypes, CallsInLine, ClosesOnce, NothingOpen

LEMMA LineStarts == K!Init => LineInv
BY LineConstants DEF K!Init, K!Steps, K!Calls, CallStates, HangingUp, LineInv, LineTypes,
   CallsInLine, ClosesOnce, NothingOpen

\* Two sessions are open only after a call whose end is unconfirmed: what came
\* before the active call has ended, and what comes after it has not begun.
LEMMA LineOrphansNothing == LineInv => K!NothingOrphaned
<1> SUFFICES ASSUME LineInv PROVE K!NothingOrphaned
    OBVIOUS
<1>1. \A c \in K!Calls : kstatus[c] = "closed" => ksession[c] # "open"
      BY DEF LineInv, NothingOpen
<1>2. ASSUME NEW c \in K!Calls, NEW d \in K!Calls, c < d, ksession[c] = "open", ksession[d] # "none"
      PROVE  kstatus[c] = "error"
  <2>1. kstatus[d] # "none"
        BY <1>2 DEF LineInv, CallsInLine
  <2>2. kstatus[c] \in {"closed", "error"}
        BY <1>2, <2>1 DEF LineInv, CallsInLine
  <2> QED BY <1>1, <1>2, <2>2
<1> QED BY <1>1, <1>2 DEF K!NothingOrphaned

\* A voice call leaves nothing open at the provider unless its record says so, and
\* never comes back once it is closing, for any number of calls and failures: every
\* path, timeout, stop, lost connection and hang-up that fails included.
THEOREM VoiceCallsEndHonestly == K!Spec => CallsEndHonestly
<1>1. K!Init => LineInv
      BY LineStarts
<1>2. LineInv /\ [K!Next]_(K!vars) => LineInv'
      BY LineNext, LineRests
<1>3. LineInv /\ LineInv' /\ [K!Next]_(K!vars) => [K!NothingOrphaned' /\ K!NoRevival]_(K!vars)
  <2> SUFFICES ASSUME LineInv, LineInv', K!Next PROVE K!NothingOrphaned' /\ K!NoRevival
      OBVIOUS
  <2>1. K!NothingOrphaned'
        BY LineOrphansNothing, PTL
  <2>2. CallsMove
        BY LineNext
  <2> QED BY <2>1, <2>2 DEF CallsMove, K!NoRevival, K!Ended
<1> QED BY <1>1, <1>2, <1>3, PTL DEF K!Spec, CallsEndHonestly, K!CallsEndHonestly

LEMMA CallsAmongServices == ServicesSpec => K!Spec
<1>1. ServicesInit => K!Init
      BY DEF ServicesInit
<1>2. [ServicesNext]_<<which, vars, server, receipts, trash, timers, approvals, voice, tools, calls>>
          => [K!Next]_(K!vars)
      BY DEF ServicesNext, calls, K!vars
<1> QED BY <1>1, <1>2, PTL DEF ServicesSpec, K!Spec

\* And so they do in the composition that the runs check.
THEOREM VoiceCallsEndHonestlyAmongServices == ServicesSpec => CallsEndHonestly
BY CallsAmongServices, VoiceCallsEndHonestly, PTL
=============================================================================
