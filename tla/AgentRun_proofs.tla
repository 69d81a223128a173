--------------------------- MODULE AgentRun_proofs ---------------------------
(***************************************************************************)
(* Theorems about AgentRun, for any call ids, rounds, runs and faults: the *)
(* types; that a tool is never started twice for one call, and only for a  *)
(* call that is already in the history; that what a provider is sent is    *)
(* complete, and a run leaves nothing pending behind; and that the history *)
(* implements ToolLedger.                                                  *)
(*                                                                         *)
(* IInv is about the run and the tools it started.  HInv is about the rows *)
(* of the active history: every row behind a block is the answer in turn,  *)
(* there is no other answer (Shape), and what a run has to answer is what  *)
(* is missing of the last block.  _repair_tool_calls looks for pending     *)
(* calls by their ids; PendingIsMissing shows that with Shape it finds     *)
(* exactly the missing ones.                                               *)
(***************************************************************************)
EXTENDS AgentRun, SequenceTheorems, TLAPS

\* A call that still waits for its repair is a call of a row.
TodoOK == \A a \in todo : a[2] \in DOMAIN log[a[1]].calls

\* While a block is executed, its row holds the calls being executed.
TurnOK ==
    /\ pc \in {"compacting", "generate", "streaming", "block", "text", "tool",
               "executing", "result"} => round < MaxToolRounds
    /\ \A p, q \in DOMAIN calls : calls[p] = calls[q] => p = q
    /\ pc = "block" => calls # <<>>
    /\ pc \in {"tool", "executing", "result"} =>
          /\ pos \in DOMAIN calls
          /\ at \in DOMAIN log
          /\ log[at].calls = calls

\* The calls of that row started so far: those before the current position,
\* and the current one once its tool runs.
FreshOK ==
    pc \in {"tool", "executing", "result"} =>
        \A n \in DOMAIN starts : starts[n][1] = at =>
            \E p \in DOMAIN calls :
                /\ starts[n][2] = calls[p]
                /\ p <= pos
                /\ pc = "tool" => p < pos

IInv == TypeOK /\ TodoOK /\ TurnOK /\ FreshOK /\ StartsAreDurable /\ NeverReplayed

-----------------------------------------------------------------------------
(* Rows and histories. *)

\* The rows the code builds are messages.
LEMMA PlainIsMessage ==
    ASSUME NEW k \in Kinds
    PROVE  Plain(k) \in Message
<1>1. <<>> \in Seq(CallIds)
    BY EmptySeq
<1>. QED
    BY <1>1 DEF Plain, Message, Outcomes

LEMMA BlockIsMessage ==
    ASSUME NEW cs \in Seq(CallIds)
    PROVE  Block(cs) \in Message /\ Block(cs).calls = cs
BY DEF Block, Plain, Message, Kinds, Outcomes

LEMMA ResultIsMessage ==
    ASSUME NEW c \in CallIds, NEW o \in Outcomes
    PROVE  Result(c, o) \in Message
<1>1. <<>> \in Seq(CallIds)
    BY EmptySeq
<1>. QED
    BY <1>1 DEF Result, Plain, Message, Kinds

\* l keeps the rows of the history and may add some.
Extension(l) ==
    /\ l \in Seq(Message)
    /\ Len(log) <= Len(l)
    /\ \A i \in 1..Len(log) : l[i] = log[i]

\* add_message extends the history.
LEMMA AppendExtends ==
    ASSUME log \in Seq(Message), NEW m \in Message
    PROVE  /\ Extension(Append(log, m))
           /\ Len(Append(log, m)) = Len(log) + 1
           /\ Append(log, m)[Len(log) + 1] = m
BY DEF Extension

\* Appending a repair extends the history.
LEMMA RepairExtends ==
    ASSUME TypeOK, TodoOK, NEW a \in First
    PROVE  Extension(Repaired(a))
<1>1. a \in todo /\ a[1] \in 1..Len(log) /\ a[2] \in DOMAIN log[a[1]].calls
    BY DEF First, TypeOK, TodoOK
<1>2. log[a[1]] \in Message
    BY <1>1, ElementOfSeq DEF TypeOK
<1>3. CallAt(log, a) \in CallIds
    BY <1>1, <1>2 DEF CallAt, Message
<1>4. Result(CallAt(log, a), "unknown") \in Message
    BY <1>3, ResultIsMessage DEF Outcomes
<1>. QED
    BY <1>4, AppendExtends DEF Repaired, TypeOK

\* Whatever an interruption leaves behind extends the history.
LEMMA CommittedExtends ==
    ASSUME TypeOK, TodoOK, TurnOK, NEW l \in {log} \cup Committed
    PROVE  Extension(l)
<1>1. CASE l = log
    BY <1>1 DEF Extension, TypeOK
<1>2. CASE l \in Committed /\ pc = "user"
    BY <1>2, PlainIsMessage, AppendExtends DEF Committed, TypeOK, Kinds
<1>3. CASE l \in Committed /\ pc = "text"
    BY <1>3, PlainIsMessage, AppendExtends DEF Committed, TypeOK, Kinds
<1>4. CASE l \in Committed /\ pc = "block"
    BY <1>4, BlockIsMessage, AppendExtends DEF Committed, TypeOK
<1>5. CASE l \in Committed /\ pc = "result"
    <2>1. calls[pos] \in CallIds
        BY <1>5, ElementOfSeq DEF TurnOK, TypeOK
    <2>2. l = Append(log, Result(calls[pos], outcome))
        BY <1>5 DEF Committed
    <2>. QED
        BY <2>1, <2>2, ResultIsMessage, AppendExtends DEF TypeOK
<1>6. CASE l \in Committed /\ pc \in {"opening", "closing"}
    <2>1. PICK a \in First : l = Repaired(a)
        BY <1>6 DEF Committed
    <2>. QED
        BY <2>1, RepairExtends
<1>7. CASE l \in Committed /\ pc \notin {"user", "text", "block", "result", "opening", "closing"}
    BY <1>7 DEF Committed
<1>. QED
    BY <1>1, <1>2, <1>3, <1>4, <1>5, <1>6, <1>7

\* The calls a repair finds pending are calls of rows.
LEMMA PendingIsTyped ==
    ASSUME NEW l \in Seq(Message), boundary \in Nat \ {0}
    PROVE  /\ Pending(l) \subseteq (1..Len(l)) \X (Nat \ {0})
           /\ \A a \in Pending(l) : a[2] \in DOMAIN l[a[1]].calls
<1>. SUFFICES ASSUME NEW a \in Pending(l)
              PROVE  /\ a \in (1..Len(l)) \X (Nat \ {0})
                     /\ a[2] \in DOMAIN l[a[1]].calls
    OBVIOUS
<1>1. PICK i \in boundary..Len(l) : a \in {<<i, p>> : p \in DOMAIN l[i].calls}
    BY DEF Pending, Positions
<1>2. PICK p \in DOMAIN l[i].calls : a = <<i, p>>
    BY <1>1
<1>3. i \in 1..Len(l)
    BY <1>1
<1>4. l[i] \in Message
    BY <1>3, ElementOfSeq
<1>5. p \in Nat \ {0}
    BY <1>2, <1>4 DEF Message
<1>. QED
    BY <1>2, <1>3, <1>5

\* The starts on record are not disturbed by rows that are added.
LEMMA StartsKept ==
    ASSUME TypeOK, StartsAreDurable, NeverReplayed, Extension(log'), UNCHANGED starts
    PROVE  StartsAreDurable' /\ NeverReplayed'
<1>1. NeverReplayed'
    BY DEF NeverReplayed
<1>2. ASSUME NEW n \in DOMAIN starts
      PROVE  /\ starts[n][1] \in DOMAIN log'
             /\ \E p \in DOMAIN log'[starts[n][1]].calls :
                    log'[starts[n][1]].calls[p] = starts[n][2]
    <2>1. starts[n][1] \in DOMAIN log
        BY DEF StartsAreDurable
    <2>2. log'[starts[n][1]] = log[starts[n][1]] /\ starts[n][1] \in DOMAIN log'
        <3>1. DOMAIN log = 1..Len(log) /\ DOMAIN log' = 1..Len(log')
            BY LenProperties DEF Extension, TypeOK
        <3>2. Len(log) \in Nat /\ Len(log') \in Nat
            BY LenProperties DEF Extension, TypeOK
        <3>. QED
            BY <2>1, <3>1, <3>2 DEF Extension
    <2>. QED
        BY <2>2 DEF StartsAreDurable
<1>. QED
    BY <1>1, <1>2 DEF StartsAreDurable

\* What the locals of a run are reset to is of their types.
LEMMA FreshLocals ==
    /\ FALSE \in BOOLEAN /\ 1 \in Nat \ {0} /\ 0 \in Nat /\ "none" \in Outcomes
    /\ <<>> \in Seq(Message) /\ <<>> \in Seq(CallIds) /\ <<>> \in Seq(Nat \X CallIds)
    /\ 0 \in 0..MaxToolRounds /\ 0 \in 0..MaxRuns /\ 0 \in 0..MaxFaults
    /\ 0 \in 0..MaxCompactions
<1>1. /\ <<>> \in Seq(Message) /\ <<>> \in Seq(CallIds)
      /\ <<>> \in Seq(Nat \X CallIds)
    BY EmptySeq
<1>2. FALSE \in BOOLEAN
    OBVIOUS
<1>3. 1 \in Nat \ {0} /\ 0 \in Nat /\ "none" \in Outcomes
    BY DEF Outcomes
<1>4. /\ 0 \in 0..MaxToolRounds /\ 0 \in 0..MaxRuns /\ 0 \in 0..MaxFaults
      /\ 0 \in 0..MaxCompactions
    BY BoundsAssumption
<1>. QED
    BY <1>1, <1>2, <1>3, <1>4

\* Leaving the loop keeps the invariant, whatever was written last.
LEMMA CloseKeeps ==
    ASSUME IInv, NEW l, Extension(l), Close(l), UNCHANGED starts,
           runs' \in 0..MaxRuns, faults' \in 0..MaxFaults,
           compactions' \in 0..MaxCompactions
    PROVE  IInv'
<1>. USE DEF IInv
<1>1. log' = l /\ pc' = "closing" /\ todo' = Pending(l) /\ boundary' = boundary
    BY DEF Close
<1>2. /\ round' = 0 /\ calls' = <<>> /\ failed' = FALSE /\ pos' = 1
      /\ at' = 0 /\ outcome' = "none" /\ request' = <<>>
    BY DEF Close, Forget, EndRound
<1>3. /\ Pending(l) \subseteq (1..Len(l)) \X (Nat \ {0})
      /\ \A a \in Pending(l) : a[2] \in DOMAIN l[a[1]].calls
    BY PendingIsTyped DEF Extension, TypeOK
<1>4. <<>> \in Seq(CallIds) /\ <<>> \in Seq(Message)
    BY EmptySeq
<1>5. TypeOK'
    <2>1. log' \in Seq(Message) /\ boundary' \in 1..(Len(log') + 1)
        BY <1>1, LenProperties DEF TypeOK, Extension
    <2>2. pc' \in Pcs /\ round' \in 0..MaxToolRounds /\ calls' \in Seq(CallIds)
        BY <1>1, <1>2, <1>4, BoundsAssumption DEF Pcs
    <2>3. /\ failed' \in BOOLEAN /\ pos' \in Nat \ {0} /\ at' \in Nat
          /\ outcome' \in Outcomes /\ request' \in Seq(Message)
        BY <1>2, FreshLocals
    <2>4. todo' \subseteq (1..Len(log')) \X (Nat \ {0})
        BY <1>1, <1>3
    <2>5. starts' \in Seq(Nat \X CallIds)
        BY DEF TypeOK
    <2>. QED
        BY <2>1, <2>2, <2>3, <2>4, <2>5 DEF TypeOK
<1>6. TodoOK'
    BY <1>1, <1>3 DEF TodoOK
<1>7. TurnOK' /\ FreshOK'
    BY <1>1, <1>2 DEF TurnOK, FreshOK
<1>8. StartsAreDurable' /\ NeverReplayed'
    BY <1>1, StartsKept
<1>. QED
    BY <1>5, <1>6, <1>7, <1>8

-----------------------------------------------------------------------------
(* The invariant. *)

\* A step that leaves the history, the starts and what is pending alone keeps
\* what is said of them.
LEMMA LogUntouched ==
    ASSUME IInv, UNCHANGED <<log, todo, starts>>
    PROVE  TodoOK' /\ StartsAreDurable' /\ NeverReplayed'
BY DEF IInv, TodoOK, StartsAreDurable, NeverReplayed

\* The initial state satisfies the invariant.
LEMMA InitInvariant == Init => IInv
<1>. SUFFICES ASSUME Init PROVE IInv
    OBVIOUS
<1>1. boundary \in 1..(Len(log) + 1) /\ todo \subseteq (1..Len(log)) \X (Nat \ {0})
    BY DEF Init
<1>2. TypeOK
    <2>1. pc \in Pcs
        BY DEF Init, Pcs
    <2>. QED
        BY <1>1, <2>1, FreshLocals DEF Init, TypeOK
<1>3. TodoOK /\ TurnOK /\ FreshOK /\ StartsAreDurable /\ NeverReplayed
    BY DEF Init, TodoOK, TurnOK, FreshOK, StartsAreDurable, NeverReplayed
<1>. QED
    BY <1>2, <1>3 DEF IInv

\* The steps that leave the loop.
LEMMA LeavingKeeps ==
    ASSUME IInv,
           \/ RoundsExhausted \/ StreamFatal \/ AddText \/ Interrupt
           \/ \E c \in CallIds : StreamDuplicate(c)
    PROVE  IInv'
<1>1. /\ runs \in 0..MaxRuns /\ faults \in 0..MaxFaults
      /\ compactions \in 0..MaxCompactions
      /\ Extension(log)
    BY CommittedExtends DEF IInv, TypeOK
<1>2. CASE RoundsExhausted
    BY <1>1, <1>2, CloseKeeps DEF RoundsExhausted
<1>3. CASE StreamFatal
    BY <1>1, <1>3, CloseKeeps DEF StreamFatal
<1>4. CASE AddText
    <2>1. Extension(Append(log, Plain("text")))
        BY PlainIsMessage, AppendExtends DEF Kinds, IInv, TypeOK
    <2>. QED
        BY <1>1, <1>4, <2>1, CloseKeeps DEF AddText
<1>5. CASE Interrupt
    <2>1. PICK l \in {log} \cup Committed : Close(l)
        BY <1>5 DEF Interrupt
    <2>2. Extension(l)
        BY <2>1, CommittedExtends DEF IInv
    <2>3. faults' \in 0..MaxFaults /\ UNCHANGED <<starts, runs, compactions>>
        BY <1>1, <1>5, BoundsAssumption DEF Interrupt
    <2>. QED
        BY <1>1, <2>1, <2>2, <2>3, CloseKeeps
<1>6. ASSUME NEW c \in CallIds, StreamDuplicate(c) PROVE IInv'
    BY <1>1, <1>6, CloseKeeps DEF StreamDuplicate
<1>. QED
    BY <1>2, <1>3, <1>4, <1>5, <1>6

\* The steps of a run outside its rounds: nothing is being executed there.
LEMMA OuterKeeps ==
    ASSUME IInv,
           \/ BeginRun \/ Repair \/ Opened \/ AddUser \/ EndRun
           \/ BeginManual \/ GiveUp \/ Crash
    PROVE  IInv'
<1>. USE DEF IInv
<1>1. /\ runs \in 0..MaxRuns /\ faults \in 0..MaxFaults
      /\ compactions \in 0..MaxCompactions
      /\ Len(log) \in Nat
    BY LenProperties DEF TypeOK
<1>2. CASE BeginRun
    <2>1. TypeOK' /\ TodoOK'
        <3>1. /\ Pending(log) \subseteq (1..Len(log)) \X (Nat \ {0})
              /\ \A a \in Pending(log) : a[2] \in DOMAIN log[a[1]].calls
            BY PendingIsTyped DEF TypeOK
        <3>2. runs' \in 0..MaxRuns
            BY <1>1, <1>2, BoundsAssumption DEF BeginRun
        <3>. QED
            BY <1>2, <3>1, <3>2 DEF BeginRun, turn, TypeOK, TodoOK, Pcs
    <2>2. TurnOK' /\ FreshOK' /\ StartsAreDurable' /\ NeverReplayed'
        BY <1>2 DEF BeginRun, turn, TurnOK, FreshOK, StartsAreDurable, NeverReplayed
    <2>. QED
        BY <2>1, <2>2
<1>3. CASE Repair
    <2>1. PICK a \in First : log' = Repaired(a) /\ todo' = todo \ {a}
        BY <1>3 DEF Repair
    <2>2. Extension(log')
        BY <2>1, RepairExtends
    <2>3. Len(log') \in Nat
        BY <2>2, LenProperties DEF Extension
    <2>4. TypeOK'
        BY <1>1, <1>3, <2>1, <2>2, <2>3 DEF Repair, turn, TypeOK, Extension
    <2>5. TodoOK'
        BY <1>1, <2>1, <2>2, <2>3 DEF TodoOK, TypeOK, Extension
    <2>6. TurnOK' /\ FreshOK'
        BY <1>3 DEF Repair, turn, TurnOK, FreshOK
    <2>7. StartsAreDurable' /\ NeverReplayed'
        BY <1>3, <2>2, StartsKept DEF Repair
    <2>. QED
        BY <2>4, <2>5, <2>6, <2>7
<1>4. CASE Opened
    <2>1. TypeOK' /\ TodoOK'
        BY <1>4 DEF Opened, turn, TypeOK, TodoOK, Pcs
    <2>2. TurnOK' /\ FreshOK' /\ StartsAreDurable' /\ NeverReplayed'
        BY <1>4 DEF Opened, turn, TurnOK, FreshOK, StartsAreDurable, NeverReplayed
    <2>. QED
        BY <2>1, <2>2
<1>5. CASE AddUser
    <2>1. Extension(log')
        BY <1>5, PlainIsMessage, AppendExtends DEF AddUser, Kinds, TypeOK
    <2>2. Len(log') \in Nat
        BY <2>1, LenProperties DEF Extension
    <2>3. TypeOK'
        BY <1>1, <1>5, <2>1, <2>2, BoundsAssumption DEF AddUser, TypeOK, Extension, Pcs
    <2>4. TodoOK'
        BY <1>1, <1>5, <2>1, <2>2 DEF AddUser, TodoOK, TypeOK, Extension
    <2>5. TurnOK' /\ FreshOK'
        BY <1>5 DEF AddUser, TurnOK, FreshOK
    <2>6. StartsAreDurable' /\ NeverReplayed'
        BY <1>5, <2>1, StartsKept DEF AddUser
    <2>. QED
        BY <2>3, <2>4, <2>5, <2>6
<1>6. CASE EndRun
    <2>1. TypeOK' /\ TodoOK'
        BY <1>6 DEF EndRun, turn, TypeOK, TodoOK, Pcs
    <2>2. TurnOK' /\ FreshOK' /\ StartsAreDurable' /\ NeverReplayed'
        BY <1>6 DEF EndRun, turn, TurnOK, FreshOK, StartsAreDurable, NeverReplayed
    <2>. QED
        BY <2>1, <2>2
<1>7. CASE BeginManual
    <2>1. TypeOK' /\ TodoOK'
        <3>1. runs' \in 0..MaxRuns
            BY <1>1, <1>7, BoundsAssumption DEF BeginManual
        <3>. QED
            BY <1>7, <3>1 DEF BeginManual, turn, TypeOK, TodoOK, Pcs
    <2>2. TurnOK' /\ FreshOK' /\ StartsAreDurable' /\ NeverReplayed'
        BY <1>7 DEF BeginManual, turn, TurnOK, FreshOK, StartsAreDurable, NeverReplayed
    <2>. QED
        BY <2>1, <2>2
<1>8. CASE GiveUp \/ Crash
    <2>1. Extension(log')
        <3>1. log' \in {log} \cup Committed
            BY <1>8 DEF GiveUp, Crash
        <3>. QED
            BY <3>1, CommittedExtends
    <2>2. Len(log') \in Nat
        BY <2>1, LenProperties DEF Extension
    <2>3. /\ pc' = "idle" /\ todo' = {} /\ faults' \in 0..MaxFaults
          /\ UNCHANGED <<boundary, starts, runs, compactions>>
        BY <1>1, <1>8, BoundsAssumption DEF GiveUp, Crash
    <2>4. UNCHANGED <<turn, request>> \/ Forget
        BY <1>8 DEF GiveUp, Crash
    <2>5. TypeOK'
        <3>1. CASE UNCHANGED <<turn, request>>
            BY <1>1, <2>1, <2>2, <2>3, <3>1 DEF turn, TypeOK, Extension, Pcs
        <3>2. CASE Forget
            <4>1. /\ round' = 0 /\ calls' = <<>> /\ failed' = FALSE /\ pos' = 1
                  /\ at' = 0 /\ outcome' = "none" /\ request' = <<>>
                BY <3>2 DEF Forget, EndRound
            <4>2. pc' \in Pcs /\ todo' \subseteq (1..Len(log')) \X (Nat \ {0})
                BY <2>3 DEF Pcs
            <4>3. boundary' \in 1..(Len(log') + 1)
                BY <1>1, <2>1, <2>2, <2>3 DEF TypeOK, Extension
            <4>. QED
                BY <2>1, <2>3, <4>1, <4>2, <4>3, FreshLocals DEF TypeOK, Extension
        <3>. QED
            BY <2>4, <3>1, <3>2
    <2>6. TodoOK' /\ FreshOK'
        BY <2>3 DEF TodoOK, FreshOK
    <2>7. TurnOK'
        BY <2>3, <2>4 DEF TurnOK, turn, Forget, EndRound
    <2>8. StartsAreDurable' /\ NeverReplayed'
        BY <2>1, <2>3, StartsKept
    <2>. QED
        BY <2>5, <2>6, <2>7, <2>8
<1>. QED
    BY <1>2, <1>3, <1>4, <1>5, <1>6, <1>7, <1>8

\* The steps between two rounds and within the provider's stream.
LEMMA StreamKeeps ==
    ASSUME IInv,
           \/ Compact \/ NoCompact \/ Generate \/ StreamError \/ Retry \/ StreamEnd
           \/ \E c \in CallIds : StreamCall(c)
    PROVE  IInv'
<1>. USE DEF IInv
<1>1. CASE Compact \/ NoCompact
    <2>1. TypeOK'
        BY <1>1 DEF Compact, NoCompact, turn, TypeOK, Pcs
    <2>2. TurnOK' /\ FreshOK'
        BY <1>1 DEF Compact, NoCompact, turn, TurnOK, FreshOK
    <2>3. TodoOK' /\ StartsAreDurable' /\ NeverReplayed'
        BY <1>1, LogUntouched DEF Compact, NoCompact
    <2>. QED
        BY <2>1, <2>2, <2>3
<1>2. CASE Generate
    <2>1. request' \in Seq(Message)
        <3>1. \A j \in boundary..Len(log) : log[j] \in Message
            BY ElementOfSeq DEF TypeOK
        <3>2. boundary \in Int /\ Len(log) \in Int
            BY LenProperties DEF TypeOK
        <3>. QED
            BY <1>2, <3>1, <3>2, SubSeqProperties DEF Generate, History
    <2>2. pc' \in Pcs
        BY <1>2 DEF Generate, Pcs
    <2>3. TypeOK'
        BY <1>2, <2>1, <2>2, FreshLocals DEF Generate, TypeOK
    <2>4. TurnOK' /\ FreshOK'
        BY <1>2 DEF Generate, TurnOK, FreshOK
    <2>5. TodoOK' /\ StartsAreDurable' /\ NeverReplayed'
        BY <1>2, LogUntouched DEF Generate
    <2>. QED
        BY <2>3, <2>4, <2>5
<1>3. CASE StreamError
    <2>1. TypeOK'
        BY <1>3 DEF StreamError, TypeOK
    <2>2. TurnOK' /\ FreshOK'
        BY <1>3 DEF StreamError, TurnOK, FreshOK
    <2>3. TodoOK' /\ StartsAreDurable' /\ NeverReplayed'
        BY <1>3, LogUntouched DEF StreamError
    <2>. QED
        BY <2>1, <2>2, <2>3
<1>4. CASE Retry
    <2>1. /\ pc' = "round" /\ round' = round + 1
          /\ calls' = <<>> /\ failed' = FALSE /\ pos' = 1
          /\ at' = 0 /\ outcome' = "none" /\ request' = <<>>
        BY <1>4 DEF Retry, EndRound
    <2>2. round' \in 0..MaxToolRounds
        BY <1>4, <2>1, BoundsAssumption DEF Retry, TurnOK, TypeOK
    <2>3. pc' \in Pcs
        BY <2>1 DEF Pcs
    <2>4. TypeOK'
        BY <1>4, <2>1, <2>2, <2>3, FreshLocals DEF Retry, TypeOK
    <2>5. TurnOK' /\ FreshOK'
        BY <2>1 DEF TurnOK, FreshOK
    <2>6. TodoOK' /\ StartsAreDurable' /\ NeverReplayed'
        BY <1>4, LogUntouched DEF Retry
    <2>. QED
        BY <2>4, <2>5, <2>6
<1>5. CASE StreamEnd
    <2>1. CASE Close(log)
        <3>1. Extension(log) /\ UNCHANGED <<starts, runs, faults, compactions>>
            BY <1>5, CommittedExtends DEF StreamEnd
        <3>. QED
            BY <2>1, <3>1, CloseKeeps DEF TypeOK
    <2>2. CASE ~ Close(log)
        <3>1. /\ pc = "streaming"
              /\ pc' \in {"block", "text"} /\ (pc' = "block" => calls # <<>>)
              /\ request' = <<>>
              /\ UNCHANGED <<log, boundary, turn, todo, starts, runs, faults, compactions>>
            BY <1>5, <2>2 DEF StreamEnd
        <3>2. pc' \in Pcs
            BY <3>1 DEF Pcs
        <3>3. TypeOK'
            BY <3>1, <3>2, FreshLocals DEF turn, TypeOK
        <3>4. TurnOK' /\ FreshOK'
            BY <3>1 DEF turn, TurnOK, FreshOK
        <3>5. TodoOK' /\ StartsAreDurable' /\ NeverReplayed'
            BY <3>1, LogUntouched
        <3>. QED
            BY <3>3, <3>4, <3>5
    <2>. QED
        BY <2>1, <2>2
<1>6. ASSUME NEW c \in CallIds, StreamCall(c) PROVE IInv'
    <2>1. /\ calls' \in Seq(CallIds) /\ Len(calls') = Len(calls) + 1
          /\ \A p \in 1..Len(calls) : calls'[p] = calls[p]
          /\ calls'[Len(calls) + 1] = c
        BY <1>6 DEF StreamCall, TypeOK
    <2>2. TypeOK'
        BY <1>6, <2>1 DEF StreamCall, TypeOK
    <2>3. \A p, q \in DOMAIN calls' : calls'[p] = calls'[q] => p = q
        <3>1. DOMAIN calls' = 1..(Len(calls) + 1) /\ DOMAIN calls = 1..Len(calls)
              /\ Len(calls) \in Nat
            BY <2>1, LenProperties DEF TypeOK
        <3>. QED
            BY <1>6, <2>1, <3>1 DEF StreamCall, Asked, TurnOK
    <2>4. TurnOK' /\ FreshOK'
        BY <1>6, <2>3 DEF StreamCall, TurnOK, FreshOK
    <2>5. TodoOK' /\ StartsAreDurable' /\ NeverReplayed'
        BY <1>6, LogUntouched DEF StreamCall
    <2>. QED
        BY <2>2, <2>4, <2>5
<1>. QED
    BY <1>1, <1>2, <1>3, <1>4, <1>5, <1>6

\* The two ways a compaction ends.
LEMMA CompactionKeeps ==
    ASSUME IInv, NEW k \in 0..Len(History), Replace(k) \/ Refuse(k)
    PROVE  IInv'
<1>. USE DEF IInv
<1>1. CASE Refuse(k)
    <2>1. CASE pc = "manual"
        <3>1. /\ pc' = "idle"
              /\ UNCHANGED <<log, boundary, turn, todo, request, starts, runs, faults, compactions>>
            BY <1>1, <2>1 DEF Refuse
        <3>2. pc' \in Pcs
            BY <3>1 DEF Pcs
        <3>3. TypeOK'
            BY <3>1, <3>2 DEF turn, TypeOK
        <3>4. TurnOK' /\ FreshOK'
            BY <3>1 DEF turn, TurnOK, FreshOK
        <3>5. TodoOK' /\ StartsAreDurable' /\ NeverReplayed'
            BY <3>1, LogUntouched
        <3>. QED
            BY <3>3, <3>4, <3>5
    <2>2. CASE pc # "manual"
        <3>1. /\ Close(log) /\ Extension(log)
              /\ UNCHANGED <<starts, runs, faults, compactions>>
            BY <1>1, <2>2, CommittedExtends DEF Refuse
        <3>. QED
            BY <3>1, CloseKeeps DEF TypeOK
    <2>. QED
        BY <2>1, <2>2
<1>2. CASE Replace(k)
    <2>1. /\ log' = log \o Copies(Replacement(k)) /\ boundary' = Len(log) + 1
          /\ pc \in {"compacting", "manual"}
          /\ pc' = IF pc = "manual" THEN "idle" ELSE "generate"
          /\ UNCHANGED <<turn, todo, request, starts, runs, faults>>
        BY <1>2 DEF Replace
    <2>2. Replacement(k) \in Seq(Message)
        <3>1. History \in Seq(Message)
            <4>1. \A j \in boundary..Len(log) : log[j] \in Message
                BY ElementOfSeq DEF TypeOK
            <4>2. boundary \in Int /\ Len(log) \in Int
                BY LenProperties DEF TypeOK
            <4>. QED
                BY <4>1, <4>2, SubSeqProperties DEF History
        <3>2. SubSeq(History, Len(History) - k + 1, Len(History)) \in Seq(Message)
            <4>1. Len(History) \in Nat
                BY <3>1, LenProperties
            <4>2. \A j \in (Len(History) - k + 1)..Len(History) : History[j] \in Message
                BY <3>1, <4>1, ElementOfSeq
            <4>. QED
                BY <4>1, <4>2, SubSeqProperties
        <3>3. <<Plain("summary")>> \in Seq(Message)
            BY PlainIsMessage DEF Kinds
        <3>. QED
            BY <3>2, <3>3, ConcatProperties DEF Replacement
    <2>3. Copies(Replacement(k)) \in Seq(Message)
        <3>. DEFINE h == Replacement(k)
        <3>1. Len(h) \in Nat /\ \A j \in 1..Len(h) : h[j] \in Message
            BY <2>2, LenProperties, ElementOfSeq
        <3>2. \A j \in 1..Len(h) : [h[j] EXCEPT !.copy = TRUE] \in Message
            BY <3>1 DEF Message
        <3>. HIDE DEF h
        <3>3. [j \in 1..Len(h) |-> [h[j] EXCEPT !.copy = TRUE]] \in Seq(Message)
            BY <3>1, <3>2
        <3>. QED
            BY <3>3 DEF Copies, h
    <2>4. Extension(log')
        <3>1. /\ log' \in Seq(Message)
              /\ Len(log') = Len(log) + Len(Copies(Replacement(k)))
              /\ \A j \in 1..Len(log) : log'[j] = log[j]
              /\ Len(log) \in Nat /\ Len(Copies(Replacement(k))) \in Nat
            BY <2>1, <2>3, ConcatProperties, LenProperties DEF TypeOK
        <3>. QED
            BY <3>1 DEF Extension
    <2>5. Len(log) \in Nat /\ Len(log') \in Nat /\ Len(log) <= Len(log')
        BY <2>4, LenProperties DEF TypeOK, Extension
    <2>6. boundary' \in 1..(Len(log') + 1) /\ compactions' \in 0..MaxCompactions
        BY <1>2, <2>1, <2>5, BoundsAssumption DEF Replace, TypeOK
    <2>7. pc' \in Pcs
        BY <2>1 DEF Pcs
    <2>8. todo' \subseteq (1..Len(log')) \X (Nat \ {0})
        BY <2>1, <2>5 DEF TypeOK
    <2>9. TypeOK'
        BY <2>1, <2>4, <2>6, <2>7, <2>8 DEF TypeOK, turn, Extension
    <2>10. TodoOK'
        BY <2>1, <2>4, <2>5 DEF TodoOK, TypeOK, Extension
    <2>11. TurnOK' /\ FreshOK'
        BY <2>1 DEF turn, TurnOK, FreshOK
    <2>12. StartsAreDurable' /\ NeverReplayed'
        BY <2>1, <2>4, StartsKept
    <2>. QED
        BY <2>9, <2>10, <2>11, <2>12
<1>. QED
    BY <1>1, <1>2

\* The steps that execute a block.
LEMMA ExecutionKeeps ==
    ASSUME IInv,
           \/ AddBlock \/ StartTool \/ AddResult
           \/ \E o \in {"value", "missing"} : ToolReturns(o)
    PROVE  IInv'
<1>. USE DEF IInv
<1>1. Len(log) \in Nat /\ DOMAIN log = 1..Len(log) /\ Len(calls) \in Nat
      /\ DOMAIN calls = 1..Len(calls) /\ Len(starts) \in Nat /\ DOMAIN starts = 1..Len(starts)
    BY LenProperties DEF TypeOK
<1>2. CASE AddBlock
    <2>1. /\ pc = "block" /\ pc' = "tool" /\ pos' = 1 /\ at' = Len(log) + 1
          /\ log' = Append(log, Block(calls))
          /\ UNCHANGED <<boundary, round, calls, failed, outcome, todo, request, starts,
                         runs, faults, compactions>>
        BY <1>2 DEF AddBlock
    <2>2. Block(calls) \in Message /\ Block(calls).calls = calls
        BY BlockIsMessage DEF TypeOK
    <2>3. Extension(log') /\ Len(log') = Len(log) + 1 /\ log'[Len(log) + 1] = Block(calls)
        BY <2>1, <2>2, AppendExtends DEF TypeOK
    <2>4. DOMAIN log' = 1..(Len(log) + 1)
        BY <2>3, LenProperties DEF Extension
    <2>5. TypeOK'
        BY <1>1, <2>1, <2>3 DEF TypeOK, Extension, Pcs
    <2>6. TodoOK'
        BY <1>1, <2>1, <2>3 DEF TodoOK, TypeOK, Extension
    <2>7. TurnOK'
        <3>1. pos' \in DOMAIN calls'
            <4>1. calls # <<>> /\ calls \in Seq(CallIds)
                BY <2>1 DEF TurnOK, TypeOK
            <4>2. Len(calls) # 0
                BY <4>1, EmptySeq
            <4>. QED
                BY <1>1, <2>1, <4>2
        <3>2. at' \in DOMAIN log' /\ log'[at'].calls = calls'
            BY <1>1, <2>1, <2>2, <2>3, <2>4
        <3>. QED
            BY <2>1, <3>1, <3>2 DEF TurnOK
    <2>8. FreshOK'
        \* a row that is new has no starts yet
        <3>1. \A n \in DOMAIN starts : starts[n][1] \in 1..Len(log)
            BY <1>1 DEF StartsAreDurable
        <3>2. \A n \in DOMAIN starts' : starts'[n][1] # at'
            BY <1>1, <2>1, <3>1
        <3>. QED
            BY <3>2 DEF FreshOK
    <2>9. StartsAreDurable' /\ NeverReplayed'
        BY <2>1, <2>3, StartsKept
    <2>. QED
        BY <2>5, <2>6, <2>7, <2>8, <2>9
<1>3. CASE StartTool
    <2>1. /\ pc = "tool" /\ pc' = "executing" /\ starts' = Append(starts, <<at, calls[pos]>>)
          /\ UNCHANGED <<log, boundary, turn, todo, request, runs, faults, compactions>>
        BY <1>3 DEF StartTool
    <2>2. /\ pos \in DOMAIN calls /\ at \in DOMAIN log /\ log[at].calls = calls
        BY <2>1 DEF TurnOK
    <2>3. calls[pos] \in CallIds /\ at \in Nat
        BY <1>1, <2>2, ElementOfSeq DEF TypeOK
    <2>4. /\ starts' \in Seq(Nat \X CallIds)
          /\ DOMAIN starts' = 1..(Len(starts) + 1)
          /\ \A n \in 1..Len(starts) : starts'[n] = starts[n]
          /\ starts'[Len(starts) + 1] = <<at, calls[pos]>>
        BY <1>1, <2>1, <2>3 DEF TypeOK
    <2>5. TypeOK'
        BY <2>1, <2>4 DEF TypeOK, turn, Pcs
    <2>6. TodoOK' /\ TurnOK'
        BY <2>1, <2>2 DEF TodoOK, TurnOK, turn
    <2>7. FreshOK'
        <3>1. ASSUME NEW n \in DOMAIN starts', starts'[n][1] = at'
              PROVE  \E p \in DOMAIN calls : starts'[n][2] = calls[p] /\ p <= pos
            <4>1. CASE n = Len(starts) + 1
                BY <1>1, <2>2, <2>4, <4>1
            <4>2. CASE n \in DOMAIN starts
                BY <1>1, <2>1, <2>4, <3>1, <4>2 DEF FreshOK, turn
            <4>. QED
                BY <1>1, <2>4, <3>1, <4>1, <4>2
        <3>. QED
            BY <2>1, <3>1 DEF FreshOK, turn
    <2>8. StartsAreDurable'
        <3>1. ASSUME NEW n \in DOMAIN starts'
              PROVE  /\ starts'[n][1] \in DOMAIN log
                     /\ \E p \in DOMAIN log[starts'[n][1]].calls :
                            log[starts'[n][1]].calls[p] = starts'[n][2]
            <4>1. CASE n = Len(starts) + 1
                BY <2>2, <2>4, <4>1
            <4>2. CASE n \in DOMAIN starts
                BY <1>1, <2>4, <4>2 DEF StartsAreDurable
            <4>. QED
                BY <1>1, <2>4, <3>1, <4>1, <4>2
        <3>. QED
            BY <2>1, <3>1 DEF StartsAreDurable
    <2>9. NeverReplayed'
        \* the current call differs from all those started before it
        <3>1. \A n \in DOMAIN starts : starts[n] # <<at, calls[pos]>>
            <4>. SUFFICES ASSUME NEW n \in DOMAIN starts, starts[n] = <<at, calls[pos]>>
                          PROVE  FALSE
                OBVIOUS
            <4>1. starts[n][1] = at /\ starts[n][2] = calls[pos]
                OBVIOUS
            <4>2. PICK p \in DOMAIN calls : starts[n][2] = calls[p] /\ p < pos
                BY <2>1, <4>1 DEF FreshOK
            <4>3. p = pos
                BY <2>2, <4>1, <4>2 DEF TurnOK
            <4>. QED
                BY <1>1, <2>2, <4>2, <4>3
        <3>2. ASSUME NEW m \in DOMAIN starts', NEW n \in DOMAIN starts',
                     starts'[m] = starts'[n]
              PROVE  m = n
            <4>1. CASE m \in DOMAIN starts /\ n \in DOMAIN starts
                <5>1. starts[m] = starts[n]
                    BY <1>1, <2>4, <3>2, <4>1
                <5>. QED
                    BY <4>1, <5>1 DEF NeverReplayed
            <4>2. CASE m \notin DOMAIN starts /\ n \in DOMAIN starts
                <5>1. m = Len(starts) + 1 /\ starts'[n] = starts[n]
                    BY <1>1, <2>4, <3>2, <4>2
                <5>. QED
                    BY <2>4, <3>1, <3>2, <4>2, <5>1
            <4>3. CASE m \in DOMAIN starts /\ n \notin DOMAIN starts
                <5>1. n = Len(starts) + 1 /\ starts'[m] = starts[m]
                    BY <1>1, <2>4, <3>2, <4>3
                <5>. QED
                    BY <2>4, <3>1, <3>2, <4>3, <5>1
            <4>4. CASE m \notin DOMAIN starts /\ n \notin DOMAIN starts
                BY <1>1, <2>4, <3>2, <4>4
            <4>. QED
                BY <4>1, <4>2, <4>3, <4>4
        <3>. QED
            BY <3>2 DEF NeverReplayed
    <2>. QED
        BY <2>5, <2>6, <2>7, <2>8, <2>9
<1>4. ASSUME NEW o \in {"value", "missing"}, ToolReturns(o) PROVE IInv'
    <2>1. TypeOK'
        BY <1>4 DEF ToolReturns, TypeOK, Pcs, Outcomes
    <2>2. TurnOK' /\ FreshOK'
        BY <1>4 DEF ToolReturns, TurnOK, FreshOK
    <2>3. TodoOK' /\ StartsAreDurable' /\ NeverReplayed'
        BY <1>4, LogUntouched DEF ToolReturns
    <2>. QED
        BY <2>1, <2>2, <2>3
<1>5. CASE AddResult
    <2>. DEFINE l == Append(log, Result(calls[pos], outcome))
    <2>1. /\ pc = "result" /\ UNCHANGED <<starts, runs, faults, compactions>>
          /\ pos \in DOMAIN calls /\ at \in DOMAIN log /\ log[at].calls = calls
        BY <1>5 DEF AddResult, TurnOK
    <2>2. calls[pos] \in CallIds
        BY <1>1, <2>1, ElementOfSeq DEF TypeOK
    <2>3. Extension(l)
        BY <2>2, ResultIsMessage, AppendExtends DEF TypeOK
    <2>. HIDE DEF l
    <2>4. CASE Close(l)
        BY <2>1, <2>3, <2>4, CloseKeeps DEF TypeOK
    <2>5. CASE ~ Close(l)
        <3>1. /\ log' = l
              /\ IF pos < Len(calls)
                   THEN /\ pc' = "tool"
                        /\ pos' = pos + 1
                        /\ UNCHANGED <<round, calls, failed, at, outcome, request>>
                   ELSE /\ pc' = "round"
                        /\ round' = round + 1
                        /\ EndRound
              /\ UNCHANGED <<boundary, todo>>
            BY <1>5, <2>5 DEF AddResult, l
        <3>2. Len(log') \in Nat /\ DOMAIN log' = 1..Len(log')
            BY <2>3, <3>1, LenProperties DEF Extension
        <3>3. boundary' \in 1..(Len(log') + 1) /\ todo' \subseteq (1..Len(log')) \X (Nat \ {0})
            BY <1>1, <2>3, <3>1, <3>2 DEF TypeOK, Extension
        <3>4. TodoOK'
            BY <1>1, <2>3, <3>1, <3>2 DEF TodoOK, TypeOK, Extension
        <3>5. StartsAreDurable' /\ NeverReplayed'
            BY <2>1, <2>3, <3>1, StartsKept
        <3>6. CASE pos < Len(calls)
            <4>1. TypeOK'
                BY <2>1, <2>3, <3>1, <3>3, <3>6 DEF TypeOK, Extension, Pcs
            <4>2. TurnOK'
                BY <1>1, <2>1, <2>3, <3>1, <3>2, <3>6 DEF TurnOK, Extension
            <4>3. FreshOK'
                BY <1>1, <2>1, <3>1, <3>6 DEF FreshOK
            <4>. QED
                BY <3>4, <3>5, <4>1, <4>2, <4>3
        <3>7. CASE ~ (pos < Len(calls))
            <4>1. /\ pc' = "round" /\ round' = round + 1
                  /\ calls' = <<>> /\ failed' = FALSE /\ pos' = 1
                  /\ at' = 0 /\ outcome' = "none" /\ request' = <<>>
                BY <3>1, <3>7 DEF EndRound
            <4>2. round' \in 0..MaxToolRounds
                BY <2>1, <4>1, BoundsAssumption DEF TurnOK, TypeOK
            <4>3. pc' \in Pcs
                BY <4>1 DEF Pcs
            <4>4. TypeOK'
                BY <2>1, <2>3, <3>1, <3>3, <4>1, <4>2, <4>3, FreshLocals DEF TypeOK, Extension
            <4>5. TurnOK' /\ FreshOK'
                BY <4>1 DEF TurnOK, FreshOK
            <4>. QED
                BY <3>4, <3>5, <4>4, <4>5
        <3>. QED
            BY <3>6, <3>7
    <2>. QED
        BY <2>4, <2>5
<1>. QED
    BY <1>2, <1>3, <1>4, <1>5

-----------------------------------------------------------------------------
(* The theorems. *)

\* The invariant is inductive, whatever the run and its faults do.
THEOREM Invariance == Spec => []IInv
<1>1. ASSUME IInv, [Next]_vars PROVE IInv'
    <2>1. CASE UNCHANGED vars
        BY <1>1, <2>1 DEF vars, turn, IInv, TypeOK, TodoOK, TurnOK, FreshOK,
                          StartsAreDurable, NeverReplayed
    <2>2. CASE Next
        BY <1>1, <2>2, LeavingKeeps, OuterKeeps, StreamKeeps, CompactionKeeps,
           ExecutionKeeps DEF Next, Steps
    <2>. QED
        BY <1>1, <2>1, <2>2
<1>. QED
    BY InitInvariant, <1>1, PTL DEF Spec

\* Every variable keeps its type: agent.py's locals, the history and the
\* boundary that selects the active part of it.
THEOREM TypeCorrect == Spec => []TypeOK
<1>1. IInv => TypeOK
    BY DEF IInv
<1>. QED
    BY <1>1, Invariance, PTL

\* However often runs are cancelled, fail, crash and are started again, the
\* tool of a call is started at most once: a repair never replays.
THEOREM ToolsStartOnce == Spec => []NeverReplayed
<1>1. IInv => NeverReplayed
    BY DEF IInv
<1>. QED
    BY <1>1, Invariance, PTL

\* No tool is started for a call the history does not hold, so an outcome that
\* is lost is known to be lost.
THEOREM StartsAreOnRecord == Spec => []StartsAreDurable
<1>1. IInv => StartsAreDurable
    BY DEF IInv
<1>. QED
    BY <1>1, Invariance, PTL

-----------------------------------------------------------------------------
(* The shape of the history. *)

\* A row with calls is a response's, which names no call twice.
Clean(m) ==
    /\ m.calls # <<>> => m.kind = "calls"
    /\ \A p, q \in DOMAIN m.calls : m.calls[p] = m.calls[q] => p = q

\* From row b on, the rows behind a block are its answers, in order, as far as
\* there are rows, and there is no other answer.
InPlace(l, b) ==
    \A i \in b..Len(l) : \A p \in DOMAIN l[i].calls :
        i + p <= Len(l) => l[i + p].kind = "result" /\ l[i + p].id = l[i].calls[p]
AllOwned(l, b) ==
    \A j \in b..Len(l) : l[j].kind = "result" =>
        \E i \in b..(j - 1) : j - i \in DOMAIN l[i].calls
Shape(l, b) == (\A i \in 1..Len(l) : Clean(l[i])) /\ InPlace(l, b) /\ AllOwned(l, b)

\* The calls that are still to be answered.
Missing(l, b) ==
    UNION {{<<i, p>> : p \in {p \in DOMAIN l[i].calls : i + p > Len(l)}} : i \in b..Len(l)}

\* Where a run has nothing to answer, and where it answers the block at `at'.
Settled == {"user", "round", "compacting", "generate", "streaming", "block", "text"}
Answering == {"tool", "executing", "result"}

HInv ==
    /\ Shape(log, boundary)
    /\ pc \in {"opening", "closing"} => todo = Missing(log, boundary)
    /\ pc \in Settled => Missing(log, boundary) = {}
    /\ pc \in Answering => boundary <= at /\ at + pos = Len(log) + 1 /\ ~ log[at].copy
    /\ pc \in {"executing", "result"} => \E n \in DOMAIN starts : starts[n] = <<at, calls[pos]>>
    /\ pc = "result" => outcome \in {"value", "missing"}
    /\ pc \in {"round", "compacting", "generate", "streaming"} => boundary <= Len(log)
    /\ pc = "streaming" => request = History

LEMMA Rows ==
    ASSUME NEW l \in Seq(Message)
    PROVE  /\ Len(l) \in Nat /\ DOMAIN l = 1..Len(l)
           /\ \A i \in 1..Len(l) :
                 /\ l[i] \in Message /\ l[i].calls \in Seq(CallIds)
                 /\ Len(l[i].calls) \in Nat /\ DOMAIN l[i].calls = 1..Len(l[i].calls)
<1>1. \A i \in 1..Len(l) : l[i] \in Message
    BY ElementOfSeq, LenProperties
<1>2. \A i \in 1..Len(l) : l[i].calls \in Seq(CallIds)
    BY <1>1 DEF Message
<1>. QED
    BY <1>1, <1>2, LenProperties

LEMMA MissingIs ==
    ASSUME NEW l, NEW b
    PROVE  /\ \A i \in b..Len(l) : \A p \in DOMAIN l[i].calls :
                 i + p > Len(l) => <<i, p>> \in Missing(l, b)
           /\ \A a \in Missing(l, b) :
                 /\ a = <<a[1], a[2]>> /\ a[1] \in b..Len(l) /\ a[2] \in DOMAIN l[a[1]].calls
                 /\ a[1] + a[2] > Len(l)
<1>1. ASSUME NEW i \in b..Len(l), NEW p \in DOMAIN l[i].calls, i + p > Len(l)
      PROVE  <<i, p>> \in Missing(l, b)
    BY <1>1 DEF Missing
<1>2. ASSUME NEW a \in Missing(l, b)
      PROVE  /\ a = <<a[1], a[2]>> /\ a[1] \in b..Len(l) /\ a[2] \in DOMAIN l[a[1]].calls
             /\ a[1] + a[2] > Len(l)
    <2>1. PICK i \in b..Len(l) : a \in {<<i, p>> : p \in {p \in DOMAIN l[i].calls : i + p > Len(l)}}
        BY DEF Missing
    <2>2. PICK p \in DOMAIN l[i].calls : a = <<i, p>> /\ i + p > Len(l)
        BY <2>1
    <2>. QED
        BY <2>2
<1>. QED
    BY <1>1, <1>2

\* Where a block has a call, its row is no result; where it has an answer due,
\* the row there is one.
LEMMA BlockIsNoResult ==
    ASSUME NEW l \in Seq(Message), NEW b, Shape(l, b), NEW i \in 1..Len(l), NEW p \in DOMAIN l[i].calls
    PROVE  l[i].kind = "calls"
<1>1. l[i].calls # <<>>
    BY Rows
<1>. QED
    BY <1>1 DEF Shape, Clean

\* Of two blocks with calls still to be answered there is only one.
LEMMA OneOpen ==
    ASSUME NEW l \in Seq(Message), NEW b \in Nat \ {0}, Shape(l, b),
           NEW i \in b..Len(l), NEW j \in b..Len(l),
           NEW p \in DOMAIN l[i].calls, NEW q \in DOMAIN l[j].calls,
           i + p > Len(l), j + q > Len(l)
    PROVE  i = j
<1>1. ASSUME NEW x \in b..Len(l), NEW y \in b..Len(l),
             NEW c \in DOMAIN l[x].calls, NEW d \in DOMAIN l[y].calls, x + c > Len(l), x < y
      PROVE  FALSE
    <2>0. /\ Len(l) \in Nat /\ x \in 1..Len(l) /\ y \in 1..Len(l)
          /\ Len(l[x].calls) \in Nat /\ DOMAIN l[x].calls = 1..Len(l[x].calls)
        BY Rows
    <2>00. c \in 1..Len(l[x].calls)
        BY <2>0
    <2>01. y - x \in 1..Len(l[x].calls) /\ x + (y - x) = y
        BY <1>1, <2>0, <2>00
    <2>1. y - x \in DOMAIN l[x].calls /\ x + (y - x) <= Len(l)
        BY <2>0, <2>01
    <2>2. l[x + (y - x)].kind = "result"
        BY <2>1 DEF Shape, InPlace
    <2>3. l[y].kind = "result"
        BY <2>2, Rows
    <2>4. l[y].kind = "calls"
        BY BlockIsNoResult, Rows
    <2>. QED
        BY <2>3, <2>4
<1>2. i < j \/ j < i \/ i = j
    BY Rows
<1>3. CASE i < j
    BY <1>1, <1>3
<1>4. CASE j < i
    BY <1>1, <1>4
<1>. QED
    BY <1>2, <1>3, <1>4

\* An answer that is due comes next to none but its own block.
LEMMA OnlyItsOwn ==
    ASSUME NEW l \in Seq(Message), NEW b \in Nat \ {0}, Shape(l, b),
           NEW i \in b..Len(l), NEW p \in DOMAIN l[i].calls, i + p = Len(l) + 1,
           NEW j \in b..Len(l), NEW q \in DOMAIN l[j].calls, j + q = Len(l) + 1
    PROVE  i = j /\ p = q
<1>1. Len(l) \in Nat /\ p \in Nat /\ q \in Nat
    BY Rows
<1>2. i = j
    BY <1>1, OneOpen
<1>. QED
    BY <1>1, <1>2

\* What _repair_tool_calls finds pending is exactly what is missing.
LEMMA PendingIsMissing ==
    ASSUME NEW l \in Seq(Message), boundary \in Nat \ {0}, Shape(l, boundary)
    PROVE  Pending(l) = Missing(l, boundary)
<1>. DEFINE b == boundary
<1>1. ASSUME NEW i \in b..Len(l), NEW p \in DOMAIN l[i].calls, i + p <= Len(l)
      PROVE  ~ Unanswered(l, i, p)
    <2>1. l[i + p].kind = "result" /\ l[i + p].id = l[i].calls[p]
        BY <1>1 DEF Shape, InPlace
    <2>2. i + p \in i..Len(l)
        BY <1>1, Rows
    <2>. QED
        BY <2>1, <2>2 DEF Unanswered
<1>2. ASSUME NEW i \in b..Len(l), NEW p \in DOMAIN l[i].calls, i + p > Len(l)
      PROVE  Unanswered(l, i, p)
    <2>. SUFFICES ASSUME NEW j \in i..Len(l), l[j].kind = "result", l[j].id = l[i].calls[p]
                  PROVE  FALSE
        BY DEF Unanswered
    <2>1. j # i
        BY BlockIsNoResult, Rows
    <2>2. j - i \in DOMAIN l[i].calls /\ j - i < p /\ i + (j - i) <= Len(l) /\ i + (j - i) = j
        BY <1>2, <2>1, Rows
    <2>3. l[j].id = l[i].calls[j - i]
        BY <2>2 DEF Shape, InPlace
    <2>4. Clean(l[i])
        BY Rows DEF Shape
    <2>5. l[i].calls[j - i] = l[i].calls[p]
        BY <2>3
    <2>6. j - i = p
        BY <2>2, <2>4, <2>5 DEF Clean
    <2>. QED
        BY <2>2, <2>6
<1>3. ASSUME NEW a \in Pending(l) PROVE a \in Missing(l, b)
    <2>1. PICK i \in b..Len(l) : a \in {<<i, p>> : p \in DOMAIN l[i].calls}
        BY DEF Pending, Positions
    <2>2. PICK p \in DOMAIN l[i].calls : a = <<i, p>>
        BY <2>1
    <2>3. Unanswered(l, i, p)
        BY <2>2 DEF Pending
    <2>4. ~ (i + p <= Len(l))
        BY <1>1, <2>3
    <2>. QED
        BY <2>2, <2>4, MissingIs, Rows
<1>4. ASSUME NEW a \in Missing(l, b) PROVE a \in Pending(l)
    <2>0. PICK i \in b..Len(l) : a = <<i, a[2]>> /\ a[2] \in DOMAIN l[i].calls /\ i + a[2] > Len(l)
        BY MissingIs
    <2>1. PICK p \in DOMAIN l[i].calls : a = <<i, p>> /\ i + p > Len(l)
        BY <2>0
    <2>2. a \in Positions(l) /\ Unanswered(l, a[1], a[2])
        BY <1>2, <2>1 DEF Positions
    <2>3. ASSUME NEW c \in Positions(l), Unanswered(l, c[1], c[2]), CallAt(l, c) = CallAt(l, a)
          PROVE  ~ Earlier(c, a)
        <3>1. PICK j \in b..Len(l) : c \in {<<j, q>> : q \in DOMAIN l[j].calls}
            BY DEF Positions
        <3>2. PICK q \in DOMAIN l[j].calls : c = <<j, q>>
            BY <3>1
        <3>3. Unanswered(l, j, q)
            BY <2>3, <3>2
        <3>4. j + q > Len(l)
            BY <1>1, <3>3, Rows
        <3>5. i = j
            BY <2>1, <3>4, OneOpen
        <3>6. l[i].calls[q] = l[i].calls[p]
            BY <2>1, <2>3, <3>2, <3>5 DEF CallAt
        <3>7. Clean(l[i]) /\ q \in DOMAIN l[i].calls
            BY <3>5, Rows DEF Shape
        <3>8. p = q
            BY <3>6, <3>7 DEF Clean
        <3>. QED
            BY <2>1, <3>2, <3>5, <3>8, Rows DEF Earlier
    <2>. QED
        BY <2>2, <2>3 DEF Pending
<1>. QED
    BY <1>3, <1>4

LEMMA Appended ==
    ASSUME NEW l \in Seq(Message), NEW m \in Message
    PROVE  /\ Append(l, m) \in Seq(Message) /\ Len(Append(l, m)) = Len(l) + 1
           /\ \A i \in 1..Len(l) : Append(l, m)[i] = l[i]
           /\ Append(l, m)[Len(l) + 1] = m
           /\ Len(l) \in Nat
BY LenProperties

\* A row that is no answer may only come where none is due.
LEMMA OtherAppended ==
    ASSUME NEW l \in Seq(Message), NEW b \in Nat \ {0}, Shape(l, b), Missing(l, b) = {},
           NEW m \in Message, Clean(m), m.kind # "result"
    PROVE  Shape(Append(l, m), b) /\ (m.calls = <<>> => Missing(Append(l, m), b) = {})
<1>. DEFINE k == Append(l, m)
<1>1. /\ k \in Seq(Message) /\ Len(k) = Len(l) + 1 /\ Len(l) \in Nat
      /\ \A i \in 1..Len(l) : k[i] = l[i]
      /\ k[Len(l) + 1] = m
    BY Appended
<1>. HIDE DEF k
<1>2. \A i \in 1..Len(k) : Clean(k[i])
    BY <1>1 DEF Shape
<1>3. ASSUME NEW i \in b..Len(k), NEW p \in DOMAIN k[i].calls, i # Len(k)
      PROVE  i \in b..Len(l) /\ k[i] = l[i] /\ p \in DOMAIN l[i].calls /\ p \in Nat \ {0} /\ i + p <= Len(l)
    <2>1. i \in b..Len(l) /\ i \in 1..Len(l) /\ k[i] = l[i]
        BY <1>1, <1>3
    <2>2. p \in Nat \ {0} /\ p \in DOMAIN l[i].calls
        BY <2>1, Rows
    <2>3. ~ (i + p > Len(l))
        BY <2>1, <2>2, MissingIs
    <2>4. i + p <= Len(l)
        BY <1>1, <2>1, <2>2, <2>3
    <2>. QED
        BY <2>1, <2>2, <2>4
<1>4. ASSUME NEW p \in DOMAIN k[Len(k)].calls PROVE p \in Nat \ {0}
    BY <1>1, Rows
<1>5. InPlace(k, b)
    <2>. SUFFICES ASSUME NEW i \in b..Len(k), NEW p \in DOMAIN k[i].calls, i + p <= Len(k)
                  PROVE  k[i + p].kind = "result" /\ k[i + p].id = k[i].calls[p]
        BY DEF InPlace
    <2>1. i # Len(k)
        BY <1>1, <1>4
    <2>2. i \in b..Len(l) /\ k[i] = l[i] /\ p \in DOMAIN l[i].calls /\ p \in Nat \ {0} /\ i + p <= Len(l)
        BY <1>3, <2>1
    <2>3. l[i + p].kind = "result" /\ l[i + p].id = l[i].calls[p]
        BY <2>2 DEF Shape, InPlace
    <2>. QED
        BY <1>1, <2>2, <2>3
<1>6. AllOwned(k, b)
    <2>. SUFFICES ASSUME NEW j \in b..Len(k), k[j].kind = "result"
                  PROVE  \E i \in b..(j - 1) : j - i \in DOMAIN k[i].calls
        BY DEF AllOwned
    <2>1. j \in b..Len(l) /\ l[j].kind = "result"
        BY <1>1
    <2>2. PICK i \in b..(j - 1) : j - i \in DOMAIN l[i].calls
        BY <2>1 DEF Shape, AllOwned
    <2>3. k[i] = l[i]
        BY <1>1, <2>1
    <2>. QED
        BY <2>2, <2>3
<1>7. ASSUME m.calls = <<>>, NEW a \in Missing(k, b) PROVE FALSE
    <2>1. a[1] \in b..Len(k) /\ a[2] \in DOMAIN k[a[1]].calls /\ a[1] + a[2] > Len(k)
        BY MissingIs
    <2>2. a[1] # Len(k)
        BY <1>1, <1>7, <2>1
    <2>3. a[1] + a[2] <= Len(l) /\ a[1] \in Nat /\ a[2] \in Nat
        BY <1>1, <1>3, <2>1, <2>2
    <2>. QED
        BY <1>1, <2>1, <2>3
<1>. QED
    BY <1>2, <1>5, <1>6, <1>7 DEF Shape, k

\* An answer may only come next, and leaves the calls behind it missing.
LEMMA AnswerAppended ==
    ASSUME NEW l \in Seq(Message), NEW b \in Nat \ {0}, Shape(l, b),
           NEW i \in b..Len(l), NEW p \in DOMAIN l[i].calls, i + p = Len(l) + 1,
           NEW m \in Message, m.kind = "result", m.id = l[i].calls[p], m.calls = <<>>
    PROVE  Shape(Append(l, m), b) /\ Missing(Append(l, m), b) = Missing(l, b) \ {<<i, p>>}
<1>. DEFINE k == Append(l, m)
<1>1. /\ k \in Seq(Message) /\ Len(k) = Len(l) + 1 /\ Len(l) \in Nat
      /\ \A x \in 1..Len(l) : k[x] = l[x]
      /\ k[Len(l) + 1] = m
    BY Appended
<1>. HIDE DEF k
<1>0. i \in 1..Len(l) /\ p \in Nat \ {0}
    BY Rows
<1>2. \A x \in 1..Len(k) : Clean(k[x])
    <2>1. Clean(m)
        BY DEF Clean
    <2>. QED
        BY <1>1, <2>1 DEF Shape
<1>3. ASSUME NEW x \in b..Len(k), NEW c \in DOMAIN k[x].calls
      PROVE  x \in b..Len(l) /\ k[x] = l[x] /\ c \in DOMAIN l[x].calls /\ c \in Nat \ {0}
    <2>1. x # Len(k)
        BY <1>1, <1>3
    <2>2. x \in b..Len(l) /\ x \in 1..Len(l) /\ k[x] = l[x]
        BY <1>1, <2>1
    <2>. QED
        BY <2>2, Rows
<1>5. InPlace(k, b)
    <2>. SUFFICES ASSUME NEW x \in b..Len(k), NEW c \in DOMAIN k[x].calls, x + c <= Len(k)
                  PROVE  k[x + c].kind = "result" /\ k[x + c].id = k[x].calls[c]
        BY DEF InPlace
    <2>1. x \in b..Len(l) /\ k[x] = l[x] /\ c \in DOMAIN l[x].calls /\ c \in Nat \ {0}
        BY <1>3
    <2>2. CASE x + c <= Len(l)
        <3>1. l[x + c].kind = "result" /\ l[x + c].id = l[x].calls[c]
            BY <2>1, <2>2 DEF Shape, InPlace
        <3>. QED
            BY <1>1, <2>1, <2>2, <3>1
    <2>3. CASE x + c = Len(l) + 1
        <3>1. x = i /\ c = p
            BY <2>1, <2>3, OnlyItsOwn
        <3>. QED
            BY <1>1, <2>1, <2>3, <3>1
    <2>. QED
        BY <1>1, <2>1, <2>2, <2>3
<1>6. AllOwned(k, b)
    <2>. SUFFICES ASSUME NEW j \in b..Len(k), k[j].kind = "result"
                  PROVE  \E x \in b..(j - 1) : j - x \in DOMAIN k[x].calls
        BY DEF AllOwned
    <2>1. CASE j = Len(k)
        <3>1. i \in b..(j - 1) /\ j - i = p /\ k[i] = l[i]
            BY <1>0, <1>1, <2>1
        <3>. QED
            BY <3>1
    <2>2. CASE j # Len(k)
        <3>1. j \in b..Len(l) /\ l[j].kind = "result"
            BY <1>1, <2>2
        <3>2. PICK x \in b..(j - 1) : j - x \in DOMAIN l[x].calls
            BY <3>1 DEF Shape, AllOwned
        <3>3. k[x] = l[x]
            BY <1>1, <3>1
        <3>. QED
            BY <3>2, <3>3
    <2>. QED
        BY <2>1, <2>2
<1>7. ASSUME NEW a \in Missing(k, b) PROVE a \in Missing(l, b) \ {<<i, p>>}
    <2>1. a = <<a[1], a[2]>> /\ a[1] \in b..Len(k) /\ a[2] \in DOMAIN k[a[1]].calls /\ a[1] + a[2] > Len(k)
        BY MissingIs
    <2>2. a[1] \in b..Len(l) /\ a[2] \in DOMAIN l[a[1]].calls /\ a[2] \in Nat
        BY <1>3, <2>1
    <2>3. a[1] + a[2] > Len(l) /\ a # <<i, p>>
        BY <1>0, <1>1, <2>1, <2>2
    <2>. QED
        BY <2>1, <2>2, <2>3, MissingIs
<1>8. ASSUME NEW a \in Missing(l, b), a # <<i, p>> PROVE a \in Missing(k, b)
    <2>1. a = <<a[1], a[2]>> /\ a[1] \in b..Len(l) /\ a[2] \in DOMAIN l[a[1]].calls /\ a[1] + a[2] > Len(l)
        BY MissingIs
    <2>2. a[1] \in 1..Len(l) /\ a[2] \in Nat \ {0}
        BY <2>1, Rows
    <2>3. a[1] + a[2] # Len(l) + 1
        BY <1>8, <2>1, OnlyItsOwn
    <2>4. a[1] \in b..Len(k) /\ k[a[1]] = l[a[1]]
        BY <1>1, <2>1, <2>2
    <2>5. a[1] + a[2] > Len(k)
        <3>1. Len(k) = Len(l) + 1 /\ Len(l) \in Nat
            BY <1>1
        <3>2. a[1] \in Nat /\ a[2] \in Nat
            BY <2>2
        <3>3. a[1] + a[2] > Len(l)
            BY <2>1
        <3>. QED
            BY <2>3, <3>1, <3>2, <3>3
    <2>6. a[2] \in DOMAIN k[a[1]].calls
        BY <2>1, <2>4
    <2>7. <<a[1], a[2]>> \in Missing(k, b)
        BY <2>4, <2>5, <2>6, MissingIs
    <2>. QED
        BY <2>1, <2>7
<1>. QED
    BY <1>2, <1>5, <1>6, <1>7, <1>8 DEF Shape, k

\* The repair answers the call that comes next.
LEMMA FirstIsNext ==
    ASSUME TypeOK, Shape(log, boundary), todo = Missing(log, boundary), NEW a \in First
    PROVE  /\ a[1] \in boundary..Len(log) /\ a[2] \in DOMAIN log[a[1]].calls
           /\ a = <<a[1], a[2]>> /\ a[1] + a[2] = Len(log) + 1
<1>0. log \in Seq(Message) /\ Len(log) \in Nat /\ boundary \in Nat \ {0}
    BY LenProperties DEF TypeOK
<1>1. a \in todo /\ \A b \in todo \ {a} : Earlier(a, b)
    BY DEF First
<1>2. a[1] \in boundary..Len(log) /\ a[2] \in DOMAIN log[a[1]].calls /\ a = <<a[1], a[2]>> /\ a[1] + a[2] > Len(log)
    BY <1>1, MissingIs
<1>3. /\ a[1] \in 1..Len(log) /\ Len(log[a[1]].calls) \in Nat
      /\ DOMAIN log[a[1]].calls = 1..Len(log[a[1]].calls)
    BY <1>0, <1>2, Rows
<1>4. PICK p \in 1..Len(log[a[1]].calls) : a[1] + p = Len(log) + 1 /\ p <= a[2] /\ a[2] \in Nat
    <2>1. a[2] \in 1..Len(log[a[1]].calls)
        BY <1>2, <1>3
    <2>2. Len(log) + 1 - a[1] \in 1..Len(log[a[1]].calls) /\ Len(log) + 1 - a[1] <= a[2]
        BY <1>0, <1>2, <1>3, <2>1
    <2>3. a[1] + (Len(log) + 1 - a[1]) = Len(log) + 1
        BY <1>0, <1>3
    <2>. QED
        BY <2>1, <2>2, <2>3
<1>5. <<a[1], p>> \in Missing(log, boundary)
    <2>1. p \in DOMAIN log[a[1]].calls /\ a[1] + p > Len(log)
        BY <1>0, <1>3, <1>4
    <2>. QED
        BY <1>2, <2>1, MissingIs
<1>6. CASE <<a[1], p>> = a
    BY <1>2, <1>4, <1>6
<1>7. CASE <<a[1], p>> # a
    <2>1. Earlier(a, <<a[1], p>>)
        BY <1>1, <1>5, <1>7
    <2>. QED
        BY <1>3, <1>4, <2>1 DEF Earlier
<1>. QED
    BY <1>2, <1>6, <1>7

-----------------------------------------------------------------------------
(* The shape is kept. *)

LEMMA PlainIs == ASSUME NEW k \in Kinds PROVE
    Plain(k) \in Message /\ Plain(k).kind = k /\ Plain(k).calls = <<>> /\ Clean(Plain(k))
BY PlainIsMessage, EmptySeq DEF Plain, Clean

LEMMA ResultIs == ASSUME NEW c \in CallIds, NEW o \in Outcomes PROVE
    /\ Result(c, o) \in Message /\ Result(c, o).kind = "result" /\ Result(c, o).id = c
    /\ Result(c, o).calls = <<>> /\ Result(c, o).outcome = o
BY ResultIsMessage DEF Result, Plain

LEMMA BlockIs ==
    ASSUME NEW cs \in Seq(CallIds), \A p, q \in DOMAIN cs : cs[p] = cs[q] => p = q
    PROVE  /\ Block(cs) \in Message /\ Block(cs).kind = "calls" /\ Block(cs).calls = cs
           /\ ~ Block(cs).copy /\ Clean(Block(cs))
BY BlockIsMessage DEF Block, Plain, Clean

LEMMA HistoryTypes == ASSUME IInv PROVE
    /\ log \in Seq(Message) /\ Len(log) \in Nat /\ DOMAIN log = 1..Len(log)
    /\ boundary \in Nat \ {0} /\ boundary <= Len(log) + 1
    /\ calls \in Seq(CallIds) /\ Len(calls) \in Nat /\ DOMAIN calls = 1..Len(calls)
BY LenProperties DEF IInv, TypeOK

\* The result a block waits for is the next one of its calls.
LEMMA ResultDue ==
    ASSUME IInv, HInv, pc \in Answering
    PROVE  /\ at \in boundary..Len(log) /\ pos \in DOMAIN log[at].calls /\ log[at].calls = calls
           /\ at + pos = Len(log) + 1 /\ calls[pos] \in CallIds
<1>1. at \in DOMAIN log /\ log[at].calls = calls /\ pos \in DOMAIN calls
    BY DEF IInv, TurnOK, Answering
<1>2. calls[pos] \in CallIds
    BY <1>1, HistoryTypes, ElementOfSeq
<1>. QED
    BY <1>1, <1>2, HistoryTypes DEF HInv

LEMMA ResultShape ==
    ASSUME IInv, HInv, pc \in Answering, NEW o \in Outcomes
    PROVE  LET l == Append(log, Result(calls[pos], o))
           IN  /\ l \in Seq(Message) /\ Shape(l, boundary)
               /\ Missing(l, boundary) = Missing(log, boundary) \ {<<at, pos>>}
<1>. DEFINE m == Result(calls[pos], o)
<1>1. m \in Message /\ m.kind = "result" /\ m.id = log[at].calls[pos] /\ m.calls = <<>>
    BY ResultDue, ResultIs
<1>. HIDE DEF m
<1>2. Append(log, m) \in Seq(Message)
    BY <1>1, HistoryTypes, Appended
<1>3. Shape(Append(log, m), boundary) /\ Missing(Append(log, m), boundary) = Missing(log, boundary) \ {<<at, pos>>}
    <2>1. Shape(log, boundary) /\ log \in Seq(Message) /\ boundary \in Nat \ {0}
        BY HistoryTypes DEF HInv
    <2>2. at \in boundary..Len(log) /\ pos \in DOMAIN log[at].calls /\ at + pos = Len(log) + 1
        BY ResultDue
    <2>. QED
        BY <1>1, <2>1, <2>2, AnswerAppended
<1>. QED
    BY <1>2, <1>3 DEF m

LEMMA RepairShape ==
    ASSUME IInv, HInv, pc \in {"opening", "closing"}, NEW a \in First
    PROVE  /\ Repaired(a) \in Seq(Message) /\ Shape(Repaired(a), boundary)
           /\ Missing(Repaired(a), boundary) = Missing(log, boundary) \ {a}
<1>1. /\ a[1] \in boundary..Len(log) /\ a[2] \in DOMAIN log[a[1]].calls
      /\ a = <<a[1], a[2]>> /\ a[1] + a[2] = Len(log) + 1
    BY FirstIsNext DEF HInv, IInv
<1>2. log[a[1]].calls \in Seq(CallIds)
    BY <1>1, HistoryTypes, Rows
<1>3. CallAt(log, a) = log[a[1]].calls[a[2]] /\ CallAt(log, a) \in CallIds
    BY <1>1, <1>2, ElementOfSeq DEF CallAt
<1>. DEFINE m == Result(CallAt(log, a), "unknown")
<1>4. m \in Message /\ m.kind = "result" /\ m.id = log[a[1]].calls[a[2]] /\ m.calls = <<>>
    BY <1>3, ResultIs DEF Outcomes
<1>. HIDE DEF m
<1>5. Append(log, m) \in Seq(Message)
    BY <1>4, HistoryTypes, Appended
<1>6. /\ Shape(Append(log, m), boundary)
      /\ Missing(Append(log, m), boundary) = Missing(log, boundary) \ {<<a[1], a[2]>>}
    BY <1>1, <1>4, HistoryTypes, AnswerAppended DEF HInv
<1>. QED
    BY <1>1, <1>5, <1>6 DEF m, Repaired

\* A message, a text or a block where nothing is due.
LEMMA OtherShape ==
    ASSUME IInv, HInv, pc \in Settled, NEW m \in Message, Clean(m), m.kind # "result"
    PROVE  /\ Append(log, m) \in Seq(Message) /\ Shape(Append(log, m), boundary)
           /\ m.calls = <<>> => Missing(Append(log, m), boundary) = {}
BY HistoryTypes, OtherAppended, Appended DEF HInv

LEMMA BlockShape ==
    ASSUME IInv, HInv, pc = "block"
    PROVE  Append(log, Block(calls)) \in Seq(Message) /\ Shape(Append(log, Block(calls)), boundary)
<1>1. Block(calls) \in Message /\ Block(calls).kind = "calls" /\ Clean(Block(calls))
    BY HistoryTypes, BlockIs DEF IInv, TurnOK
<1>. QED
    BY <1>1, OtherShape DEF Settled

\* What an interruption leaves behind has the shape as well.
LEMMA CommittedShape ==
    ASSUME IInv, HInv, NEW l \in {log} \cup Committed
    PROVE  l \in Seq(Message) /\ Shape(l, boundary)
<1>1. CASE l = log
    BY <1>1, HistoryTypes DEF HInv
<1>2. CASE l \in Committed /\ pc = "user"
    <2>1. l = Append(log, Plain("user")) /\ "user" \in Kinds /\ pc \in Settled
        BY <1>2 DEF Committed, Kinds, Settled
    <2>2. Plain("user") \in Message /\ Clean(Plain("user")) /\ Plain("user").kind # "result"
        BY <2>1, PlainIs
    <2>. QED
        BY <2>1, <2>2, OtherShape
<1>3. CASE l \in Committed /\ pc = "text"
    <2>1. l = Append(log, Plain("text")) /\ "text" \in Kinds /\ pc \in Settled
        BY <1>3 DEF Committed, Kinds, Settled
    <2>2. Plain("text") \in Message /\ Clean(Plain("text")) /\ Plain("text").kind # "result"
        BY <2>1, PlainIs
    <2>. QED
        BY <2>1, <2>2, OtherShape
<1>4. CASE l \in Committed /\ pc = "block"
    BY <1>4, BlockShape DEF Committed
<1>5. CASE l \in Committed /\ pc = "result"
    <2>1. l = Append(log, Result(calls[pos], outcome)) /\ pc \in Answering /\ outcome \in Outcomes
        BY <1>5 DEF Committed, Answering, IInv, TypeOK
    <2>. QED
        BY <2>1, ResultShape
<1>6. CASE l \in Committed /\ pc \in {"opening", "closing"}
    <2>1. PICK a \in First : l = Repaired(a)
        BY <1>6 DEF Committed
    <2>. QED
        BY <1>6, <2>1, RepairShape
<1>7. CASE l \in Committed /\ pc \notin {"user", "text", "block", "result", "opening", "closing"}
    BY <1>7 DEF Committed
<1>. QED
    BY <1>1, <1>2, <1>3, <1>4, <1>5, <1>6, <1>7

LEMMA CloseShapes ==
    ASSUME IInv, HInv, NEW l \in Seq(Message), Shape(l, boundary), Close(l)
    PROVE  HInv'
<1>1. log' = l /\ pc' = "closing" /\ todo' = Pending(l) /\ boundary' = boundary
    BY DEF Close
<1>2. Pending(l) = Missing(l, boundary)
    BY HistoryTypes, PendingIsMissing
<1>. QED
    BY <1>1, <1>2 DEF HInv, Settled, Answering

LEMMA SameShape ==
    ASSUME HInv, UNCHANGED <<log, boundary>>
    PROVE  Shape(log, boundary)' /\ Missing(log, boundary)' = Missing(log, boundary) /\ History' = History
BY DEF HInv, History

\* The steps that leave the loop.
LEMMA LeavingShapes ==
    ASSUME IInv, HInv,
           \/ RoundsExhausted \/ StreamFatal \/ AddText \/ Interrupt \/ GiveUp \/ Crash
           \/ \E c \in CallIds : StreamDuplicate(c)
    PROVE  HInv'
<1>1. log \in Seq(Message) /\ Shape(log, boundary)
    BY HistoryTypes DEF HInv
<1>2. CASE RoundsExhausted \/ StreamFatal \/ \E c \in CallIds : StreamDuplicate(c)
    <2>1. Close(log)
        BY <1>2 DEF RoundsExhausted, StreamFatal, StreamDuplicate
    <2>. QED
        BY <1>1, <2>1, CloseShapes
<1>3. CASE AddText
    <2>1. Append(log, Plain("text")) \in Committed
        BY <1>3 DEF AddText, Committed
    <2>. QED
        BY <1>3, <2>1, CommittedShape, CloseShapes DEF AddText
<1>4. CASE Interrupt
    <2>1. PICK l \in {log} \cup Committed : Close(l)
        BY <1>4 DEF Interrupt
    <2>. QED
        BY <2>1, CommittedShape, CloseShapes
<1>5. CASE GiveUp \/ Crash
    <2>1. log' \in {log} \cup Committed /\ boundary' = boundary /\ pc' = "idle"
        BY <1>5 DEF GiveUp, Crash
    <2>2. Shape(log', boundary')
        BY <2>1, CommittedShape
    <2>. QED
        BY <2>1, <2>2 DEF HInv, Settled, Answering
<1>. QED
    BY <1>2, <1>3, <1>4, <1>5

\* The steps of a run outside its rounds.
LEMMA OuterShapes ==
    ASSUME IInv, HInv, BeginRun \/ Repair \/ Opened \/ AddUser \/ EndRun \/ BeginManual
    PROVE  HInv'
<1>1. CASE BeginRun
    <2>1. UNCHANGED <<log, boundary>> /\ pc' = "opening" /\ todo' = Pending(log)
        BY <1>1 DEF BeginRun
    <2>2. todo' = Missing(log, boundary)
        BY <2>1, HistoryTypes, PendingIsMissing DEF HInv
    <2>. QED
        BY <2>1, <2>2, SameShape DEF HInv, Settled, Answering
<1>2. CASE Repair
    <2>1. PICK a \in First : log' = Repaired(a) /\ todo' = todo \ {a}
        BY <1>2 DEF Repair
    <2>2. UNCHANGED <<boundary, pc>> /\ pc \in {"opening", "closing"}
        BY <1>2 DEF Repair
    <2>3. Shape(log', boundary') /\ todo' = Missing(log', boundary')
        BY <2>1, <2>2, RepairShape DEF HInv
    <2>. QED
        BY <2>2, <2>3 DEF HInv, Settled, Answering
<1>3. CASE Opened
    BY <1>3, SameShape DEF Opened, HInv, Settled, Answering
<1>4. CASE AddUser
    <2>1. /\ log' = Append(log, Plain("user")) /\ pc = "user" /\ pc' = "round" /\ boundary' = boundary
          /\ "user" \in Kinds /\ pc \in Settled
        BY <1>4 DEF AddUser, Settled, Kinds
    <2>2. Plain("user") \in Message /\ Clean(Plain("user")) /\ Plain("user").kind # "result" /\ Plain("user").calls = <<>>
        BY <2>1, PlainIs
    <2>3. Shape(log', boundary') /\ Missing(log', boundary') = {}
        BY <2>1, <2>2, OtherShape
    <2>4. Len(log') = Len(log) + 1
        BY <2>1, <2>2, HistoryTypes, Appended
    <2>5. boundary' <= Len(log')
        BY <2>1, <2>4, HistoryTypes
    <2>. QED
        BY <2>1, <2>3, <2>5 DEF HInv, Answering
<1>5. CASE EndRun \/ BeginManual
    BY <1>5, SameShape DEF EndRun, BeginManual, HInv, Settled, Answering
<1>. QED
    BY <1>1, <1>2, <1>3, <1>4, <1>5

\* The steps between two rounds and within the provider's stream.
LEMMA StreamShapes ==
    ASSUME IInv, HInv,
           \/ Compact \/ NoCompact \/ Generate \/ StreamError \/ Retry \/ StreamEnd
           \/ \E c \in CallIds : StreamCall(c)
    PROVE  HInv'
<1>1. CASE StreamEnd /\ Close(log)
    BY <1>1, CloseShapes, HistoryTypes DEF HInv
<1>2. CASE ~ Close(log)
    <2>1. /\ UNCHANGED <<log, boundary>> /\ pc \in {"round", "generate", "streaming"}
          /\ pc' \in {"round", "compacting", "generate", "streaming", "block", "text"}
          /\ pc' = "streaming" => request' = History \/ (pc = "streaming" /\ request' = request)
        BY <1>2 DEF Compact, NoCompact, Generate, StreamError, Retry, StreamEnd, StreamCall
    <2>. QED
        BY <2>1, SameShape DEF HInv, Settled, Answering
<1>3. StreamEnd \/ ~ Close(log)
    BY DEF Compact, NoCompact, Generate, StreamError, Retry, StreamCall, Close
<1>. QED
    BY <1>1, <1>2, <1>3

\* The steps that execute a block.
LEMMA ExecutionShapes ==
    ASSUME IInv, HInv,
           \/ AddBlock \/ StartTool \/ AddResult
           \/ \E o \in {"value", "missing"} : ToolReturns(o)
    PROVE  HInv'
<1>1. CASE AddBlock
    <2>1. /\ pc = "block" /\ pc' = "tool" /\ boundary' = boundary /\ at' = Len(log) + 1 /\ pos' = 1
          /\ log' = Append(log, Block(calls))
        BY <1>1 DEF AddBlock
    <2>2. Block(calls) \in Message /\ ~ Block(calls).copy
        BY HistoryTypes, BlockIs DEF IInv, TurnOK
    <2>3. Len(log') = Len(log) + 1 /\ log'[Len(log) + 1] = Block(calls)
        BY <2>1, <2>2, HistoryTypes, Appended
    <2>4. boundary' <= at' /\ at' + pos' = Len(log') + 1 /\ ~ log'[at'].copy
        BY <2>1, <2>2, <2>3, HistoryTypes
    <2>5. Shape(log', boundary')
        BY <2>1, BlockShape
    <2>. QED
        BY <2>1, <2>4, <2>5 DEF HInv, Settled
<1>2. CASE StartTool
    <2>1. /\ pc = "tool" /\ pc' = "executing" /\ UNCHANGED <<log, boundary, calls, pos, at>>
          /\ starts' = Append(starts, <<at, calls[pos]>>)
        BY <1>2 DEF StartTool, turn
    <2>2. Len(starts) + 1 \in DOMAIN starts' /\ starts'[Len(starts) + 1] = <<at, calls[pos]>>
        <3>1. starts \in Seq(Nat \X CallIds) /\ <<at, calls[pos]>> \in Nat \X CallIds
            BY <2>1, ResultDue DEF IInv, TypeOK, Answering
        <3>. QED
            BY <2>1, <3>1, AppendProperties, LenProperties
    <2>. QED
        BY <2>1, <2>2, SameShape DEF HInv, Settled, Answering
<1>3. ASSUME NEW o \in {"value", "missing"}, ToolReturns(o) PROVE HInv'
    <2>1. /\ pc = "executing" /\ pc' = "result" /\ outcome' = o
          /\ UNCHANGED <<log, boundary, calls, pos, at, starts>>
        BY <1>3 DEF ToolReturns
    <2>. QED
        BY <2>1, SameShape DEF HInv, Settled, Answering
<1>4. CASE AddResult
    <2>. DEFINE l == Append(log, Result(calls[pos], outcome))
    <2>1. pc = "result" /\ pc \in Answering /\ outcome \in Outcomes /\ starts' = starts
        BY <1>4 DEF AddResult, Answering, IInv, TypeOK
    <2>2. l \in Seq(Message) /\ Shape(l, boundary) /\ Missing(l, boundary) = Missing(log, boundary) \ {<<at, pos>>}
        BY <2>1, ResultShape
    <2>3. /\ at \in boundary..Len(log) /\ pos \in DOMAIN log[at].calls /\ log[at].calls = calls
          /\ at + pos = Len(log) + 1 /\ calls[pos] \in CallIds
        BY <2>1, ResultDue
    <2>4. Len(l) = Len(log) + 1 /\ l[at] = log[at]
        <3>1. Result(calls[pos], outcome) \in Message
            BY <2>1, <2>3, ResultIs
        <3>. QED
            BY <2>3, <3>1, HistoryTypes, Appended
    <2>. HIDE DEF l
    <2>5. CASE Close(l)
        BY <2>2, <2>5, CloseShapes
    <2>6. CASE ~ Close(l)
        <3>1. /\ log' = l /\ boundary' = boundary
              /\ \/ pos < Len(calls) /\ pc' = "tool" /\ pos' = pos + 1 /\ at' = at
                 \/ pos >= Len(calls) /\ pc' = "round"
            BY <1>4, <2>3, <2>6, HistoryTypes DEF AddResult, l
        <3>2. CASE pc' = "tool"
            <4>1. at' = at /\ pos' = pos + 1
                BY <3>1, <3>2
            <4>2. boundary' <= at' /\ ~ log'[at'].copy
                BY <2>1, <2>4, <3>1, <4>1 DEF HInv
            <4>3. at' + pos' = Len(log') + 1
                <5>1. at \in Nat /\ pos \in Nat /\ at + pos = Len(log) + 1 /\ Len(l) = Len(log) + 1 /\ Len(log) \in Nat
                    BY <2>3, <2>4, HistoryTypes DEF IInv, TypeOK
                <5>. QED
                    BY <3>1, <4>1, <5>1
            <4>. QED
                BY <2>2, <3>1, <3>2, <4>2, <4>3 DEF HInv, Settled
        <3>3. CASE pc' = "round"
            <4>1. Missing(log, boundary) \subseteq {<<at, pos>>}
                <5>. SUFFICES ASSUME NEW a \in Missing(log, boundary) PROVE a = <<at, pos>>
                    OBVIOUS
                <5>1. /\ a = <<a[1], a[2]>> /\ a[1] \in boundary..Len(log) /\ a[2] \in DOMAIN log[a[1]].calls
                      /\ a[1] + a[2] > Len(log)
                    BY MissingIs
                <5>2. at + pos > Len(log)
                    BY <2>3, HistoryTypes
                <5>3. a[1] = at
                    BY <2>3, <5>1, <5>2, HistoryTypes, OneOpen DEF HInv
                <5>4. a[2] \in DOMAIN calls /\ at + a[2] > Len(log)
                    BY <2>3, <5>1, <5>3
                <5>5. a[2] = pos
                    BY <2>3, <3>1, <3>3, <5>4, HistoryTypes
                <5>. QED
                    BY <5>1, <5>3, <5>5
            <4>2. Missing(log', boundary') = {}
                BY <2>2, <3>1, <4>1
            <4>3. boundary' <= Len(log')
                BY <2>4, <3>1, HistoryTypes
            <4>. QED
                BY <2>2, <3>1, <3>3, <4>2, <4>3 DEF HInv, Answering
        <3>. QED
            BY <3>1, <3>2, <3>3
    <2>. QED
        BY <2>5, <2>6
<1>. QED
    BY <1>1, <1>2, <1>3, <1>4

\* The rows a compaction keeps are the last ones of the history.
LEMMA ReplacementRows ==
    ASSUME IInv, NEW k \in 0..Len(History)
    PROVE  /\ k \in Nat /\ k <= Len(log) + 1 - boundary
           /\ Replacement(k) \in Seq(Message) /\ Len(Replacement(k)) = k + 1
           /\ Replacement(k)[1] = Plain("summary")
           /\ \A x \in 1..k : Replacement(k)[x + 1] = log[Len(log) - k + x]
<1>. DEFINE n == Len(log)
            s == SubSeq(History, Len(History) - k + 1, Len(History))
<1>0. boundary \in Int /\ n \in Int
    BY HistoryTypes
<1>1. /\ History \in Seq(Message) /\ Len(History) = n + 1 - boundary
      /\ \A x \in 1..(n + 1 - boundary) : History[x] = log[boundary + x - 1]
    <2>1. \A j \in boundary..n : log[j] \in Message
        BY HistoryTypes, Rows
    <2>2. /\ History \in Seq(Message) /\ Len(History) = IF boundary <= n THEN n - boundary + 1 ELSE 0
          /\ \A x \in 1..(n - boundary + 1) : History[x] = log[boundary + x - 1]
        BY <1>0, <2>1, SubSeqProperties DEF History
    <2>. QED
        BY <2>2, HistoryTypes
<1>2. k \in Nat /\ Len(History) \in Nat /\ k <= Len(History)
    BY <1>1, LenProperties
<1>. HIDE DEF n
<1>3. /\ s \in Seq(Message) /\ Len(s) = k
      /\ \A x \in 1..k : s[x] = History[Len(History) - k + x]
    <2>1. \A j \in (Len(History) - k + 1)..Len(History) : History[j] \in Message
        BY <1>1, <1>2, Rows
    <2>2. Len(History) - k + 1 \in Int /\ Len(History) \in Int
        BY <1>2
    <2>3. /\ s \in Seq(Message)
          /\ Len(s) = IF Len(History) - k + 1 <= Len(History) THEN Len(History) - (Len(History) - k + 1) + 1 ELSE 0
          /\ \A x \in 1..(Len(History) - (Len(History) - k + 1) + 1) : s[x] = History[Len(History) - k + 1 + x - 1]
        BY <2>1, <2>2, SubSeqProperties
    <2>. QED
        BY <1>2, <2>3
<1>4. \A x \in 1..k : s[x] = log[n - k + x]
    <2>. SUFFICES ASSUME NEW x \in 1..k PROVE s[x] = log[n - k + x]
        OBVIOUS
    <2>1. Len(History) - k + x \in 1..(n + 1 - boundary)
        BY <1>0, <1>1, <1>2
    <2>2. s[x] = log[boundary + (Len(History) - k + x) - 1]
        BY <1>1, <1>3, <2>1
    <2>3. boundary + (Len(History) - k + x) - 1 = n - k + x
        BY <1>0, <1>1, <1>2
    <2>. QED
        BY <2>2, <2>3
<1>. HIDE DEF s
<1>5. <<Plain("summary")>> \in Seq(Message) /\ Len(<<Plain("summary")>>) = 1 /\ <<Plain("summary")>>[1] = Plain("summary")
    BY PlainIs DEF Kinds
<1>6. Replacement(k) = <<Plain("summary")>> \o s
    BY DEF Replacement, s
<1>7. /\ Replacement(k) \in Seq(Message) /\ Len(Replacement(k)) = 1 + k
      /\ \A i \in 1..(1 + k) : Replacement(k)[i] = IF i <= 1 THEN <<Plain("summary")>>[i] ELSE s[i - 1]
    BY <1>3, <1>5, <1>6, ConcatProperties
<1>8. Replacement(k)[1] = Plain("summary")
    BY <1>2, <1>5, <1>7
<1>9. ASSUME NEW x \in 1..k PROVE Replacement(k)[x + 1] = s[x]
    BY <1>2, <1>7
<1>. QED
    BY <1>1, <1>2, <1>4, <1>7, <1>8, <1>9 DEF n

\* The rows replace_context appends, and what of them is copied.
LEMMA CopiedRows ==
    ASSUME IInv, NEW k \in 0..Len(History), log' = log \o Copies(Replacement(k))
    PROVE  /\ log' \in Seq(Message) /\ Len(log') = Len(log) + k + 1
           /\ \A x \in 1..Len(log) : log'[x] = log[x]
           /\ \A i \in 1..(k + 1) :
                 /\ log'[Len(log) + i].kind = Replacement(k)[i].kind
                 /\ log'[Len(log) + i].id = Replacement(k)[i].id
                 /\ log'[Len(log) + i].calls = Replacement(k)[i].calls
                 /\ log'[Len(log) + i].copy
<1>. DEFINE r == Replacement(k)
            c == Copies(r)
            n == Len(log)
<1>1. /\ k \in Nat /\ r \in Seq(Message) /\ Len(r) = k + 1 /\ r[1] = Plain("summary")
      /\ \A x \in 1..k : r[x + 1] = log[n - k + x]
    BY ReplacementRows
<1>2. n \in Nat /\ log \in Seq(Message)
    BY HistoryTypes
<1>. HIDE DEF n, r
<1>3. \A i \in 1..(k + 1) : r[i] \in Message
    BY <1>1, Rows
<1>4. \A i \in 1..(k + 1) : /\ [r[i] EXCEPT !.copy = TRUE] \in Message
                            /\ [r[i] EXCEPT !.copy = TRUE].kind = r[i].kind
                            /\ [r[i] EXCEPT !.copy = TRUE].id = r[i].id
                            /\ [r[i] EXCEPT !.copy = TRUE].calls = r[i].calls
                            /\ [r[i] EXCEPT !.copy = TRUE].copy
    BY <1>3 DEF Message
<1>5. c = [i \in 1..(k + 1) |-> [r[i] EXCEPT !.copy = TRUE]]
    BY <1>1 DEF Copies
<1>6. c \in Seq(Message) /\ Len(c) = k + 1
    BY <1>1, <1>4, <1>5
<1>7. \A i \in 1..(k + 1) : /\ c[i].kind = r[i].kind /\ c[i].id = r[i].id
                            /\ c[i].calls = r[i].calls /\ c[i].copy
    BY <1>4, <1>5
<1>. HIDE DEF c
<1>8. /\ log' \in Seq(Message) /\ Len(log') = n + (k + 1)
      /\ \A i \in 1..(n + (k + 1)) : log'[i] = IF i <= n THEN log[i] ELSE c[i - n]
    <2>1. log' = log \o c /\ Len(log) = n
        BY DEF c, r, n
    <2>2. /\ log \o c \in Seq(Message) /\ Len(log \o c) = Len(log) + Len(c)
          /\ \A i \in 1..(Len(log) + Len(c)) : (log \o c)[i] = IF i <= Len(log) THEN log[i] ELSE c[i - Len(log)]
        <3>1. log \in Seq(Message) /\ c \in Seq(Message)
            BY <1>2, <1>6
        <3>. HIDE DEF c
        <3>. QED
            BY <3>1, ConcatProperties
    <2>. QED
        BY <1>6, <2>1, <2>2
<1>9. \A x \in 1..n : log'[x] = log[x]
    BY <1>1, <1>2, <1>8
<1>10. ASSUME NEW i \in 1..(k + 1)
       PROVE  /\ log'[n + i].kind = r[i].kind /\ log'[n + i].id = r[i].id
              /\ log'[n + i].calls = r[i].calls /\ log'[n + i].copy
    <2>1. n + i \in 1..(n + (k + 1)) /\ ~ (n + i <= n) /\ (n + i) - n = i
        BY <1>1, <1>2
    <2>2. log'[n + i] = c[i]
        BY <1>8, <2>1
    <2>. QED
        BY <1>7, <2>2
<1>. QED
    BY <1>1, <1>2, <1>8, <1>9, <1>10 DEF n, r

\* What _validate_context lets through of the last rows of a history has every
\* answer in its place and none missing.
LEMMA KeptRows ==
    ASSUME NEW l \in Seq(Message), NEW b \in Nat \ {0}, Shape(l, b),
           NEW k \in Nat, k <= Len(l) + 1 - b,
           NEW r \in Seq(Message), Len(r) = k + 1, r[1].calls = <<>>,
           \A x \in 1..k : r[x + 1] = l[Len(l) - k + x],
           ValidContext(r)
    PROVE  /\ \A i \in 1..(k + 1) : Clean(r[i])
           /\ \A i \in 1..(k + 1) : \A p \in DOMAIN r[i].calls :
                 i + p <= k + 1 /\ r[i + p].kind = "result" /\ r[i + p].id = r[i].calls[p]
           /\ \A j \in 1..(k + 1) : r[j].kind = "result" =>
                 \E i \in 1..(j - 1) : j - i \in DOMAIN r[i].calls
<1>. DEFINE n == Len(l)
<1>0. n \in Nat /\ b \in Nat /\ b >= 1 /\ DOMAIN r = 1..(k + 1)
    BY LenProperties
<1>. HIDE DEF n
<1>1. ASSUME NEW i \in 1..(k + 1), i # 1
      PROVE  r[i] = l[n - k + i - 1] /\ n - k + i - 1 \in b..n /\ n - k + i - 1 \in 1..n
    <2>1. i - 1 \in 1..k /\ (i - 1) + 1 = i
        BY <1>1
    <2>2. r[i] = l[n - k + (i - 1)]
        BY <2>1 DEF n
    <2>3. k <= n + 1 - b
        BY DEF n
    <2>4. n - k + (i - 1) = n - k + i - 1 /\ n - k + i - 1 \in b..n /\ n - k + i - 1 \in 1..n
        BY <1>0, <2>1, <2>3
    <2>. QED
        BY <2>2, <2>4
<1>2. ASSUME NEW i \in 1..(k + 1) PROVE Clean(r[i])
    <2>1. CASE i = 1
        BY <2>1 DEF Clean
    <2>2. CASE i # 1
        BY <1>1, <2>2 DEF Shape, n
    <2>. QED
        BY <2>1, <2>2
<1>3. ASSUME NEW i \in 1..(k + 1), NEW p \in DOMAIN r[i].calls
      PROVE  i # 1 /\ p \in Nat \ {0} /\ \A q \in 1..p : q \in DOMAIN r[i].calls
    <2>1. i # 1
        BY <1>3
    <2>2. Len(r[i].calls) \in Nat /\ DOMAIN r[i].calls = 1..Len(r[i].calls)
        BY Rows
    <2>. QED
        BY <2>1, <2>2
<1>4. ASSUME NEW i \in 1..(k + 1), NEW p \in DOMAIN r[i].calls, i + p <= k + 1
      PROVE  r[i + p].kind = "result" /\ r[i + p].id = r[i].calls[p]
    <2>1. i # 1 /\ p \in Nat \ {0}
        BY <1>3
    <2>2. i + p \in 1..(k + 1) /\ i + p # 1
        BY <1>4, <2>1
    <2>3. r[i] = l[n - k + i - 1] /\ n - k + i - 1 \in b..n
        BY <1>1, <2>1
    <2>4. r[i + p] = l[n - k + (i + p) - 1] /\ n - k + (i + p) - 1 \in b..n
        BY <1>1, <2>2
    <2>5. n - k + (i + p) - 1 = (n - k + i - 1) + p
        BY <1>0, <2>1
    <2>6. (n - k + i - 1) + p <= n
        BY <1>0, <2>4, <2>5
    <2>. DEFINE x == n - k + i - 1
    <2>7. x \in b..n /\ p \in DOMAIN l[x].calls /\ x + p <= n /\ r[i + p] = l[x + p] /\ r[i] = l[x]
        BY <2>3, <2>4, <2>5, <2>6
    <2>. HIDE DEF x
    <2>8. l[x + p].kind = "result" /\ l[x + p].id = l[x].calls[p]
        BY <2>7 DEF Shape, InPlace, n
    <2>. QED
        BY <2>7, <2>8
<1>5. ASSUME NEW i \in 1..(k + 1), NEW p \in DOMAIN r[i].calls PROVE i + p <= k + 1
    <2>. SUFFICES ASSUME ~ (i + p <= k + 1) PROVE FALSE
        OBVIOUS
    <2>1. PICK u \in (i + 1)..(k + 1) : r[u].id = r[i].calls[p]
        BY <1>0 DEF ValidContext
    <2>2. p \in Nat \ {0} /\ u - i \in 1..p /\ u - i # p /\ i + (u - i) = u
        BY <1>3, <2>1
    <2>3. u - i \in DOMAIN r[i].calls
        BY <1>3, <2>2
    <2>4. r[u].id = r[i].calls[u - i]
        BY <1>4, <2>1, <2>2, <2>3
    <2>5. u - i = p
        BY <1>2, <2>1, <2>3, <2>4 DEF Clean
    <2>. QED
        BY <2>2, <2>5
<1>6. ASSUME NEW j \in 1..(k + 1), r[j].kind = "result"
      PROVE  \E i \in 1..(j - 1) : j - i \in DOMAIN r[i].calls
    <2>1. PICK i \in 1..(j - 1) :
             /\ \E p \in DOMAIN r[i].calls : r[i].calls[p] = r[j].id
             /\ \A x \in (i + 1)..(j - 1) : r[x].kind = "result" /\ r[x].id # r[j].id
        BY <1>0, <1>6 DEF ValidContext
    <2>2. PICK p \in DOMAIN r[i].calls : r[i].calls[p] = r[j].id
        BY <2>1
    <2>3. i \in 1..(k + 1) /\ p \in Nat \ {0}
        BY <1>3
    <2>4. i + p <= k + 1 /\ r[i + p].id = r[j].id
        BY <1>4, <1>5, <2>2, <2>3
    <2>5. ~ (i + p \in (i + 1)..(j - 1))
        BY <2>1, <2>4
    <2>6. j - i \in 1..p
        BY <2>3, <2>5
    <2>. QED
        BY <1>3, <2>3, <2>6
<1>. QED
    BY <1>2, <1>4, <1>5, <1>6

\* The history a compaction writes is complete.
LEMMA ReplaceShape ==
    ASSUME IInv, HInv, NEW k \in 0..Len(History), ValidContext(Replacement(k)),
           log' = log \o Copies(Replacement(k)), boundary' = Len(log) + 1
    PROVE  Shape(log', boundary') /\ Missing(log', boundary') = {} /\ boundary' <= Len(log')
<1>. DEFINE n == Len(log)
            r == Replacement(k)
<1>1. /\ k \in Nat /\ k <= n + 1 - boundary /\ r \in Seq(Message) /\ Len(r) = k + 1
      /\ r[1] = Plain("summary") /\ \A x \in 1..k : r[x + 1] = log[n - k + x]
    BY ReplacementRows
<1>2. r[1].calls = <<>> /\ r[1].kind = "summary"
    BY <1>1 DEF Plain
<1>3. /\ \A i \in 1..(k + 1) : Clean(r[i])
      /\ \A i \in 1..(k + 1) : \A p \in DOMAIN r[i].calls :
            i + p <= k + 1 /\ r[i + p].kind = "result" /\ r[i + p].id = r[i].calls[p]
      /\ \A j \in 1..(k + 1) : r[j].kind = "result" =>
            \E i \in 1..(j - 1) : j - i \in DOMAIN r[i].calls
    <2>. HIDE DEF r
    <2>1. log \in Seq(Message) /\ boundary \in Nat \ {0} /\ Shape(log, boundary) /\ ValidContext(r)
        BY HistoryTypes DEF HInv, r
    <2>. QED
        BY <1>1, <1>2, <2>1, KeptRows
<1>4. PICK h : h = log'
    OBVIOUS
<1>5. /\ h \in Seq(Message) /\ Len(h) = n + k + 1 /\ n \in Nat
      /\ \A x \in 1..n : h[x] = log[x]
      /\ \A i \in 1..(k + 1) : h[n + i].kind = r[i].kind /\ h[n + i].id = r[i].id /\ h[n + i].calls = r[i].calls
    BY <1>1, <1>4, CopiedRows, HistoryTypes
<1>. DEFINE c == n + 1
<1>. HIDE DEF n, r, c
<1>6. ASSUME NEW x \in c..Len(h) PROVE x - n \in 1..(k + 1) /\ n + (x - n) = x
    BY <1>1, <1>5 DEF c
<1>7. ASSUME NEW x \in c..Len(h)
      PROVE  /\ h[x].kind = r[x - n].kind /\ h[x].id = r[x - n].id /\ h[x].calls = r[x - n].calls
    BY <1>5, <1>6
<1>8. \A x \in 1..Len(h) : Clean(h[x])
    <2>. SUFFICES ASSUME NEW x \in 1..Len(h) PROVE Clean(h[x])
        OBVIOUS
    <2>1. CASE x <= n
        <3>1. x \in 1..n
            BY <1>5, <2>1
        <3>. QED
            BY <1>5, <3>1 DEF HInv, Shape, n
    <2>2. CASE x > n
        <3>1. x \in c..Len(h)
            BY <1>5, <2>2 DEF c
        <3>2. Clean(r[x - n])
            BY <1>3, <1>6, <3>1
        <3>3. h[x].kind = r[x - n].kind /\ h[x].calls = r[x - n].calls
            BY <1>7, <3>1
        <3>. QED
            BY <3>2, <3>3 DEF Clean
    <2>. QED
        BY <1>5, <2>1, <2>2
<1>9. ASSUME NEW x \in c..Len(h), NEW p \in DOMAIN h[x].calls
      PROVE  x + p <= Len(h) /\ h[x + p].kind = "result" /\ h[x + p].id = h[x].calls[p]
    <2>1. x - n \in 1..(k + 1) /\ p \in DOMAIN r[x - n].calls
        BY <1>6, <1>7
    <2>2. (x - n) + p <= k + 1 /\ r[(x - n) + p].kind = "result" /\ r[(x - n) + p].id = h[x].calls[p]
        BY <1>3, <1>7, <2>1
    <2>3. p \in Nat \ {0}
        BY <1>1, <2>1, Rows
    <2>4. x + p \in c..Len(h) /\ (x + p) - n = (x - n) + p
        BY <1>1, <1>5, <2>1, <2>2, <2>3 DEF c
    <2>5. h[x + p].kind = r[(x + p) - n].kind /\ h[x + p].id = r[(x + p) - n].id
        BY <1>7, <2>4
    <2>. QED
        BY <2>2, <2>4, <2>5
<1>10. InPlace(h, c)
    BY <1>9 DEF InPlace
<1>11. AllOwned(h, c)
    <2>. SUFFICES ASSUME NEW j \in c..Len(h), h[j].kind = "result"
                  PROVE  \E x \in c..(j - 1) : j - x \in DOMAIN h[x].calls
        BY DEF AllOwned
    <2>1. j - n \in 1..(k + 1) /\ r[j - n].kind = "result"
        BY <1>6, <1>7
    <2>2. PICK i \in 1..((j - n) - 1) : (j - n) - i \in DOMAIN r[i].calls
        BY <1>3, <2>1
    <2>3. n + i \in c..(j - 1) /\ n + i \in c..Len(h) /\ j - (n + i) = (j - n) - i /\ (n + i) - n = i
        <3>1. n \in Nat /\ k \in Nat /\ Len(h) = n + k + 1
            BY <1>1, <1>5
        <3>2. i \in Nat /\ i >= 1 /\ j \in Nat /\ i <= (j - n) - 1 /\ j - n <= k + 1
            BY <3>1, <2>1, <2>2 DEF c
        <3>. QED
            BY <3>1, <3>2 DEF c
    <2>4. h[n + i].calls = r[i].calls
        BY <1>7, <2>3
    <2>. QED
        BY <2>2, <2>3, <2>4
<1>12. Missing(h, c) = {}
    <2>. SUFFICES ASSUME NEW a \in Missing(h, c) PROVE FALSE
        OBVIOUS
    <2>1. a[1] \in c..Len(h) /\ a[2] \in DOMAIN h[a[1]].calls /\ a[1] + a[2] > Len(h)
        BY MissingIs
    <2>2. a[1] + a[2] <= Len(h)
        BY <1>9, <2>1
    <2>3. Len(h) \in Nat /\ c \in Nat \ {0}
        BY <1>1, <1>5 DEF c
    <2>4. a[1] \in 1..Len(h)
        BY <2>1, <2>3
    <2>5. Len(h[a[1]].calls) \in Nat /\ DOMAIN h[a[1]].calls = 1..Len(h[a[1]].calls)
        BY <1>5, <2>4, Rows
    <2>6. a[1] \in Nat /\ a[2] \in Nat
        BY <2>1, <2>3, <2>4, <2>5
    <2>. QED
        BY <2>1, <2>2, <2>3, <2>6
<1>13. c <= Len(h) /\ boundary' = c
    BY <1>1, <1>5 DEF c, n
<1>. QED
    BY <1>4, <1>8, <1>10, <1>11, <1>12, <1>13 DEF Shape

LEMMA CompactionShapes ==
    ASSUME IInv, HInv, NEW k \in 0..Len(History), Replace(k) \/ Refuse(k)
    PROVE  HInv'
<1>1. CASE Replace(k)
    <2>1. /\ ValidContext(Replacement(k)) /\ log' = log \o Copies(Replacement(k))
          /\ boundary' = Len(log) + 1 /\ pc' \in {"idle", "generate"}
        BY <1>1 DEF Replace
    <2>2. Shape(log', boundary') /\ Missing(log', boundary') = {} /\ boundary' <= Len(log')
        BY <2>1, ReplaceShape
    <2>. QED
        BY <2>1, <2>2 DEF HInv, Settled, Answering
<1>2. CASE Refuse(k) /\ pc = "manual"
    <2>1. pc' = "idle" /\ UNCHANGED <<log, boundary>>
        BY <1>2 DEF Refuse
    <2>. QED
        BY <2>1, SameShape DEF HInv, Settled, Answering
<1>3. CASE Refuse(k) /\ pc # "manual"
    <2>1. Close(log)
        BY <1>3 DEF Refuse
    <2>. QED
        BY <2>1, CloseShapes, HistoryTypes DEF HInv
<1>. QED
    BY <1>1, <1>2, <1>3

\* The history keeps its shape: every answer of the active history is in its
\* place behind its call, and what a run has to answer is what is missing.
THEOREM HistoryInvariance == Spec => [](IInv /\ HInv)
<1>1. Init => IInv /\ HInv
    <2>. SUFFICES ASSUME Init PROVE HInv
        BY InitInvariant
    <2>1. log = <<>> /\ boundary = 1 /\ pc = "idle"
        BY DEF Init
    <2>2. Shape(<<>>, 1)
        BY DEF Shape, InPlace, AllOwned
    <2>. QED
        BY <2>1, <2>2 DEF HInv, Settled, Answering
<1>2. IInv /\ HInv /\ IInv' /\ [Next]_vars => (IInv /\ HInv)'
    <2>. SUFFICES ASSUME IInv, HInv, [Next]_vars PROVE HInv'
        OBVIOUS
    <2>1. CASE Next
        <3>. USE DEF Next, Steps
        <3>1. CASE \E k \in 0..Len(History) : Replace(k) \/ Refuse(k)
            BY <3>1, CompactionShapes
        <3>2. CASE ~ \E k \in 0..Len(History) : Replace(k) \/ Refuse(k)
            BY <2>1, <3>2, LeavingShapes, OuterShapes, StreamShapes, ExecutionShapes
        <3>. QED
            BY <3>1, <3>2
    <2>2. CASE UNCHANGED vars
        BY <2>2, SameShape DEF vars, turn, HInv
    <2>. QED
        BY <2>1, <2>2
<1>. QED
    BY <1>1, <1>2, Invariance, PTL DEF Spec

-----------------------------------------------------------------------------
(* What a provider is sent, and what a run leaves behind. *)

LEMMA HistoryRows ==
    ASSUME IInv
    PROVE  /\ Len(History) \in Nat /\ Len(History) = Len(log) + 1 - boundary
           /\ DOMAIN History = 1..Len(History)
           /\ \A x \in 1..Len(History) : History[x] = log[boundary + x - 1]
<1>1. \A j \in boundary..Len(log) : log[j] \in Message
    BY HistoryTypes, Rows
<1>2. boundary \in Int /\ Len(log) \in Int
    BY HistoryTypes
<1>3. /\ History \in Seq(Message)
      /\ Len(History) = IF boundary <= Len(log) THEN Len(log) - boundary + 1 ELSE 0
      /\ \A x \in 1..(Len(log) - boundary + 1) : History[x] = log[boundary + x - 1]
    BY <1>1, <1>2, SubSeqProperties DEF History
<1>4. Len(History) = Len(log) + 1 - boundary
    BY <1>3, HistoryTypes
<1>5. Len(History) \in Nat /\ DOMAIN History = 1..Len(History)
    BY <1>3, LenProperties
<1>6. \A x \in 1..Len(History) : History[x] = log[boundary + x - 1]
    BY <1>2, <1>3, <1>4
<1>. QED
    BY <1>4, <1>5, <1>6

LEMMA RequestIsComplete ==
    ASSUME IInv, HInv PROVE RequestsAreComplete
<1>. SUFFICES ASSUME pc = "streaming"
              PROVE  /\ History # <<>>
                     /\ \A i \in DOMAIN History : Answered(History, i)
                     /\ \A j \in DOMAIN History : History[j].kind = "result" => Owned(History, j)
    BY DEF HInv, RequestsAreComplete
<1>. DEFINE h == History
            b == boundary
            n == Len(log)
<1>1. Shape(log, b) /\ Missing(log, b) = {} /\ b <= n
    BY DEF HInv, Settled
<1>2. /\ Len(h) \in Nat /\ Len(h) = n + 1 - b /\ DOMAIN h = 1..Len(h)
      /\ \A x \in 1..Len(h) : h[x] = log[b + x - 1]
      /\ log \in Seq(Message) /\ n \in Nat /\ b \in Nat \ {0}
    BY HistoryRows, HistoryTypes
<1>. HIDE DEF h, b, n
<1>3. ASSUME NEW i \in 1..Len(h) PROVE b + i - 1 \in b..n /\ b + i - 1 \in 1..n /\ h[i] = log[b + i - 1]
    BY <1>2
<1>4. ASSUME NEW x \in b..n, NEW p \in DOMAIN log[x].calls
      PROVE  /\ p \in Nat \ {0} /\ x + p <= n
             /\ log[x + p].kind = "result" /\ log[x + p].id = log[x].calls[p]
    <2>1. x \in 1..n
        BY <1>2
    <2>2. Len(log[x].calls) \in Nat /\ DOMAIN log[x].calls = 1..Len(log[x].calls)
        BY <1>2, <2>1, Rows DEF n
    <2>3. p \in Nat \ {0}
        BY <2>2
    <2>4. ~ (x + p > n)
        BY <1>1, MissingIs DEF n
    <2>5. x + p <= n
        BY <1>2, <2>1, <2>3, <2>4
    <2>. QED
        BY <1>1, <2>3, <2>5 DEF Shape, InPlace, n
<1>5. h # <<>>
    BY <1>1, <1>2, EmptySeq
<1>6. ASSUME NEW i \in 1..Len(h) PROVE Answered(h, i)
    <2>. SUFFICES ASSUME NEW p \in DOMAIN h[i].calls
                  PROVE  i + p \in 1..Len(h) /\ h[i + p].kind = "result" /\ h[i + p].id = h[i].calls[p]
        BY <1>2 DEF Answered
    <2>. DEFINE x == b + i - 1
    <2>1. x \in b..n /\ h[i] = log[x] /\ p \in DOMAIN log[x].calls
        BY <1>3
    <2>2. p \in Nat \ {0} /\ x + p <= n /\ log[x + p].kind = "result" /\ log[x + p].id = h[i].calls[p]
        BY <1>4, <2>1
    <2>3. i + p \in 1..Len(h) /\ b + (i + p) - 1 = x + p
        BY <1>2, <2>1, <2>2
    <2>4. h[i + p] = log[x + p]
        BY <1>3, <2>3
    <2>. QED
        BY <2>2, <2>3, <2>4
<1>7. ASSUME NEW j \in 1..Len(h), h[j].kind = "result" PROVE Owned(h, j)
    <2>. DEFINE y == b + j - 1
    <2>1. y \in b..n /\ log[y] = h[j]
        BY <1>3
    <2>2. PICK x \in b..(y - 1) : y - x \in DOMAIN log[x].calls
        BY <1>1, <1>7, <2>1 DEF Shape, AllOwned, n
    <2>3. x \in b..n /\ x + (y - x) = y
        BY <1>2, <2>1, <2>2
    <2>4. log[y].id = log[x].calls[y - x]
        BY <1>4, <2>2, <2>3
    <2>. DEFINE i == x - b + 1
    <2>5. i \in 1..(j - 1) /\ i \in 1..Len(h) /\ b + i - 1 = x /\ j - i = y - x
        BY <1>2, <2>1, <2>2
    <2>6. h[i] = log[x]
        BY <1>3, <2>5
    <2>7. j - i \in DOMAIN h[i].calls /\ h[j].id = h[i].calls[j - i]
        BY <2>1, <2>2, <2>4, <2>5, <2>6
    <2>. QED
        BY <2>5, <2>7 DEF Owned
<1>. QED
    BY <1>2, <1>5, <1>6, <1>7 DEF h

LEMMA OpenIsLast ==
    ASSUME IInv, HInv PROVE OnlyTheLastIsOpen
<1>. SUFFICES ASSUME NEW i \in boundary..Len(log), ~ Answered(log, i), NEW j \in (i + 1)..Len(log)
              PROVE  log[j].kind = "result" /\ log[j].id = log[i].calls[j - i]
    BY DEF OnlyTheLastIsOpen
<1>1. Shape(log, boundary) /\ log \in Seq(Message) /\ Len(log) \in Nat /\ i \in 1..Len(log)
      /\ DOMAIN log = 1..Len(log)
    BY HistoryTypes DEF HInv
<1>2. PICK p \in DOMAIN log[i].calls :
         ~ (i + p \in 1..Len(log) /\ log[i + p].kind = "result" /\ log[i + p].id = log[i].calls[p])
    BY <1>1 DEF Answered
<1>3. Len(log[i].calls) \in Nat /\ DOMAIN log[i].calls = 1..Len(log[i].calls)
    BY <1>1, Rows
<1>4. ~ (i + p <= Len(log))
    <2>. SUFFICES ASSUME i + p <= Len(log) PROVE FALSE
        OBVIOUS
    <2>1. i + p \in 1..Len(log)
        BY <1>1, <1>3
    <2>2. log[i + p].kind = "result" /\ log[i + p].id = log[i].calls[p]
        BY <1>1 DEF Shape, InPlace
    <2>. QED
        BY <1>2, <2>1, <2>2
<1>5. j - i \in DOMAIN log[i].calls /\ i + (j - i) = j /\ i + (j - i) <= Len(log)
    BY <1>1, <1>3, <1>4
<1>6. log[i + (j - i)].kind = "result" /\ log[i + (j - i)].id = log[i].calls[j - i]
    BY <1>1, <1>5 DEF Shape, InPlace
<1>. QED
    BY <1>5, <1>6

\* No request shows the model a call without its answer or an answer without
\* its call, and no block of the active history is left open but by the run
\* that is at it: through every interruption, crash, repair and compaction of
\* agent.py and session/manager.py.
THEOREM ContextsAreValid == Spec => []ContextsStayValid
<1>1. IInv /\ HInv => ContextsStayValid
    BY RequestIsComplete, OpenIsLast DEF ContextsStayValid
<1>. QED
    BY <1>1, HistoryInvariance, PTL

\* The cleanup of _run_interaction answers everything that was pending, unless
\* it is cut short itself.
THEOREM NothingIsLeftPending == Spec => RunsLeaveNothingPending
<1>1. IInv /\ HInv /\ [Next]_vars =>
        [(pc = "closing" /\ pc' = "idle" /\ faults' = faults) => Pending(log') = {}]_vars
    <2>. SUFFICES ASSUME IInv, HInv, Next, pc = "closing", pc' = "idle", faults' = faults
                  PROVE  Pending(log') = {}
        OBVIOUS
    <2>1. faults \in Nat
        BY BoundsAssumption DEF IInv, TypeOK
    <2>2. ~ Interrupt /\ ~ GiveUp /\ ~ Crash
        BY <2>1 DEF Interrupt, GiveUp, Crash
    <2>3. EndRun
        BY <2>2 DEF Next, Steps, Repair, Opened, AddUser, Compact, NoCompact, RoundsExhausted,
                    Generate, StreamError, StreamFatal, Retry, StreamEnd, AddText, AddBlock,
                    StartTool, AddResult, StreamCall, StreamDuplicate, ToolReturns, Replace,
                    Refuse, BeginRun, BeginManual
    <2>4. log' = log /\ todo = {}
        BY <2>3 DEF EndRun
    <2>5. Pending(log) = Missing(log, boundary) /\ todo = Missing(log, boundary)
        BY HistoryTypes, PendingIsMissing DEF HInv
    <2>. QED
        BY <2>4, <2>5
<1>. QED
    BY <1>1, HistoryInvariance, PTL DEF Spec, RunsLeaveNothingPending

-----------------------------------------------------------------------------
(* The history, read as a ledger. *)

\* IssuedCalls and AnsweredWith, of any rows.
IssuedIn(l) ==
    UNION {{<<i, l[i].calls[p]>> : p \in DOMAIN l[i].calls} : i \in {i \in DOMAIN l : ~ l[i].copy}}
AnsweredIn(l, os) ==
    UNION {{<<i, l[i].calls[p]>> :
               p \in {p \in DOMAIN l[i].calls :
                         /\ i + p \in DOMAIN l
                         /\ \A q \in 1..p : l[i + q].kind = "result"
                         /\ l[i + p].outcome \in os}} :
           i \in {i \in DOMAIN l : ~ l[i].copy}}

LEMMA IssueOf ==
    ASSUME NEW l
    PROVE  /\ \A i \in DOMAIN l : \A p \in DOMAIN l[i].calls :
                 ~ l[i].copy => <<i, l[i].calls[p]>> \in IssuedIn(l)
           /\ \A c \in IssuedIn(l) : \E i \in DOMAIN l : \E p \in DOMAIN l[i].calls :
                 ~ l[i].copy /\ c = <<i, l[i].calls[p]>>
<1>1. ASSUME NEW i \in DOMAIN l, NEW p \in DOMAIN l[i].calls, ~ l[i].copy
      PROVE  <<i, l[i].calls[p]>> \in IssuedIn(l)
    BY <1>1 DEF IssuedIn
<1>2. ASSUME NEW c \in IssuedIn(l)
      PROVE  \E i \in DOMAIN l : \E p \in DOMAIN l[i].calls : ~ l[i].copy /\ c = <<i, l[i].calls[p]>>
    <2>1. PICK i \in {i \in DOMAIN l : ~ l[i].copy} : c \in {<<i, l[i].calls[p]>> : p \in DOMAIN l[i].calls}
        BY DEF IssuedIn
    <2>. QED
        BY <2>1
<1>. QED
    BY <1>1, <1>2

\* A call of a row and its position in it.
LEMMA CallsOfRows ==
    ASSUME NEW l \in Seq(Message), NEW i \in DOMAIN l, NEW p \in DOMAIN l[i].calls
    PROVE  /\ i \in 1..Len(l) /\ i \in Nat /\ p \in Nat \ {0}
           /\ \A q \in 1..p : q \in DOMAIN l[i].calls
           /\ l[i].calls[p] \in CallIds
<1>1. i \in 1..Len(l) /\ i \in Nat
    BY Rows
<1>2. /\ l[i].calls \in Seq(CallIds) /\ Len(l[i].calls) \in Nat
      /\ DOMAIN l[i].calls = 1..Len(l[i].calls)
    BY <1>1, Rows
<1>3. p \in 1..Len(l[i].calls)
    BY <1>2
<1>4. l[i].calls[p] \in CallIds
    BY <1>2, <1>3, ElementOfSeq
<1>. QED
    BY <1>1, <1>2, <1>3, <1>4

LEMMA IssuedIsTyped ==
    ASSUME NEW l \in Seq(Message) PROVE IssuedIn(l) \subseteq Nat \X CallIds
<1>. SUFFICES ASSUME NEW c \in IssuedIn(l) PROVE c \in Nat \X CallIds
    OBVIOUS
<1>1. PICK i \in DOMAIN l : \E p \in DOMAIN l[i].calls : c = <<i, l[i].calls[p]>>
    BY IssueOf
<1>2. PICK p \in DOMAIN l[i].calls : c = <<i, l[i].calls[p]>>
    BY <1>1
<1>. QED
    BY <1>1, <1>2, CallsOfRows

\* A row as it stands in the ledger: where it is, and its answer.
InLedger(l, os, c, i, p) ==
    /\ i \in DOMAIN l /\ p \in DOMAIN l[i].calls /\ ~ l[i].copy /\ c = <<i, l[i].calls[p]>>
    /\ i + p \in DOMAIN l /\ (\A q \in 1..p : l[i + q].kind = "result") /\ l[i + p].outcome \in os

LEMMA AnswerOf ==
    ASSUME NEW l \in Seq(Message), NEW os, NEW c
    PROVE  /\ c \in AnsweredIn(l, os) => \E i, p : InLedger(l, os, c, i, p)
           /\ (\E i, p : InLedger(l, os, c, i, p)) => c \in AnsweredIn(l, os)
<1>1. ASSUME c \in AnsweredIn(l, os) PROVE \E i, p : InLedger(l, os, c, i, p)
    <2>1. PICK i \in {i \in DOMAIN l : ~ l[i].copy} :
             c \in {<<i, l[i].calls[p]>> :
                       p \in {p \in DOMAIN l[i].calls :
                                 /\ i + p \in DOMAIN l
                                 /\ \A q \in 1..p : l[i + q].kind = "result"
                                 /\ l[i + p].outcome \in os}}
        BY <1>1 DEF AnsweredIn
    <2>. QED
        BY <2>1 DEF InLedger
<1>2. ASSUME NEW i, NEW p, InLedger(l, os, c, i, p) PROVE c \in AnsweredIn(l, os)
    BY <1>2 DEF InLedger, AnsweredIn
<1>. QED
    BY <1>1, <1>2

LEMMA AnswerIs ==
    ASSUME NEW l \in Seq(Message), NEW os, NEW c, NEW i, NEW p, InLedger(l, os, c, i, p)
    PROVE  /\ i \in 1..Len(l) /\ i \in Nat /\ p \in Nat \ {0} /\ i + p \in 1..Len(l)
           /\ p \in DOMAIN l[i].calls /\ \A q \in 1..p : q \in DOMAIN l[i].calls
BY CallsOfRows, Rows DEF InLedger

LEMMA Within ==
    ASSUME NEW n \in Nat, NEW i \in Nat, NEW p \in Nat, 1 <= i, 1 <= p, i + p <= n
    PROVE  i \in 1..n /\ i + p \in 1..n /\ \A q \in 1..p : i + q \in 1..n
OBVIOUS

LEMMA Reach ==
    ASSUME NEW i \in Nat, NEW p \in Nat, NEW j \in Nat, i < j, j <= i + p
    PROVE  j - i \in 1..p /\ i + (j - i) = j
OBVIOUS

\* The rows k continue the rows l, and not with an answer.
Continues(l, k) ==
    /\ Len(l) < Len(k)
    /\ \A i \in 1..Len(l) : k[i] = l[i]
    /\ k[Len(l) + 1].kind # "result"
    /\ \A i \in (Len(l) + 1)..Len(k) : k[i].copy \/ i = Len(k)

\* Rows behind a row that is no answer answer nothing: they may issue calls.
LEMMA OthersIssue ==
    ASSUME NEW l \in Seq(Message), NEW k \in Seq(Message), Continues(l, k), NEW os
    PROVE  /\ IssuedIn(l) \subseteq IssuedIn(k)
           /\ AnsweredIn(k, os) = AnsweredIn(l, os)
<1>1. /\ DOMAIN l = 1..Len(l) /\ DOMAIN k = 1..Len(k) /\ Len(l) \in Nat /\ Len(k) \in Nat
      /\ Len(l) < Len(k)
    BY Rows DEF Continues
<1>2. ASSUME NEW c \in IssuedIn(l) PROVE c \in IssuedIn(k)
    <2>1. PICK i \in DOMAIN l : \E p \in DOMAIN l[i].calls : ~ l[i].copy /\ c = <<i, l[i].calls[p]>>
        BY IssueOf
    <2>2. i \in 1..Len(l) /\ i \in DOMAIN k
        BY <1>1, <2>1
    <2>3. k[i] = l[i]
        BY <2>2 DEF Continues
    <2>4. PICK p \in DOMAIN k[i].calls : ~ k[i].copy /\ c = <<i, k[i].calls[p]>>
        BY <2>1, <2>3
    <2>. QED
        BY <2>2, <2>4 DEF IssuedIn
<1>3. ASSUME NEW c, NEW i, NEW p, InLedger(l, os, c, i, p) PROVE InLedger(k, os, c, i, p)
    <2>1. i \in 1..Len(l) /\ i \in Nat /\ p \in Nat \ {0} /\ i + p \in 1..Len(l)
        BY <1>3, AnswerIs
    <2>2. i \in DOMAIN k /\ i + p \in DOMAIN k
        BY <1>1, <2>1
    <2>3. \A q \in 1..p : i + q \in 1..Len(l)
        BY <1>1, <2>1
    <2>4. k[i] = l[i] /\ k[i + p] = l[i + p] /\ \A q \in 1..p : k[i + q] = l[i + q]
        BY <2>1, <2>3 DEF Continues
    <2>. QED
        BY <1>3, <2>2, <2>4 DEF InLedger
<1>4. ASSUME NEW c, NEW i, NEW p, InLedger(k, os, c, i, p) PROVE InLedger(l, os, c, i, p)
    <2>1. i \in 1..Len(k) /\ i \in Nat /\ p \in Nat \ {0} /\ i + p \in 1..Len(k)
        BY <1>4, AnswerIs
    <2>2. i <= Len(l)
        <3>. SUFFICES ASSUME ~ (i <= Len(l)) PROVE FALSE
            OBVIOUS
        <3>1. Len(l) + 1 <= i /\ i < Len(k)
            <4>1. i \in Nat /\ p \in Nat /\ 1 <= p /\ i + p <= Len(k)
                BY <2>1
            <4>2. Len(l) \in Nat /\ Len(k) \in Nat
                BY <1>1
            <4>. QED
                BY <4>1, <4>2
        <3>2. i \in (Len(l) + 1)..Len(k) /\ i # Len(k)
            <4>1. i \in Nat /\ Len(l) \in Nat /\ Len(k) \in Nat
                BY <1>1, <2>1
            <4>. QED
                BY <3>1, <4>1
        <3>. QED
            BY <1>4, <3>2 DEF InLedger, Continues
    <2>3. i + p <= Len(l)
        <3>. SUFFICES ASSUME ~ (i + p <= Len(l)) PROVE FALSE
            OBVIOUS
        <3>0. i < Len(l) + 1 /\ Len(l) + 1 <= i + p /\ Len(l) + 1 \in Nat /\ p \in Nat
            BY <1>1, <2>1, <2>2
        <3>1. Len(l) + 1 - i \in 1..p /\ i + (Len(l) + 1 - i) = Len(l) + 1
            BY <2>1, <3>0, Reach
        <3>2. k[i + (Len(l) + 1 - i)].kind = "result"
            BY <1>4, <3>1 DEF InLedger
        <3>. QED
            BY <3>1, <3>2 DEF Continues
    <2>4. 1 <= i /\ 1 <= p /\ p \in Nat
        BY <2>1
    <2>5. i \in 1..Len(l) /\ i + p \in 1..Len(l) /\ \A q \in 1..p : i + q \in 1..Len(l)
        BY <1>1, <2>1, <2>3, <2>4, Within
    <2>6. i \in DOMAIN l /\ i + p \in DOMAIN l /\ k[i] = l[i] /\ k[i + p] = l[i + p]
        BY <1>1, <2>5 DEF Continues
    <2>7. \A q \in 1..p : k[i + q] = l[i + q]
        BY <2>5 DEF Continues
    <2>. QED
        BY <1>4, <2>6, <2>7 DEF InLedger
<1>5. \A c : c \in AnsweredIn(k, os) => c \in AnsweredIn(l, os)
    BY <1>4, AnswerOf
<1>6. \A c : c \in AnsweredIn(l, os) => c \in AnsweredIn(k, os)
    BY <1>3, AnswerOf
<1>. QED
    BY <1>2, <1>5, <1>6

\* A call whose answer is due has none yet, whatever the answer.
LEMMA DueIsOpen ==
    ASSUME NEW l \in Seq(Message), NEW b \in Nat \ {0}, Shape(l, b),
           NEW i \in b..Len(l), NEW p \in DOMAIN l[i].calls, i + p = Len(l) + 1, NEW os
    PROVE  /\ ~ l[i].copy => <<i, l[i].calls[p]>> \in IssuedIn(l)
           /\ <<i, l[i].calls[p]>> \notin AnsweredIn(l, os)
<1>1. /\ DOMAIN l = 1..Len(l) /\ Len(l) \in Nat /\ i \in DOMAIN l /\ i \in Nat
    BY Rows
<1>2. ~ l[i].copy => <<i, l[i].calls[p]>> \in IssuedIn(l)
    BY <1>1, IssueOf
<1>3. ASSUME NEW x, NEW q, InLedger(l, os, <<i, l[i].calls[p]>>, x, q) PROVE FALSE
    <2>1. x = i /\ q \in DOMAIN l[i].calls /\ l[i].calls[q] = l[i].calls[p] /\ i + q \in 1..Len(l)
        BY <1>1, <1>3 DEF InLedger
    <2>2. Clean(l[i])
        BY <1>1 DEF Shape
    <2>3. q = p
        BY <2>1, <2>2 DEF Clean
    <2>. QED
        BY <1>1, <2>1, <2>3
<1>. QED
    BY <1>2, <1>3, AnswerOf

\* The answer that is due answers its own call and no other.
LEMMA AnswerCounts ==
    ASSUME NEW l \in Seq(Message), NEW b \in Nat \ {0}, Shape(l, b),
           NEW i \in b..Len(l), NEW p \in DOMAIN l[i].calls, i + p = Len(l) + 1,
           NEW m \in Message, m.kind = "result", m.calls = <<>>, NEW os
    PROVE  /\ IssuedIn(Append(l, m)) = IssuedIn(l)
           /\ m.outcome \in os /\ ~ l[i].copy =>
                 AnsweredIn(Append(l, m), os) = AnsweredIn(l, os) \cup {<<i, l[i].calls[p]>>}
           /\ ~ (m.outcome \in os /\ ~ l[i].copy) =>
                 AnsweredIn(Append(l, m), os) = AnsweredIn(l, os)
<1>. DEFINE k == Append(l, m)
            n == Len(l)
<1>1. /\ k \in Seq(Message) /\ Len(k) = n + 1 /\ n \in Nat
      /\ \A x \in 1..n : k[x] = l[x]
      /\ k[n + 1] = m
      /\ DOMAIN l = 1..n /\ DOMAIN k = 1..(n + 1)
    BY Appended, Rows
<1>2. i \in 1..n /\ i \in Nat /\ p \in Nat \ {0} /\ \A q \in 1..p : q \in DOMAIN l[i].calls
    BY <1>1, CallsOfRows
<1>0. i + p = n + 1 /\ l[i].kind = "calls"
    BY <1>2, BlockIsNoResult
<1>. HIDE DEF k, n
<1>3. ASSUME NEW x \in DOMAIN k, NEW c \in DOMAIN k[x].calls
      PROVE  x \in 1..n /\ k[x] = l[x] /\ c \in DOMAIN l[x].calls
    <2>1. x # n + 1
        BY <1>1, <1>3
    <2>. QED
        BY <1>1, <1>3, <2>1
<1>4. ASSUME NEW c \in IssuedIn(k) PROVE c \in IssuedIn(l)
    <2>1. PICK x \in DOMAIN k : \E q \in DOMAIN k[x].calls : ~ k[x].copy /\ c = <<x, k[x].calls[q]>>
        BY IssueOf
    <2>2. x \in DOMAIN l /\ k[x] = l[x]
        BY <1>1, <1>3, <2>1
    <2>3. PICK q \in DOMAIN l[x].calls : ~ l[x].copy /\ c = <<x, l[x].calls[q]>>
        BY <2>1, <2>2
    <2>. QED
        BY <2>2, <2>3 DEF IssuedIn
<1>5. ASSUME NEW c \in IssuedIn(l) PROVE c \in IssuedIn(k)
    <2>1. PICK x \in DOMAIN l : \E q \in DOMAIN l[x].calls : ~ l[x].copy /\ c = <<x, l[x].calls[q]>>
        BY IssueOf
    <2>2. x \in DOMAIN k /\ k[x] = l[x]
        BY <1>1, <2>1
    <2>3. PICK q \in DOMAIN k[x].calls : ~ k[x].copy /\ c = <<x, k[x].calls[q]>>
        BY <2>1, <2>2
    <2>. QED
        BY <2>2, <2>3 DEF IssuedIn
<1>6. ASSUME NEW c, NEW x, NEW y, InLedger(l, os, c, x, y) PROVE InLedger(k, os, c, x, y)
    <2>1. x \in 1..n /\ x \in Nat /\ y \in Nat \ {0} /\ x + y \in 1..n
        BY <1>6, AnswerIs DEF n
    <2>2. x \in DOMAIN k /\ k[x] = l[x] /\ x + y \in DOMAIN k /\ k[x + y] = l[x + y]
        BY <1>1, <2>1
    <2>3. \A q \in 1..y : x + q \in 1..n
        BY <1>1, <2>1
    <2>4. \A q \in 1..y : k[x + q] = l[x + q]
        BY <1>1, <2>3
    <2>. QED
        BY <1>6, <2>2, <2>4 DEF InLedger
<1>7. ASSUME m.outcome \in os, ~ l[i].copy PROVE InLedger(k, os, <<i, l[i].calls[p]>>, i, p)
    <2>1. i \in DOMAIN k /\ k[i] = l[i] /\ i + p \in DOMAIN k /\ k[i + p] = m
        BY <1>0, <1>1, <1>2
    <2>2. ASSUME NEW q \in 1..p, q # p PROVE k[i + q].kind = "result"
        <3>1. q \in DOMAIN l[i].calls /\ i + q <= n /\ i + q \in 1..n
            BY <1>0, <1>1, <1>2, <2>2
        <3>2. l[i + q].kind = "result"
            BY <3>1 DEF Shape, InPlace, n
        <3>. QED
            BY <1>1, <3>1, <3>2
    <2>3. \A q \in 1..p : k[i + q].kind = "result"
        BY <2>1, <2>2
    <2>. QED
        BY <1>7, <2>1, <2>3 DEF InLedger
<1>8. ASSUME NEW c, NEW x, NEW y, InLedger(k, os, c, x, y)
      PROVE  InLedger(l, os, c, x, y) \/ (x = i /\ y = p /\ c = <<i, l[i].calls[p]>> /\ m.outcome \in os /\ ~ l[i].copy)
    <2>1. x \in 1..(n + 1) /\ x \in Nat /\ y \in Nat \ {0} /\ x + y \in 1..(n + 1) /\ y \in DOMAIN k[x].calls
        BY <1>1, <1>8, AnswerIs
    <2>2. x \in 1..n /\ k[x] = l[x] /\ y \in DOMAIN l[x].calls
        BY <1>1, <1>3, <2>1
    <2>3. CASE x + y <= n
        <3>1. x \in DOMAIN l /\ x + y \in DOMAIN l /\ k[x + y] = l[x + y]
            BY <1>1, <2>1, <2>2, <2>3
        <3>2. \A q \in 1..y : x + q \in 1..n
            BY <1>1, <2>1, <2>3
        <3>3. \A q \in 1..y : k[x + q] = l[x + q]
            BY <1>1, <3>2
        <3>. QED
            BY <1>8, <2>2, <3>1, <3>3 DEF InLedger
    <2>4. CASE x + y = n + 1
        <3>1. x >= i
            <4>. SUFFICES ASSUME x < i PROVE FALSE
                BY <1>2, <2>1
            <4>0. i <= x + y /\ y \in Nat
                BY <1>1, <1>2, <2>1, <2>4
            <4>1. i - x \in 1..y /\ x + (i - x) = i
                BY <1>2, <2>1, <4>0, Reach
            <4>2. k[i].kind = "result"
                BY <1>8, <4>1 DEF InLedger
            <4>. QED
                BY <1>0, <1>1, <1>2, <4>2
        <3>2. x \in b..n
            BY <1>1, <1>2, <2>2, <3>1 DEF n
        <3>3. x = i /\ y = p
            BY <1>0, <2>2, <2>4, <3>2, OnlyItsOwn DEF n
        <3>4. c = <<i, l[i].calls[p]>> /\ m.outcome \in os /\ ~ l[i].copy
            BY <1>0, <1>1, <1>8, <2>2, <3>3 DEF InLedger
        <3>. QED
            BY <3>3, <3>4
    <2>. QED
        BY <1>1, <2>1, <2>3, <2>4
<1>9. \A c : c \in AnsweredIn(l, os) => c \in AnsweredIn(k, os)
    BY <1>1, <1>6, AnswerOf
<1>10. m.outcome \in os /\ ~ l[i].copy => <<i, l[i].calls[p]>> \in AnsweredIn(k, os)
    BY <1>1, <1>7, AnswerOf
<1>11. \A c : c \in AnsweredIn(k, os) =>
          c \in AnsweredIn(l, os) \/ (c = <<i, l[i].calls[p]>> /\ m.outcome \in os /\ ~ l[i].copy)
    BY <1>1, <1>8, AnswerOf
<1>12. IssuedIn(k) = IssuedIn(l)
    BY <1>4, <1>5
<1>13. m.outcome \in os /\ ~ l[i].copy =>
          AnsweredIn(k, os) = AnsweredIn(l, os) \cup {<<i, l[i].calls[p]>>}
    BY <1>9, <1>10, <1>11
<1>14. ~ (m.outcome \in os /\ ~ l[i].copy) => AnsweredIn(k, os) = AnsweredIn(l, os)
    BY <1>9, <1>11
<1>. QED
    BY <1>12, <1>13, <1>14 DEF k

\* The ledger is what the refinement reads off the history.
LEMMA LedgerIs ==
    /\ IssuedCalls = IssuedIn(log)
    /\ \A os : AnsweredWith(os) = AnsweredIn(log, os)
BY DEF IssuedCalls, IssuedIn, AnsweredWith, AnsweredIn

Started == {starts[n] : n \in DOMAIN starts}
Known(l) == AnsweredIn(l, {"value", "missing"})
Unknown(l) == AnsweredIn(l, {"unknown"})

\* What the actions of the ledger say of the history.
LEMMA LedgerSteps ==
    /\ (/\ log' \in Seq(Message)
        /\ IssuedIn(log) \subseteq IssuedIn(log')
        /\ Started' = Started /\ Known(log') = Known(log) /\ Unknown(log') = Unknown(log))
       => Ledger!Next
    /\ \A c \in IssuedIn(log) :
          (/\ c \notin Started \cup Known(log) \cup Unknown(log) /\ Started' = Started \cup {c}
           /\ IssuedIn(log') = IssuedIn(log) /\ Known(log') = Known(log) /\ Unknown(log') = Unknown(log))
          => Ledger!Next
    /\ \A c \in IssuedIn(log) :
          (/\ c \in Started /\ c \notin Known(log) \cup Unknown(log)
           /\ Known(log') = Known(log) \cup {c}
           /\ IssuedIn(log') = IssuedIn(log) /\ Started' = Started /\ Unknown(log') = Unknown(log))
          => Ledger!Next
    /\ \A c \in IssuedIn(log) :
          (/\ c \notin Known(log) \cup Unknown(log)
           /\ Unknown(log') = Unknown(log) \cup {c}
           /\ IssuedIn(log') = IssuedIn(log) /\ Started' = Started /\ Known(log') = Known(log))
          => Ledger!Next
    /\ (/\ IssuedIn(log') = IssuedIn(log) /\ Started' = Started
        /\ Known(log') = Known(log) /\ Unknown(log') = Unknown(log))
       => UNCHANGED Ledger!ledger
<1>. USE LedgerIs DEF Started, Known, Unknown
<1>0. /\ IssuedCalls' = IssuedIn(log')
      /\ AnsweredWith({"value", "missing"})' = AnsweredIn(log', {"value", "missing"})
      /\ AnsweredWith({"unknown"})' = AnsweredIn(log', {"unknown"})
    BY DEF IssuedCalls, IssuedIn, AnsweredWith, AnsweredIn
<1>1. log' \in Seq(Message) => IssuedIn(log') \subseteq Nat \X CallIds
    BY IssuedIsTyped
<1>2. (/\ log' \in Seq(Message)
       /\ IssuedIn(log) \subseteq IssuedIn(log')
       /\ Started' = Started /\ Known(log') = Known(log) /\ Unknown(log') = Unknown(log))
      => Ledger!Issue
    BY <1>0, <1>1 DEF Ledger!Issue
<1>3. ASSUME NEW c \in IssuedIn(log),
             c \notin Started \cup Known(log) \cup Unknown(log), Started' = Started \cup {c},
             IssuedIn(log') = IssuedIn(log), Known(log') = Known(log), Unknown(log') = Unknown(log)
      PROVE  c \in IssuedCalls /\ Ledger!Start(c)
    BY <1>0, <1>3 DEF Ledger!Start, Ledger!answered
<1>4. ASSUME NEW c \in IssuedIn(log),
             c \in Started, c \notin Known(log) \cup Unknown(log), Known(log') = Known(log) \cup {c},
             IssuedIn(log') = IssuedIn(log), Started' = Started, Unknown(log') = Unknown(log)
      PROVE  c \in IssuedCalls /\ Ledger!Learn(c)
    BY <1>0, <1>4 DEF Ledger!Learn, Ledger!answered
<1>5. ASSUME NEW c \in IssuedIn(log),
             c \notin Known(log) \cup Unknown(log), Unknown(log') = Unknown(log) \cup {c},
             IssuedIn(log') = IssuedIn(log), Started' = Started, Known(log') = Known(log)
      PROVE  c \in IssuedCalls /\ Ledger!Disown(c)
    BY <1>0, <1>5 DEF Ledger!Disown, Ledger!answered
<1>6. (/\ IssuedIn(log') = IssuedIn(log) /\ Started' = Started
       /\ Known(log') = Known(log) /\ Unknown(log') = Unknown(log))
      => UNCHANGED Ledger!ledger
    BY <1>0 DEF Ledger!ledger
<1>. QED
    BY <1>2, <1>3, <1>4, <1>5, <1>6 DEF Ledger!Next

LEMMA SameLedger ==
    ASSUME UNCHANGED <<log, starts>> PROVE UNCHANGED Ledger!ledger
BY LedgerSteps DEF Started

\* Rows that answer nothing: the ledger may grow by the calls they hold.
LEMMA OthersStep ==
    ASSUME log \in Seq(Message), log' \in Seq(Message), Continues(log, log'), UNCHANGED starts
    PROVE  Ledger!Next
<1>1. IssuedIn(log) \subseteq IssuedIn(log')
    BY OthersIssue
<1>2. Known(log') = Known(log) /\ Unknown(log') = Unknown(log)
    BY OthersIssue DEF Known, Unknown
<1>3. Started' = Started
    BY DEF Started
<1>. QED
    BY <1>1, <1>2, <1>3, LedgerSteps

LEMMA OneContinues ==
    ASSUME NEW l \in Seq(Message), NEW m \in Message, m.kind # "result"
    PROVE  Append(l, m) \in Seq(Message) /\ Continues(l, Append(l, m))
<1>. DEFINE k == Append(l, m)
<1>1. /\ k \in Seq(Message) /\ Len(k) = Len(l) + 1 /\ Len(l) \in Nat
      /\ \A i \in 1..Len(l) : k[i] = l[i]
      /\ k[Len(l) + 1] = m
    BY Appended
<1>. HIDE DEF k
<1>2. \A i \in (Len(l) + 1)..Len(k) : i = Len(k)
    BY <1>1
<1>3. Len(l) < Len(k)
    BY <1>1
<1>4. Continues(l, k)
    BY <1>1, <1>2, <1>3 DEF Continues
<1>. QED
    BY <1>1, <1>4 DEF k

\* What a run persists, or persisted while it was given up, is a step of the
\* ledger: a block issues its calls, a result is learned, a repair disowns.
LEMMA CommittedStep ==
    ASSUME IInv, HInv, log' \in Committed, UNCHANGED starts
    PROVE  Ledger!Next \/ UNCHANGED Ledger!ledger
<1>0. /\ log \in Seq(Message) /\ boundary \in Nat \ {0} /\ Shape(log, boundary)
      /\ Started' = Started
    BY HistoryTypes DEF HInv, Started
<1>1. CASE pc \in {"user", "text"}
    <2>1. PICK k \in Kinds : k # "result" /\ log' = Append(log, Plain(k))
        BY <1>1 DEF Committed, Kinds
    <2>2. Plain(k) \in Message /\ Plain(k).kind # "result"
        BY <2>1, PlainIs
    <2>. QED
        BY <1>0, <2>1, <2>2, OneContinues, OthersStep
<1>2. CASE pc = "block"
    <2>1. log' = Append(log, Block(calls))
        BY <1>2 DEF Committed
    <2>2. Block(calls) \in Message /\ Block(calls).kind # "result"
        BY HistoryTypes, BlockIs DEF IInv, TurnOK
    <2>. QED
        BY <1>0, <2>1, <2>2, OneContinues, OthersStep
<1>3. CASE pc = "result"
    <2>. DEFINE m == Result(calls[pos], outcome)
                c == <<at, log[at].calls[pos]>>
    <2>1. log' = Append(log, m)
        BY <1>3 DEF Committed
    <2>2. /\ at \in boundary..Len(log) /\ pos \in DOMAIN log[at].calls /\ at + pos = Len(log) + 1
          /\ log[at].calls = calls /\ calls[pos] \in CallIds
        BY <1>3, ResultDue DEF Answering
    <2>3. m \in Message /\ m.kind = "result" /\ m.calls = <<>> /\ m.outcome = outcome
        BY <2>2, ResultIs DEF IInv, TypeOK
    <2>4. outcome \in {"value", "missing"} /\ c \in Started /\ ~ log[at].copy
        BY <1>3, <2>2 DEF HInv, Started, Answering
    <2>. HIDE DEF m
    <2>5. IssuedIn(log') = IssuedIn(log) /\ Known(log') = Known(log) \cup {c} /\ Unknown(log') = Unknown(log)
        <3>1. ASSUME NEW os
              PROVE  /\ IssuedIn(log') = IssuedIn(log)
                     /\ outcome \in os => AnsweredIn(log', os) = AnsweredIn(log, os) \cup {c}
                     /\ outcome \notin os => AnsweredIn(log', os) = AnsweredIn(log, os)
            BY <1>0, <2>1, <2>2, <2>3, <2>4, AnswerCounts
        <3>2. outcome \in {"value", "missing"} /\ outcome \notin {"unknown"}
            BY <2>4
        <3>. QED
            BY <3>1, <3>2 DEF Known, Unknown
    <2>6. c \in IssuedIn(log) /\ c \notin Known(log) \cup Unknown(log)
        BY <1>0, <2>2, <2>4, DueIsOpen DEF Known, Unknown
    <2>. QED
        BY <1>0, <2>4, <2>5, <2>6, LedgerSteps
<1>4. CASE pc \in {"opening", "closing"}
    <2>1. PICK a \in First : log' = Repaired(a)
        BY <1>4 DEF Committed
    <2>2. /\ a[1] \in boundary..Len(log) /\ a[2] \in DOMAIN log[a[1]].calls
          /\ a[1] + a[2] = Len(log) + 1
        BY <1>4, FirstIsNext DEF HInv, IInv
    <2>. DEFINE m == Result(CallAt(log, a), "unknown")
                c == <<a[1], log[a[1]].calls[a[2]]>>
    <2>3. log' = Append(log, m)
        BY <2>1 DEF Repaired
    <2>4. CallAt(log, a) \in CallIds
        BY <1>0, <2>2, CallsOfRows, Rows DEF CallAt
    <2>5. m \in Message /\ m.kind = "result" /\ m.calls = <<>> /\ m.outcome = "unknown"
        BY <2>4, ResultIs DEF Outcomes
    <2>. HIDE DEF m
    <2>6. /\ IssuedIn(log') = IssuedIn(log) /\ Known(log') = Known(log)
          /\ ~ log[a[1]].copy => Unknown(log') = Unknown(log) \cup {c}
          /\ log[a[1]].copy => Unknown(log') = Unknown(log)
        BY <1>0, <2>2, <2>3, <2>5, AnswerCounts DEF Known, Unknown
    <2>7. ~ log[a[1]].copy => c \in IssuedIn(log) /\ c \notin Known(log) \cup Unknown(log)
        BY <1>0, <2>2, DueIsOpen DEF Known, Unknown
    <2>8. CASE log[a[1]].copy
        BY <1>0, <2>6, <2>8, LedgerSteps
    <2>9. CASE ~ log[a[1]].copy
        BY <1>0, <2>6, <2>7, <2>9, LedgerSteps
    <2>. QED
        BY <2>8, <2>9
<1>. QED
    BY <1>1, <1>2, <1>3, <1>4 DEF Committed

\* A compaction copies rows that answer nothing new: the copies do not count.
LEMMA ReplaceStep ==
    ASSUME IInv, HInv, NEW k \in 0..Len(History), Replace(k)
    PROVE  Ledger!Next
<1>1. log' = log \o Copies(Replacement(k)) /\ UNCHANGED starts
    BY DEF Replace
<1>2. /\ log' \in Seq(Message) /\ Len(log') = Len(log) + k + 1 /\ k \in Nat /\ Len(log) \in Nat
      /\ \A x \in 1..Len(log) : log'[x] = log[x]
      /\ \A i \in 1..(k + 1) : log'[Len(log) + i].kind = Replacement(k)[i].kind /\ log'[Len(log) + i].copy
    BY <1>1, CopiedRows, HistoryTypes
<1>3. Replacement(k)[1].kind = "summary"
    BY ReplacementRows DEF Plain
<1>4. log'[Len(log) + 1].kind # "result" /\ Len(log) < Len(log')
    <2>1. 1 \in 1..(k + 1)
        BY <1>2
    <2>. QED
        BY <1>2, <1>3, <2>1
<1>5. ASSUME NEW i \in (Len(log) + 1)..Len(log') PROVE log'[i].copy
    <2>1. i - Len(log) \in 1..(k + 1) /\ Len(log) + (i - Len(log)) = i
        BY <1>2
    <2>. QED
        BY <1>2, <2>1
<1>6. Continues(log, log')
    BY <1>2, <1>4, <1>5 DEF Continues
<1>. QED
    BY <1>1, <1>2, <1>6, HistoryTypes, OthersStep

\* A tool is started for a call that nobody started or answered.
LEMMA StartStep ==
    ASSUME IInv, HInv, StartTool PROVE Ledger!Next
<1>. DEFINE c == <<at, calls[pos]>>
<1>1. pc = "tool" /\ starts' = Append(starts, c) /\ log' = log
    BY DEF StartTool
<1>2. /\ at \in boundary..Len(log) /\ pos \in DOMAIN log[at].calls /\ at + pos = Len(log) + 1
      /\ log[at].calls = calls /\ log \in Seq(Message) /\ boundary \in Nat \ {0} /\ Shape(log, boundary)
      /\ ~ log[at].copy
    BY <1>1, ResultDue, HistoryTypes DEF Answering, HInv
<1>3. c \in IssuedIn(log) /\ c \notin Known(log) \cup Unknown(log)
    BY <1>2, DueIsOpen DEF Known, Unknown
<1>4. ASSUME NEW n \in DOMAIN starts, starts[n] = c PROVE FALSE
    <2>1. PICK p \in DOMAIN calls : calls[pos] = calls[p] /\ p < pos
        BY <1>1, <1>4 DEF IInv, FreshOK
    <2>2. pos \in DOMAIN calls
        BY <1>2
    <2>3. p = pos
        BY <2>1, <2>2 DEF IInv, TurnOK
    <2>4. pos \in Nat
        BY DEF IInv, TypeOK
    <2>. QED
        BY <2>1, <2>3, <2>4
<1>5. Started' = Started \cup {c}
    <2>1. starts \in Seq(Nat \X CallIds) /\ c \in Nat \X CallIds
        <3>1. at \in Nat /\ calls[pos] \in CallIds
            BY <1>1, ResultDue DEF IInv, TypeOK, Answering
        <3>. QED
            BY <3>1 DEF IInv, TypeOK
    <2>2. /\ DOMAIN starts = 1..Len(starts) /\ Len(starts) \in Nat
          /\ DOMAIN starts' = 1..(Len(starts) + 1)
          /\ \A n \in 1..Len(starts) : starts'[n] = starts[n]
          /\ starts'[Len(starts) + 1] = c
        BY <1>1, <2>1, LenProperties, AppendProperties
    <2>3. ASSUME NEW x \in Started' PROVE x \in Started \cup {c}
        <3>1. PICK n \in 1..(Len(starts) + 1) : x = starts'[n]
            BY <2>2 DEF Started
        <3>2. CASE n = Len(starts) + 1
            BY <2>2, <3>1, <3>2
        <3>3. CASE n # Len(starts) + 1
            <4>1. n \in 1..Len(starts)
                BY <2>2, <3>1, <3>3
            <4>. QED
                BY <2>2, <3>1, <4>1 DEF Started
        <3>. QED
            BY <3>2, <3>3
    <2>4. \A n \in DOMAIN starts : n \in DOMAIN starts' /\ starts'[n] = starts[n]
        BY <2>2
    <2>5. Len(starts) + 1 \in DOMAIN starts'
        BY <2>2
    <2>6. \A x : x \in Started \cup {c} => x \in Started'
        BY <2>2, <2>4, <2>5 DEF Started
    <2>. QED
        BY <2>3, <2>6
<1>6. c \notin Started
    BY <1>4 DEF Started
<1>. QED
    BY <1>1, <1>3, <1>5, <1>6, LedgerSteps

\* The history keeps the promise of ToolLedger: no call is started after it was
\* answered or a second time, an answer is final and "unknown" is never revised
\* - whatever cancellation, crash, repair or compaction of agent.py and
\* session/manager.py comes between.
THEOREM LedgerRefined == Spec => ImplementsLedger
<1>1. Init => Ledger!Init
    <2>. SUFFICES ASSUME Init PROVE Ledger!Init
        OBVIOUS
    <2>1. log = <<>> /\ starts = <<>>
        BY DEF Init
    <2>2. IssuedIn(<<>>) = {} /\ \A os : AnsweredIn(<<>>, os) = {}
        BY DEF IssuedIn, AnsweredIn
    <2>3. {starts[n] : n \in DOMAIN starts} = {}
        BY <2>1
    <2>. QED
        BY <2>1, <2>2, <2>3, LedgerIs DEF Ledger!Init
<1>2. IInv /\ HInv /\ [Next]_vars => [Ledger!Next]_(Ledger!ledger)
    <2>. SUFFICES ASSUME IInv, HInv, [Next]_vars PROVE Ledger!Next \/ UNCHANGED Ledger!ledger
        OBVIOUS
    <2>1. CASE UNCHANGED <<log, starts>>
        BY <2>1, SameLedger
    <2>2. CASE log' \in Committed /\ UNCHANGED starts
        BY <2>2, CommittedStep
    <2>3. CASE StartTool
        BY <2>3, StartStep
    <2>4. CASE \E k \in 0..Len(History) : Replace(k)
        BY <2>4, ReplaceStep
    <2>5. ASSUME Next, ~ StartTool, ~ \E k \in 0..Len(History) : Replace(k)
          PROVE  UNCHANGED starts /\ (log' = log \/ log' \in Committed)
        <3>1. CASE Repair \/ AddUser \/ AddText \/ AddBlock \/ AddResult
            BY <3>1 DEF Repair, AddUser, AddText, AddBlock, AddResult, Close, Committed
        <3>2. CASE Interrupt \/ GiveUp \/ Crash
            BY <3>2 DEF Interrupt, GiveUp, Crash, Close
        <3>3. CASE ~ (Repair \/ AddUser \/ AddText \/ AddBlock \/ AddResult)
                   /\ ~ (Interrupt \/ GiveUp \/ Crash)
            BY <2>5, <3>3 DEF Next, Steps, Opened, Compact, NoCompact, RoundsExhausted,
                    Generate, StreamError, StreamFatal, Retry, StreamEnd, EndRun, StreamCall,
                    StreamDuplicate, ToolReturns, Refuse, BeginRun, BeginManual, Close
        <3>. QED
            BY <3>1, <3>2, <3>3
    <2>6. CASE UNCHANGED vars
        BY <2>6, SameLedger DEF vars
    <2>. QED
        BY <2>1, <2>2, <2>3, <2>4, <2>5, <2>6
<1>. QED
    BY <1>1, <1>2, HistoryInvariance, PTL DEF Spec, ImplementsLedger, Ledger!Spec

=============================================================================
