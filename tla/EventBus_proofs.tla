--------------------------- MODULE EventBus_proofs ---------------------------
(* The browser's position is honest and nothing foreign reaches it, for any *)
(* sessions, ring, queue and number of faults; and what the operator is     *)
(* asked through the browser authorizes what tools do, for any runs and     *)
(* definitions: no bound of the runs of TLC is used.                        *)
EXTENDS EventBus, ApprovalPromise, FiniteSetTheorems, SequenceTheorems, WellFoundedInduction, TLAPS

Entries == [type : {"event", "snapshot", "deleted"}, to : Sessions] \cup [type : {"catalog"}, to : {Global}]
Frames == [type : {"event", "snapshot", "catalog"}, to : Sessions \cup {Global}, cursor : Nat, epoch : Nat, events : Nat]
Positions == [cursor : Nat, epoch : Nat]
Messages == [type : {"subscribe", "unsubscribe"}, session : Sessions, after : Nat, epoch : Nat]
Hydrations == [session : Sessions, after : Nat, epoch : Nat, pc : {"begin", "reading", "read"},
               cut : Nat, got : Nat, current : BOOLEAN]
Subscribers == [session : Sessions \cup {NoSession}, ready : BOOLEAN, hydrating : BOOLEAN, code : Nat]

BusTyped ==
    /\ epoch \in Nat \ {0} /\ log \in Seq(Entries) /\ ring \subseteq 1..cursor /\ discarded \in 0..cursor
    /\ base \in [Sessions -> Nat] /\ exists \subseteq Sessions
ConnTyped ==
    /\ sub \in Subscribers
    /\ queue \in Seq(Frames) /\ sending \in Frames \cup {NoFrame} /\ hyds \in Seq(Hydrations)
    /\ verified \in Sessions \cup {NoSession} /\ left \subseteq Sessions /\ up \in Seq(Messages)
ClientTyped ==
    /\ client \in {"closed", "open", "stopped"} /\ want \in Sessions /\ pos \in Positions
    /\ kept \in [Sessions -> Positions] /\ seen \in [Sessions -> Nat]
TypeOK == BusTyped /\ ConnTyped /\ ClientTyped

\* The ring gives up its oldest frames first, and whatever event of a session is
\* not in it is not past "discarded"; it has nothing that a deletion made private.
RingInv ==
    /\ \A i \in 1..cursor \ ring : log[i].type = "event" /\ log[i].to \in exists =>
          i <= discarded /\ \A j \in ring : i < j
    /\ \A i \in ring :
          /\ log[i].type # "deleted" /\ log[i].to \in exists \cup {Global}
          /\ log[i].type # "event" => \A j \in i..cursor : log[j].type # "deleted"

\* Only the current subscription reads, is eligible and has frames in its queue.
Subscription ==
    /\ sub.ready \/ sub.hydrating =>
          sub.session # NoSession /\ sub.code = 0 /\ verified = sub.session /\ sub.session \in exists
    /\ queue # <<>> => sub.ready
    /\ \A k \in DOMAIN queue : queue[k].to \in {sub.session, Global} /\ queue[k].to \in exists \cup {Global}
    /\ \A i \in DOMAIN hyds : hyds[i].current =>
          /\ hyds[i].session = sub.session /\ sub.code = 0
          /\ hyds[i].pc = "read" => hyds[i].session \in exists

\* A snapshot that was read at a cut that still holds has every event.
Fresh ==
    \A i \in DOMAIN hyds : hyds[i].current /\ hyds[i].pc # "begin" =>
        /\ hyds[i].cut <= cursor
        /\ hyds[i].pc = "read" /\ hyds[i].cut = cursor => hyds[i].got = Made(hyds[i].session)

\* A frame says what was published.
Honest(f) ==
    /\ f.epoch = epoch /\ f.cursor \in 0..cursor
    /\ f.type \in {"event", "catalog"} => f.cursor > 0 /\ log[f.cursor] = Logged(f.type, f.to)
    /\ f.type = "catalog" => f.to = Global
    /\ f.type = "event" => f.to \in Sessions
    /\ f.type = "snapshot" => f.to \in Sessions /\ f.events = Upto(f.to, f.cursor)

\* The frames that arrive before the k-th of the queue, and all of them.
Sent == {sending} \ {NoFrame}
Ahead(k) == Sent \cup {queue[j] : j \in 1..(k - 1)}
Flight == Ahead(Len(queue) + 1)

\* After the frames F the browser knows every event up to cursor n, if its
\* position says anything of this epoch then.
Placed == pos.epoch = epoch
Resyncs(f) == f.type = "snapshot" /\ f.to = want
Covers(f, i) == f.to = want /\ (f.cursor = i \/ (f.type = "snapshot" /\ i <= f.cursor))
Complete(F, n) ==
    Placed \/ (\E f \in F : Resyncs(f)) =>
        \A i \in 1..n : log[i] = Logged("event", want) =>
            \/ Placed /\ i <= pos.cursor
            \/ \E f \in F : Covers(f, i)

\* Before a frame arrives that is counted, nothing it comes after is missing; nor
\* is anything, when all have arrived.
Counted(f) == f.type # "snapshot" /\ f.to \in {want, Global}
NoGap ==
    /\ \A f \in Sent : Counted(f) => Complete({}, f.cursor - 1)
    /\ \A k \in DOMAIN queue : Counted(queue[k]) => Complete(Ahead(k), queue[k].cursor - 1)
    /\ sub.ready /\ sub.session = want => Complete(Flight, cursor)

\* A snapshot that places the browser anew is not older than its transcript.
Recent(f) == Resyncs(f) /\ ~Placed /\ kept[want].epoch = epoch => kept[want].cursor <= f.cursor

FlightInv == NoGap /\ \A f \in Flight : Honest(f) /\ Recent(f)

\* What is asked for a session is no more than the browser has; on one connection
\* it asks for one session after the other.
Follows(m) == m.session = want /\ m.epoch = epoch => Placed /\ m.after <= pos.cursor
Stale == sub.session \in left \/ \E k \in DOMAIN up : up[k].session \in left
Following ==
    /\ \A k \in DOMAIN up : up[k].session \in left \cup {want} /\ (up[k].type = "subscribe" => Follows(up[k]))
    /\ \A i \in DOMAIN hyds : hyds[i].current => Follows(hyds[i])
    /\ sub.session \in left \cup {want, NoSession}
    /\ \A f \in Sent : f.to \in left \cup {want, Global}
    /\ want \notin left
    /\ Stale => pos = NoPos /\ sub.session # want /\ \A f \in Sent : f.to # want
    /\ \A k, l \in DOMAIN up : k < l /\ up[l].session \in left => up[k].session \in left
    /\ client # "open" =>
          sub = NoSub /\ queue = <<>> /\ sending = NoFrame /\ hyds = <<>> /\ up = <<>> /\ left = {}

\* The transcript that is shown is not ahead of the position.
Shown ==
    /\ pos.epoch <= epoch
    /\ Placed => kept[want].epoch = epoch /\ kept[want].cursor <= pos.cursor
    /\ \A s \in Sessions : kept[s].epoch <= epoch /\ (kept[s].epoch = epoch => kept[s].cursor <= cursor)
    /\ PositionHonest

\* The inductive invariant.
IInv == TypeOK /\ RingInv /\ Subscription /\ Fresh /\ FlightInv /\ Following /\ Shown

-----------------------------------------------------------------------------
(* Sequences and counts *)

LEMMA RemoveAtProperties ==
    ASSUME NEW T, NEW s \in Seq(T), NEW i \in DOMAIN s
    PROVE  /\ RemoveAt(s, i) \in Seq(T)
           /\ \A k \in DOMAIN RemoveAt(s, i) : \E j \in DOMAIN s : RemoveAt(s, i)[k] = s[j]
<1>1. Len(s) \in Nat /\ DOMAIN s = 1..Len(s)
    BY LenProperties
<1> DEFINE p == SubSeq(s, 1, i - 1)
           q == SubSeq(s, i + 1, Len(s))
<1>2. p \in Seq(T) /\ Len(p) = i - 1 /\ \A k \in 1..(i - 1) : p[k] = s[k]
  <2>1. i \in 1..Len(s)
      BY <1>1
  <2>2. 1 \in 1..Len(s) + 1 /\ i - 1 \in (1 - 1)..Len(s) /\ i \in Nat
      BY <1>1, <2>1
  <2> QED
      BY <1>1, <2>2, SubSeqProperties
<1>3. q \in Seq(T) /\ Len(q) = Len(s) - i /\ \A k \in 1..(Len(s) - i) : q[k] = s[i + k]
  <2>1. i \in 1..Len(s)
      BY <1>1
  <2>2. i + 1 \in 1..Len(s) + 1 /\ Len(s) \in i..Len(s)
      BY <1>1, <2>1
  <2>3. q \in Seq(T) /\ Len(q) = IF i + 1 <= Len(s) THEN Len(s) - (i + 1) + 1 ELSE 0
      BY <1>1, <2>2, SubSeqProperties
  <2>4. Len(q) = Len(s) - i
      BY <1>1, <2>1, <2>3
  <2> QED
      BY <1>1, <2>1, <2>2, <2>3, <2>4, SubSeqProperties
<1> HIDE DEF p, q
<1>4. p \o q \in Seq(T) /\ Len(p \o q) = Len(s) - 1
      /\ \A k \in 1..(Len(s) - 1) : (p \o q)[k] = IF k <= Len(p) THEN p[k] ELSE q[k - Len(p)]
  <2>1. p \o q \in Seq(T) /\ Len(p \o q) = Len(p) + Len(q)
      BY <1>2, <1>3, ConcatProperties
  <2>2. \A k \in 1..(Len(p) + Len(q)) : (p \o q)[k] = IF k <= Len(p) THEN p[k] ELSE q[k - Len(p)]
      BY <1>2, <1>3, ConcatProperties
  <2>3. Len(p) + Len(q) = Len(s) - 1
      BY <1>1, <1>2, <1>3
  <2> QED
      BY <2>1, <2>2, <2>3
<1>5. ASSUME NEW k \in 1..(Len(s) - 1) PROVE \E j \in DOMAIN s : (p \o q)[k] = s[j]
  <2>1. CASE k <= i - 1
      BY <1>1, <1>2, <1>4, <2>1
  <2>2. CASE ~(k <= i - 1)
    <3>1. k - (i - 1) \in 1..(Len(s) - i) /\ i + (k - (i - 1)) = k + 1 /\ k + 1 \in DOMAIN s
        BY <1>1, <2>2
    <3>2. (p \o q)[k] = q[k - (i - 1)]
        BY <1>1, <1>2, <1>4, <2>2
    <3>3. q[k - (i - 1)] = s[i + (k - (i - 1))]
        BY <1>3, <3>1
    <3> QED
        BY <3>1, <3>2, <3>3
  <2> QED
      BY <2>1, <2>2
<1>6. DOMAIN (p \o q) = 1..(Len(s) - 1)
    BY <1>4, LenProperties
<1> QED
    BY <1>4, <1>5, <1>6 DEF RemoveAt, p, q

\* The events of a session up to a cursor.
EventsTo(s, n) == {i \in 1..n : log[i] = Logged("event", s)}

LEMMA EventsAreFinite ==
    ASSUME NEW s, NEW n \in Nat
    PROVE  IsFiniteSet(EventsTo(s, n)) /\ Cardinality(EventsTo(s, n)) \in Nat
<1>1. IsFiniteSet(1..n)
    BY FS_Interval
<1>2. EventsTo(s, n) \in SUBSET (1..n)
    BY DEF EventsTo
<1>3. IsFiniteSet(EventsTo(s, n))
    BY <1>1, <1>2, FS_Subset
<1> QED
    BY <1>3, FS_CardinalityType

LEMMA UptoIsNat ==
    ASSUME base \in [Sessions -> Nat], NEW s \in Sessions, NEW n \in Nat
    PROVE  Upto(s, n) \in Nat
<1>1. Upto(s, n) = base[s] + Cardinality(EventsTo(s, n))
    BY DEF Upto, EventsTo
<1> QED
    BY <1>1, EventsAreFinite

LEMMA UptoGrows ==
    ASSUME base \in [Sessions -> Nat], NEW s \in Sessions, NEW n \in Nat, NEW m \in Nat, n <= m
    PROVE  Upto(s, n) <= Upto(s, m)
<1>1. EventsTo(s, n) \in SUBSET EventsTo(s, m)
    BY DEF EventsTo
<1>2. Cardinality(EventsTo(s, n)) <= Cardinality(EventsTo(s, m))
    BY <1>1, EventsAreFinite, FS_Subset
<1>3. Upto(s, n) = base[s] + Cardinality(EventsTo(s, n)) /\ Upto(s, m) = base[s] + Cardinality(EventsTo(s, m))
    BY DEF Upto, EventsTo
<1> QED
    BY <1>2, <1>3, EventsAreFinite

\* Where there is no event, the count stays.
LEMMA UptoSkips ==
    ASSUME NEW s, NEW n \in Nat, NEW m \in Nat, n <= m,
           \A i \in (n + 1)..m : log[i] # Logged("event", s)
    PROVE  Upto(s, m) = Upto(s, n)
<1>1. EventsTo(s, n) = EventsTo(s, m)
    BY DEF EventsTo
<1> QED
    BY <1>1 DEF Upto, EventsTo

\* The next event counts one more.
LEMMA UptoCounts ==
    ASSUME base \in [Sessions -> Nat], NEW s \in Sessions, NEW n \in Nat, NEW c \in Nat, n < c,
           log[c] = Logged("event", s), \A i \in (n + 1)..(c - 1) : log[i] # Logged("event", s)
    PROVE  Upto(s, c) = Upto(s, n) + 1
<1>1. EventsTo(s, c) = EventsTo(s, n) \cup {c} /\ c \notin EventsTo(s, n)
    BY DEF EventsTo
<1>2. Cardinality(EventsTo(s, c)) = Cardinality(EventsTo(s, n)) + 1
    BY <1>1, EventsAreFinite, FS_AddElement
<1>3. Upto(s, n) = base[s] + Cardinality(EventsTo(s, n)) /\ Upto(s, c) = base[s] + Cardinality(EventsTo(s, c))
    BY DEF Upto, EventsTo
<1> QED
    BY <1>2, <1>3, EventsAreFinite

\* What was published stays as it was.
LEMMA UptoStays ==
    ASSUME NEW s, NEW n \in Nat, base' = base, \A i \in 1..n : log'[i] = log[i]
    PROVE  Upto(s, n)' = Upto(s, n)
<1>1. EventsTo(s, n)' = EventsTo(s, n)
    BY DEF EventsTo
<1> QED
    BY <1>1 DEF Upto, EventsTo

LEMMA LogGrows ==
    ASSUME log \in Seq(Entries), NEW e \in Entries, log' = Append(log, e)
    PROVE  /\ cursor \in Nat /\ log' \in Seq(Entries) /\ cursor' = cursor + 1
           /\ \A i \in 1..cursor : log'[i] = log[i]
           /\ log'[cursor + 1] = e
    BY LenProperties, AppendProperties DEF cursor

\* Max of a non-empty set of cursors is its largest.
LEMMA MaxProperties ==
    ASSUME NEW n \in Nat, NEW S \in SUBSET (1..n), S # {}
    PROVE  Max(S) \in S /\ \A y \in S : y <= Max(S)
<1> DEFINE R == {ss \in Nat \X Nat : ss[1] < ss[2]}
           T == {n - x : x \in S}
<1>1. IsWellFoundedOn(R, Nat)
    BY NatLessThanWellFounded DEF OpToRel
<1>2. T \subseteq Nat /\ T # {}
  <2>1. \A x \in S : n - x \in Nat
      OBVIOUS
  <2> QED
      BY <2>1
<1>3. PICK t \in T : \A u \in T : ~ (<<u, t>> \in R)
  <2> HIDE DEF R, T
  <2> QED
      BY <1>1, <1>2, WFMin
<1>4. PICK x \in S : t = n - x
    OBVIOUS
<1>5. ASSUME NEW y \in S PROVE y <= x
  <2> DEFINE ut == <<n - y, t>>
  <2>1. n - y \in T /\ n - y \in Nat /\ t \in Nat
      BY <1>2
  <2>2. ut \in Nat \X Nat /\ ut[1] = n - y /\ ut[2] = t
      BY <2>1
  <2>3. ~ (ut[1] < ut[2])
      BY <1>3, <2>1, <2>2
  <2> QED
      BY <1>4, <2>2, <2>3
<1> HIDE DEF T
<1> QED
    BY <1>4, <1>5 DEF Max

-----------------------------------------------------------------------------
(* Types *)

\* The connection has nothing to give: nothing is subscribed, queued or read.
CutOff ==
    /\ sub' \in Subscribers /\ sub'.session = NoSession /\ ~sub'.ready /\ ~sub'.hydrating
    /\ queue' = <<>>
    /\ hyds' \in Seq(Hydrations) /\ \A i \in DOMAIN hyds' : ~hyds'[i].current

LEMMA OutdatedProperties ==
    ASSUME hyds \in Seq(Hydrations)
    PROVE  /\ Outdated \in Seq(Hydrations) /\ DOMAIN Outdated = DOMAIN hyds
           /\ \A i \in DOMAIN Outdated : ~Outdated[i].current
<1>1. Len(hyds) \in Nat /\ DOMAIN hyds = 1..Len(hyds) /\ hyds \in [1..Len(hyds) -> Hydrations]
    BY LenProperties
<1>2. \A h \in Hydrations : [h EXCEPT !.current = FALSE] \in Hydrations /\ ~[h EXCEPT !.current = FALSE].current
    BY DEF Hydrations
<1> HIDE DEF Hydrations
<1>3. Outdated \in [1..Len(hyds) -> Hydrations]
    BY <1>1, <1>2 DEF Outdated
<1>4. Outdated \in Seq(Hydrations)
    BY <1>1, <1>3, SeqDef
<1> QED
    BY <1>1, <1>2, <1>3, <1>4 DEF Outdated

LEMMA CloseCuts ==
    ASSUME TypeOK, NEW code \in Nat, Close(code)
    PROVE  CutOff
<1>1. hyds \in Seq(Hydrations) /\ sub.code \in Nat
    BY DEF TypeOK, ConnTyped, Subscribers
<1>2. sub' \in Subscribers /\ sub'.session = NoSession /\ ~sub'.ready /\ ~sub'.hydrating
    BY <1>1 DEF Close, Subscribers, NoSub
<1> QED
    BY <1>1, <1>2, OutdatedProperties DEF Close, CutOff

LEMMA DisconnectedCuts ==
    ASSUME Disconnected
    PROVE  CutOff
<1>1. hyds' \in Seq(Hydrations) /\ DOMAIN hyds' = {}
    BY EmptySeq, LenProperties DEF Disconnected
<1> QED
    BY <1>1 DEF Disconnected, CutOff, Subscribers, NoSub

LEMMA FailsCuts ==
    ASSUME TypeOK, NEW i \in DOMAIN hyds, NEW code \in Nat, Fails(i, code)
    PROVE  CutOff
<1>1. hyds \in Seq(Hydrations)
    BY DEF TypeOK, ConnTyped
<1>2. hyds' \in Seq(Hydrations) /\ \A k \in DOMAIN hyds' : \E j \in DOMAIN Outdated : hyds'[k] = Outdated[j]
    BY <1>1, OutdatedProperties, RemoveAtProperties DEF Fails
<1>3. sub' \in Subscribers /\ sub'.session = NoSession /\ ~sub'.ready /\ ~sub'.hydrating
    BY DEF Fails, Subscribers, NoSub
<1> QED
    BY <1>1, <1>2, <1>3, OutdatedProperties DEF Fails, CutOff

LEMMA LogTyped ==
    ASSUME BusTyped
    PROVE  cursor \in Nat /\ DOMAIN log = 1..cursor /\ \A i \in 1..cursor : log[i] \in Entries
    BY LenProperties, ElementOfSeq DEF BusTyped, cursor

LEMMA MadeIsNat == ASSUME BusTyped, NEW s \in Sessions PROVE Made(s) \in Nat
    BY LogTyped, UptoIsNat DEF Made, BusTyped

LEMMA FrameTyped ==
    ASSUME BusTyped, NEW n \in Nat \ {0}, NEW e \in Entries, e.type # "deleted"
    PROVE  Frame(e, n) \in Frames
<1>1. e.type = "snapshot" => e.to \in Sessions
    BY DEF Entries
<1>2. e.type = "snapshot" => Upto(e.to, n - 1) \in Nat
  <2>1. base \in [Sessions -> Nat] /\ n - 1 \in Nat
      BY DEF BusTyped
  <2> QED
      BY <1>1, <2>1, UptoIsNat
<1>3. e.type \in {"event", "snapshot", "catalog"} /\ e.to \in Sessions \cup {Global}
    BY DEF Entries
<1> QED
    BY <1>2, <1>3 DEF Frame, Frames, BusTyped

-----------------------------------------------------------------------------
(* A connection that is cut off, or gone *)

LEMMA FlightIs ==
    ASSUME queue \in Seq(Frames)
    PROVE  Flight = Sent \cup {queue[k] : k \in DOMAIN queue}
<1>1. Len(queue) \in Nat /\ DOMAIN queue = 1..Len(queue)
    BY LenProperties
<1> QED
    BY <1>1 DEF Flight, Ahead

\* The log and what is counted against it did not change.
SameView == UNCHANGED <<epoch, log, base, pos, want, kept, seen>>

LEMMA ViewKept ==
    ASSUME SameView
    PROVE  /\ \A f : Honest(f) => Honest(f)'
           /\ \A f : Recent(f) => Recent(f)'
           /\ \A F, n : Complete(F, n) => Complete(F, n)'
           /\ \A f : Counted(f)' <=> Counted(f)
           /\ cursor' = cursor /\ (Placed' <=> Placed)
           /\ Shown => Shown'
    BY DEF SameView, Honest, Recent, Complete, Counted, Placed, Resyncs, Covers, Upto, cursor, Shown, PositionHonest, Made

\* Something was published.
Grown(e) == e \in Entries /\ log' = Append(log, e) /\ UNCHANGED <<epoch, base, pos, want, kept, seen>>

\* What is said of the log up to a cursor stays true of a longer one.
LEMMA ViewGrows ==
    ASSUME TypeOK, NEW e, Grown(e)
    PROVE  /\ \A f : Honest(f) => Honest(f)'
           /\ \A f : Recent(f) => Recent(f)'
           /\ \A F : \A n \in Int : n <= cursor /\ Complete(F, n) => Complete(F, n)'
           /\ \A f : Counted(f)' <=> Counted(f)
           /\ cursor \in Nat /\ cursor' = cursor + 1 /\ log'[cursor + 1] = e /\ (\A i \in 1..cursor : log'[i] = log[i])
           /\ (Placed' <=> Placed)
           /\ Shown => Shown'
<1>1. cursor \in Nat /\ cursor' = cursor + 1 /\ log'[cursor + 1] = e /\ \A i \in 1..cursor : log'[i] = log[i]
    BY LogGrows DEF Grown, TypeOK, BusTyped
<1>2. UNCHANGED <<epoch, base, pos, want, kept, seen>>
    BY DEF Grown
<1>3. ASSUME NEW s, NEW n \in 0..cursor PROVE Upto(s, n)' = Upto(s, n)
  <2>1. n \in Nat /\ \A i \in 1..n : log'[i] = log[i]
      BY <1>1
  <2> QED
      BY <1>2, <2>1, UptoStays
<1>4. ASSUME NEW f, Honest(f) PROVE Honest(f)'
  <2>1. f.cursor \in 0..cursor /\ f.cursor \in 0..cursor' /\ (f.cursor > 0 => log'[f.cursor] = log[f.cursor])
      BY <1>1, <1>4 DEF Honest
  <2>2. Upto(f.to, f.cursor)' = Upto(f.to, f.cursor)
      BY <1>3, <2>1
  <2> QED
      BY <1>2, <1>4, <2>1, <2>2 DEF Honest
<1>5. (\A f : Recent(f) => Recent(f)') /\ (\A f : Counted(f)' <=> Counted(f)) /\ (Placed' <=> Placed)
    BY <1>2 DEF Recent, Resyncs, Counted, Placed
<1>6. ASSUME NEW F, NEW n \in Int, n <= cursor, Complete(F, n) PROVE Complete(F, n)'
    BY <1>1, <1>2, <1>6 DEF Complete, Placed, Resyncs, Covers
<1>7. ASSUME Shown PROVE Shown'
  <2>1. base \in [Sessions -> Nat] /\ base' = base /\ epoch' = epoch
      BY <1>2 DEF TypeOK, BusTyped
  <2>2. \A s \in Sessions : Made(s) \in Nat /\ Made(s)' \in Nat /\ Made(s) <= Made(s)'
    <3> SUFFICES ASSUME NEW s \in Sessions PROVE Made(s) \in Nat /\ Made(s)' \in Nat /\ Made(s) <= Made(s)'
        OBVIOUS
    <3>1. Made(s) = base[s] + Cardinality(EventsTo(s, cursor))
        BY DEF Made, Upto, EventsTo
    <3>2. Made(s)' = base[s] + Cardinality(EventsTo(s, cursor)')
        BY <2>1 DEF Made, Upto, EventsTo
    <3>3. EventsTo(s, cursor) = {i \in 1..cursor : log[i] = Logged("event", s)}
          /\ EventsTo(s, cursor)' = {i \in 1..cursor' : log'[i] = Logged("event", s)}
        BY DEF EventsTo
    <3>4. EventsTo(s, cursor) \in SUBSET EventsTo(s, cursor)' /\ EventsTo(s, cursor)' \in SUBSET (1..cursor')
        BY <1>1, <3>3
    <3>5. cursor' \in Int /\ 1 \in Int
        BY <1>1
    <3>6. IsFiniteSet(1..cursor')
        BY <3>5, FS_Interval
    <3>7. IsFiniteSet(EventsTo(s, cursor)')
        BY <3>4, <3>6, FS_Subset
    <3>8. Cardinality(EventsTo(s, cursor)) <= Cardinality(EventsTo(s, cursor)')
          /\ IsFiniteSet(EventsTo(s, cursor))
        BY <3>4, <3>7, FS_Subset
    <3>9. Cardinality(EventsTo(s, cursor)) \in Nat /\ Cardinality(EventsTo(s, cursor)') \in Nat
        BY <3>7, <3>8, FS_CardinalityType
    <3> QED
        BY <2>1, <3>1, <3>2, <3>8, <3>9
  <2>3. /\ pos.cursor \in Nat /\ want \in Sessions
        /\ \A s \in Sessions : seen[s] \in Nat /\ kept[s].cursor \in Nat
      BY DEF TypeOK, ClientTyped, Positions
  <2>4. \A s \in Sessions : seen[s] <= Made(s)'
      BY <1>7, <2>2, <2>3 DEF Shown, PositionHonest
  <2>5. Placed => pos.cursor <= cursor' /\ seen[want] = Upto(want, pos.cursor)'
    <3> SUFFICES ASSUME Placed PROVE pos.cursor <= cursor' /\ seen[want] = Upto(want, pos.cursor)'
        OBVIOUS
    <3>1. pos.cursor <= cursor /\ seen[want] = Upto(want, pos.cursor)
        BY <1>7 DEF Shown, PositionHonest, Placed
    <3>2. \A s, n : s = want /\ n = pos.cursor => Upto(s, n)' = Upto(s, n)
        BY <1>1, <1>3, <2>3, <3>1
    <3> QED
        BY <1>1, <1>2, <2>3, <3>1, <3>2
  <2>6. \A s \in Sessions : kept[s].epoch = epoch => kept[s].cursor <= cursor' /\ seen[s] = Upto(s, kept[s].cursor)'
    <3> SUFFICES ASSUME NEW s \in Sessions, kept[s].epoch = epoch
                 PROVE  kept[s].cursor <= cursor' /\ seen[s] = Upto(s, kept[s].cursor)'
        OBVIOUS
    <3>1. kept[s].cursor <= cursor /\ seen[s] = Upto(s, kept[s].cursor)
        BY <1>7 DEF Shown, PositionHonest
    <3>2. \A n : n = kept[s].cursor => Upto(s, n)' = Upto(s, n)
        BY <1>1, <1>3, <2>3, <3>1
    <3> QED
        BY <1>1, <1>2, <2>3, <3>1, <3>2
  <2>7. PositionHonest'
      BY <1>2, <2>4, <2>5, <2>6 DEF PositionHonest, Placed
  <2> QED
      BY <1>2, <1>7, <2>6, <2>7 DEF Shown, Placed
<1> QED
    BY <1>1, <1>4, <1>5, <1>6, <1>7

\* With an empty queue that nothing fills, only the frame under way counts.
LEMMA FlightCut ==
    ASSUME TypeOK, FlightInv, SameView \/ (\E e : Grown(e)),
           queue' = <<>>, ~sub'.ready, sending' \in {sending, NoFrame}
    PROVE  FlightInv'
<1>1. Sent' \subseteq Sent
    BY DEF Sent
<1>2. DOMAIN queue' = {} /\ queue' \in Seq(Frames)
    BY EmptySeq, LenProperties
<1>3. Flight' \subseteq Flight
  <2>1. Flight = Sent \cup {queue[k] : k \in DOMAIN queue}
      BY FlightIs DEF TypeOK, ConnTyped
  <2>2. Flight' = Sent' \cup {queue'[k] : k \in DOMAIN queue'}
    <3>1. Len(queue') = 0 /\ DOMAIN queue' = 1..0
        BY <1>2, EmptySeq, LenProperties
    <3> QED
        BY <3>1 DEF Flight, Ahead
  <2> QED
      BY <1>1, <1>2, <2>1, <2>2
<1>0. \A f : /\ Honest(f) => Honest(f)'
             /\ Recent(f) => Recent(f)'
             /\ Counted(f)' <=> Counted(f)
    BY ViewKept, ViewGrows
<1>4. ASSUME NEW f \in Sent', Counted(f)' PROVE Complete({}, f.cursor - 1)'
  <2>1. Honest(f) /\ Complete({}, f.cursor - 1) /\ f.cursor - 1 \in Int /\ f.cursor - 1 <= cursor
    <3>1. f \in Flight /\ cursor \in Nat
        BY <1>1, LogTyped DEF Flight, Ahead, TypeOK
    <3> QED
        BY <1>0, <1>1, <1>4, <3>1 DEF FlightInv, NoGap, Honest
  <2>2. ASSUME NEW e, Grown(e) PROVE Complete({}, f.cursor - 1)'
      BY <2>1, <2>2, ViewGrows
  <2>3. SameView => Complete({}, f.cursor - 1)'
      BY <2>1, ViewKept
  <2> QED
      BY <2>2, <2>3
<1>5. NoGap'
    BY <1>2, <1>4 DEF NoGap
<1> QED
    BY <1>0, <1>3, <1>5 DEF FlightInv

LEMMA SubscriptionCut == ASSUME CutOff PROVE Subscription' /\ Fresh'
<1>1. DOMAIN queue' = {}
    BY EmptySeq, LenProperties DEF CutOff
<1> QED
    BY <1>1 DEF CutOff, Subscription, Fresh

LEMMA RingKept ==
    ASSUME RingInv, UNCHANGED <<log, ring, discarded, exists>>
    PROVE  RingInv'
    BY DEF RingInv, cursor

\* The connection is being closed.
LEMMA CloseStep ==
    ASSUME BusAssumption, IInv, CutOff, sending' \in {sending, NoFrame}, client = "open",
           up' = up \/ (up # <<>> /\ up' = Tail(up)), verified' = verified,
           SameView \/ (\E e : Grown(e)), BusTyped', RingInv', Shown',
           UNCHANGED <<epoch, left, clientvars>>
    PROVE  IInv'
<1>1. up' \in Seq(Messages) /\ \A k \in DOMAIN up' : \E j \in DOMAIN up : up'[k] = up[j] /\ j >= k /\ (up' # up => j = k + 1)
                            /\ (up' = up => j = k)
  <2>0. up \in Seq(Messages) /\ Len(up) \in Nat /\ DOMAIN up = 1..Len(up)
      BY LenProperties DEF IInv, TypeOK, ConnTyped
  <2>1. CASE up' = up
      BY <2>0, <2>1
  <2>2. CASE up # <<>> /\ up' = Tail(up)
    <3> DEFINE t == Tail(up)
    <3>1. t \in Seq(Messages) /\ Len(t) = Len(up) - 1 /\ \A i \in 1..Len(t) : t[i] = up[i + 1]
        BY <2>0, <2>2, HeadTailProperties
    <3> HIDE DEF t
    <3>2. DOMAIN t = 1..Len(t)
        BY <3>1, LenProperties
    <3>3. up' = t
        BY <2>2 DEF t
    <3>4. up' # up
        BY <2>0, <3>1, <3>3
    <3>5. \A i \in DOMAIN t : t[i] = up[i + 1] /\ i + 1 \in DOMAIN up /\ i + 1 >= i
        BY <2>0, <3>1, <3>2
    <3> QED
        BY <3>1, <3>3, <3>4, <3>5
  <2> QED
      BY <2>1, <2>2
<1>2. TypeOK'
  <2>1. BusTyped' /\ ClientTyped'
      BY DEF IInv, TypeOK, ClientTyped, clientvars
  <2>2. ConnTyped'
      BY <1>1, EmptySeq DEF IInv, TypeOK, ConnTyped, CutOff
  <2> QED
      BY <2>1, <2>2 DEF TypeOK
<1>4. Subscription' /\ Fresh'
    BY SubscriptionCut
<1>5. FlightInv'
    BY FlightCut DEF IInv, CutOff
<1>7. Following'
  <2>1. Following
      BY DEF IInv
  <2>2. UNCHANGED <<left, want, epoch, pos, client>>
      BY DEF clientvars
  <2>3. \A m : Follows(m)' <=> Follows(m)
      BY <2>2 DEF Follows, Placed
  <2>4. Sent' \subseteq Sent
      BY DEF Sent
  <2>5. NoSession \notin left /\ sub'.session = NoSession
      BY BusAssumption DEF IInv, TypeOK, ConnTyped, CutOff
  <2>6. Stale' => Stale
      BY <1>1, <2>2, <2>5 DEF Stale
  <2>7. \A k \in DOMAIN up' : up'[k].session \in left \cup {want} /\ (up'[k].type = "subscribe" => Follows(up'[k]))
      BY <1>1, <2>1 DEF Following
  <2>8. \A k, l \in DOMAIN up' : k < l /\ up'[l].session \in left => up'[k].session \in left
    <3> SUFFICES ASSUME NEW k \in DOMAIN up', NEW l \in DOMAIN up', k < l, up'[l].session \in left
                 PROVE  up'[k].session \in left
        OBVIOUS
    <3>1. PICK j \in DOMAIN up, i \in DOMAIN up : up'[k] = up[j] /\ up'[l] = up[i]
                 /\ (up' # up => j = k + 1 /\ i = l + 1) /\ (up' = up => j = k /\ i = l)
        BY <1>1
    <3>2. k \in Nat /\ l \in Nat
        BY <1>1, LenProperties
    <3>3. j < i
        BY <3>1, <3>2
    <3> QED
        BY <2>1, <3>1, <3>3 DEF Following
  <2>9. sub'.session # want
      BY <2>5, BusAssumption DEF IInv, TypeOK, ClientTyped
  <2>10. client' = "open"
      BY <2>2
  <2>11. \A i \in DOMAIN hyds' : ~hyds'[i].current
      BY DEF CutOff
  <2>12. \A f \in Sent' : f.to \in left \cup {want, Global} /\ (Stale' => f.to # want)
      BY <2>1, <2>4, <2>6 DEF Following
  <2>13. Stale' => pos = NoPos
      BY <2>1, <2>6 DEF Following
  <2>14. (\A k \in DOMAIN up : up[k].session \in left \cup {want} /\ (up[k].type = "subscribe" => Follows(up[k])))'
      BY <2>2, <2>3, <2>7
  <2> QED
      BY <2>1, <2>2, <2>5, <2>8, <2>9, <2>10, <2>11, <2>12, <2>13, <2>14 DEF Following
<1> QED
    BY <1>2, <1>4, <1>5, <1>7 DEF IInv

LEMMA SameBus ==
    ASSUME IInv, UNCHANGED busvars
    PROVE  BusTyped' /\ RingInv'
    BY RingKept DEF IInv, TypeOK, BusTyped, busvars, cursor

LEMMA CutStep ==
    ASSUME BusAssumption, IInv, CutOff, sending' \in {sending, NoFrame}, client = "open",
           up' = up \/ (up # <<>> /\ up' = Tail(up)), verified' = verified,
           UNCHANGED <<busvars, left, clientvars>>
    PROVE  IInv'
<1>1. SameView /\ epoch' = epoch
    BY DEF SameView, busvars, clientvars
<1>2. Shown'
    BY <1>1, ViewKept DEF IInv
<1> QED
    BY <1>1, <1>2, SameBus, CloseStep

\* The connection is gone.
LEMMA GoneStep ==
    ASSUME BusAssumption, IInv, Disconnected, up' = <<>>, client' # "open",
           BusTyped', ClientTyped', RingInv', Shown'
    PROVE  IInv'
<1>1. CutOff
    BY DisconnectedCuts
<1>2. TypeOK'
  <2>1. up' \in Seq(Messages) /\ verified' = NoSession /\ left' = {} /\ sending' = NoFrame /\ queue' \in Seq(Frames)
      BY EmptySeq DEF Disconnected
  <2> QED
      BY <1>1, <2>1 DEF TypeOK, ConnTyped, CutOff
<1>3. Subscription' /\ Fresh'
    BY <1>1, SubscriptionCut
<1>4. DOMAIN up' = {} /\ DOMAIN hyds' = {} /\ DOMAIN queue' = {} /\ Len(queue') = 0 /\ Sent' = {}
    BY EmptySeq, LenProperties DEF Disconnected, Sent
<1>5. FlightInv'
  <2>1. Flight' = {}
      BY <1>4 DEF Flight, Ahead
  <2>2. ~sub'.ready
      BY <1>1 DEF CutOff
  <2> QED
      BY <1>4, <2>1, <2>2 DEF FlightInv, NoGap
<1>6. Following'
  <2>1. sub' = NoSub /\ queue' = <<>> /\ sending' = NoFrame /\ hyds' = <<>> /\ up' = <<>> /\ left' = {}
      BY DEF Disconnected
  <2>2. sub'.session = NoSession
      BY <2>1 DEF NoSub
  <2>3. ~Stale'
      BY <1>4, <2>1, <2>2 DEF Stale
  <2> QED
      BY <1>4, <2>1, <2>2, <2>3 DEF Following
<1> QED
    BY <1>2, <1>3, <1>5, <1>6 DEF IInv

LEMMA LostStep ==
    ASSUME BusAssumption, IInv, Closed \/ Break
    PROVE  IInv'
<1>1. Disconnected /\ up' = <<>> /\ UNCHANGED <<busvars, want, pos, kept, seen>> /\ client' \in {"closed", "stopped"}
    BY DEF Closed, Break
<1>2. ClientTyped'
    BY <1>1 DEF IInv, TypeOK, ClientTyped
<1>3. Shown'
    BY <1>1, ViewKept DEF IInv, SameView, busvars
<1> QED
    BY <1>1, <1>2, <1>3, SameBus, GoneStep

LEMMA SwitchStep ==
    ASSUME BusAssumption, IInv, NEW s \in Sessions, Switch(s)
    PROVE  IInv'
<1>1. Disconnected /\ up' = <<>> /\ UNCHANGED <<busvars, kept, seen>> /\ client' = "closed" /\ want' = s /\ pos' = kept[s]
    BY DEF Switch
<1>2. ClientTyped'
    BY <1>1 DEF IInv, TypeOK, ClientTyped
<1>3. Shown'
  <2>1. epoch' = epoch /\ cursor' = cursor /\ pos'.cursor = kept[s].cursor /\ pos'.epoch = kept[s].epoch
      BY <1>1 DEF busvars, cursor
  <2>2. \A t, n : Upto(t, n)' = Upto(t, n)
      BY <1>1 DEF busvars, Upto
  <2>3. \A t : Made(t)' = Made(t)
      BY <2>1, <2>2 DEF Made
  <2>4. \A t \in Sessions : /\ kept[t].epoch <= epoch /\ (kept[t].epoch = epoch => kept[t].cursor <= cursor)
                            /\ kept[t].epoch = epoch => seen[t] = Upto(t, kept[t].cursor)
                            /\ seen[t] <= Made(t)
      BY DEF IInv, Shown, PositionHonest
  <2>5. kept[s].cursor \in Nat
      BY DEF IInv, TypeOK, ClientTyped, Positions
  <2>6. PositionHonest'
      BY <1>1, <2>1, <2>2, <2>3, <2>4 DEF PositionHonest
  <2> QED
      BY <1>1, <2>1, <2>4, <2>5, <2>6 DEF Shown, Placed
<1> QED
    BY <1>1, <1>2, <1>3, SameBus, GoneStep

LEMMA RestartStep ==
    ASSUME BusAssumption, IInv, Restart
    PROVE  IInv'
<1>1. Disconnected /\ up' = <<>> /\ client' # "open" /\ UNCHANGED <<exists, want, pos, kept, seen>>
      /\ epoch' = epoch + 1 /\ log' = <<>> /\ ring' = {} /\ discarded' = 0
      /\ base' = [s \in Sessions |-> Made(s)]
    BY DEF Restart
<1>2. cursor' = 0
    BY <1>1, EmptySeq DEF cursor
<1>3. \A s \in Sessions : Made(s) \in Nat
    BY MadeIsNat DEF IInv, TypeOK
<1>4. BusTyped'
  <2>1. epoch \in Nat \ {0} /\ exists \subseteq Sessions
      BY DEF IInv, TypeOK, BusTyped
  <2>2. log' \in Seq(Entries)
      BY <1>1, EmptySeq
  <2> QED
      BY <1>1, <1>2, <1>3, <2>1, <2>2 DEF BusTyped
<1>5. ClientTyped'
  <2>1. client' \in {"closed", "stopped"}
      BY DEF Restart
  <2> QED
      BY <1>1, <2>1 DEF IInv, TypeOK, ClientTyped
<1>6. RingInv'
    BY <1>1, <1>2 DEF RingInv
<1>7. Shown'
  <2>1. ASSUME NEW s \in Sessions PROVE Made(s)' = Made(s)
    <3>1. EventsTo(s, 0)' = {}
        BY DEF EventsTo
    <3>2. Cardinality(EventsTo(s, 0)') = 0
        BY <3>1, FS_EmptySet
    <3>3. Made(s)' = base'[s] + Cardinality(EventsTo(s, 0)')
        BY <1>2 DEF Made, Upto, EventsTo
    <3> QED
        BY <1>1, <1>3, <3>2, <3>3
  <2>2. pos.epoch \in Nat /\ epoch \in Nat /\ pos.epoch <= epoch
      BY DEF IInv, Shown, TypeOK, ClientTyped, BusTyped, Positions
  <2>3. \A s \in Sessions : kept[s].epoch \in Nat /\ kept[s].epoch <= epoch /\ seen[s] <= Made(s)
      BY DEF IInv, Shown, PositionHonest, TypeOK, ClientTyped, Positions
  <2> QED
      BY <1>1, <2>1, <2>2, <2>3 DEF Shown, PositionHonest, Placed
<1> QED
    BY <1>1, <1>4, <1>5, <1>6, <1>7, GoneStep

-----------------------------------------------------------------------------
(* Hydrations *)

LEMMA HydsTyped ==
    ASSUME IInv
    PROVE  hyds \in Seq(Hydrations) /\ Len(hyds) \in Nat /\ DOMAIN hyds = 1..Len(hyds)
           /\ \A i \in DOMAIN hyds : hyds[i] \in Hydrations
    BY LenProperties, ElementOfSeq DEF IInv, TypeOK, ConnTyped

LEMMA HasHydration == ASSUME IInv, NEW i \in DOMAIN hyds PROVE client = "open"
<1>1. DOMAIN <<>> = {}
    BY EmptySeq, LenProperties
<1> QED
    BY <1>1 DEF IInv, Following

\* A hydration gets on, or ends; nobody else sees it.
LEMMA HydrationStep ==
    ASSUME IInv, NEW i \in DOMAIN hyds, hyds' \in Seq(Hydrations), Fresh',
           UNCHANGED <<busvars, sub, queue, sending, verified, left, up, clientvars>>,
           \A k \in DOMAIN hyds' : hyds'[k].current =>
              \E j \in DOMAIN hyds :
                 /\ hyds[j].current /\ hyds'[k].session = hyds[j].session
                 /\ hyds'[k].after = hyds[j].after /\ hyds'[k].epoch = hyds[j].epoch
                 /\ hyds'[k].pc = "read" => hyds[j].session \in exists
    PROVE  IInv'
<1>0. SameView /\ UNCHANGED <<exists, ring, discarded, left, sub, queue, sending, verified, up, client, want, pos, epoch>>
    BY DEF SameView, busvars, clientvars
<1>1. TypeOK'
    BY DEF IInv, TypeOK, BusTyped, ConnTyped, ClientTyped, busvars, clientvars, cursor
<1>2. RingInv'
    BY <1>0, RingKept DEF IInv, SameView
<1>3. Subscription'
    BY <1>0 DEF IInv, Subscription
<1>4. FlightInv'
  <2>1. Sent' = Sent /\ (\A k : Ahead(k)' = Ahead(k)) /\ Flight' = Flight
      BY <1>0 DEF Sent, Ahead, Flight
  <2>2. NoGap /\ \A f \in Flight : Honest(f) /\ Recent(f)
      BY DEF IInv, FlightInv
  <2>3. NoGap'
      BY <1>0, <2>1, <2>2, ViewKept DEF NoGap
  <2> QED
      BY <1>0, <2>1, <2>2, <2>3, ViewKept DEF FlightInv
<1>5. Shown'
    BY <1>0, ViewKept DEF IInv
<1>6. Following'
  <2>1. Following /\ client = "open"
      BY HasHydration DEF IInv
  <2>2. (\A m : Follows(m)' <=> Follows(m)) /\ (Stale' <=> Stale) /\ Sent' = Sent
      BY <1>0 DEF Follows, Placed, Stale, Sent
  <2>3. \A k \in DOMAIN hyds' : hyds'[k].current => Follows(hyds'[k])
      BY <2>1 DEF Following, Follows
  <2>4. (\A k \in DOMAIN hyds : hyds[k].current => Follows(hyds[k]))'
      BY <2>2, <2>3
  <2> QED
      BY <1>0, <2>1, <2>2, <2>4 DEF Following
<1> QED
    BY <1>1, <1>2, <1>3, <1>4, <1>5, <1>6 DEF IInv

LEMMA BeginReadStep == ASSUME IInv, NEW i \in DOMAIN hyds, BeginRead(i) PROVE IInv'
<1>1. hyds' = [hyds EXCEPT ![i] = [hyds[i] EXCEPT !.pc = "reading", !.cut = cursor]]
      /\ UNCHANGED <<busvars, sub, queue, sending, verified, left, up, clientvars>>
    BY DEF BeginRead
<1>2. cursor \in Nat /\ cursor' = cursor /\ (\A s : Made(s)' = Made(s))
    BY <1>1, LogTyped DEF IInv, TypeOK, cursor, busvars, Made, Upto
<1> DEFINE h == [hyds[i] EXCEPT !.pc = "reading", !.cut = cursor]
<1>3. h \in Hydrations /\ h.current = hyds[i].current /\ h.session = hyds[i].session /\ h.after = hyds[i].after
      /\ h.epoch = hyds[i].epoch /\ h.pc = "reading" /\ h.cut = cursor
    BY <1>2, HydsTyped DEF Hydrations
<1> HIDE DEF h
<1>4. hyds' = [hyds EXCEPT ![i] = h]
    BY <1>1 DEF h
<1>5. hyds' \in Seq(Hydrations) /\ DOMAIN hyds' = DOMAIN hyds /\ hyds'[i] = h /\ \A k \in DOMAIN hyds \ {i} : hyds'[k] = hyds[k]
    BY <1>3, <1>4, HydsTyped
<1>6. Fresh'
    BY <1>2, <1>3, <1>5 DEF IInv, Fresh
<1>7. \A k \in DOMAIN hyds' : hyds'[k].current =>
        /\ hyds[k].current /\ hyds'[k].session = hyds[k].session
        /\ hyds'[k].after = hyds[k].after /\ hyds'[k].epoch = hyds[k].epoch
        /\ hyds'[k].pc = "read" => hyds[k].session \in exists
    BY <1>3, <1>5 DEF IInv, Subscription
<1> QED
    BY <1>1, <1>5, <1>6, <1>7, HydrationStep

LEMMA ReadStep == ASSUME IInv, NEW i \in DOMAIN hyds, Read(i) PROVE IInv'
<1>1. hyds' = [hyds EXCEPT ![i] = [hyds[i] EXCEPT !.pc = "read", !.got = Made(hyds[i].session)]]
      /\ UNCHANGED <<busvars, sub, queue, sending, verified, left, up, clientvars>>
      /\ hyds[i].current /\ hyds[i].pc = "reading" /\ hyds[i].session \in exists
    BY DEF Read
<1>2. cursor \in Nat /\ cursor' = cursor /\ (\A s : Made(s)' = Made(s))
    BY <1>1, LogTyped DEF IInv, TypeOK, cursor, busvars, Made, Upto
<1> DEFINE h == [hyds[i] EXCEPT !.pc = "read", !.got = Made(hyds[i].session)]
<1>3. h \in Hydrations /\ h.current = hyds[i].current /\ h.session = hyds[i].session /\ h.after = hyds[i].after
      /\ h.epoch = hyds[i].epoch /\ h.pc = "read" /\ h.cut = hyds[i].cut /\ h.got = Made(h.session)
  <2>1. hyds[i] \in Hydrations
      BY HydsTyped
  <2>2. Made(hyds[i].session) \in Nat
      BY <2>1, MadeIsNat DEF IInv, TypeOK, Hydrations
  <2> QED
      BY <2>1, <2>2 DEF Hydrations
<1> HIDE DEF h
<1>4. hyds' = [hyds EXCEPT ![i] = h]
    BY <1>1 DEF h
<1>5. hyds' \in Seq(Hydrations) /\ DOMAIN hyds' = DOMAIN hyds /\ hyds'[i] = h /\ \A k \in DOMAIN hyds \ {i} : hyds'[k] = hyds[k]
    BY <1>3, <1>4, HydsTyped
<1>6. Fresh'
    BY <1>1, <1>2, <1>3, <1>5 DEF IInv, Fresh
<1>7. \A k \in DOMAIN hyds' : hyds'[k].current =>
        /\ hyds[k].current /\ hyds'[k].session = hyds[k].session
        /\ hyds'[k].after = hyds[k].after /\ hyds'[k].epoch = hyds[k].epoch
        /\ hyds'[k].pc = "read" => hyds[k].session \in exists
    BY <1>1, <1>3, <1>5 DEF IInv, Subscription
<1> QED
    BY <1>1, <1>5, <1>6, <1>7, HydrationStep

LEMMA ReadAgainStep == ASSUME IInv, NEW i \in DOMAIN hyds, ReadAgain(i) PROVE IInv'
<1>1. hyds' = [hyds EXCEPT ![i] = [hyds[i] EXCEPT !.pc = "begin", !.cut = 0, !.got = 0]]
      /\ UNCHANGED <<busvars, sub, queue, sending, verified, left, up, clientvars>>
    BY DEF ReadAgain
<1>2. cursor' = cursor /\ (\A s : Made(s)' = Made(s))
    BY <1>1 DEF cursor, busvars, Made, Upto
<1> DEFINE h == [hyds[i] EXCEPT !.pc = "begin", !.cut = 0, !.got = 0]
<1>3. h \in Hydrations /\ h.current = hyds[i].current /\ h.session = hyds[i].session /\ h.after = hyds[i].after
      /\ h.epoch = hyds[i].epoch /\ h.pc = "begin"
    BY HydsTyped DEF Hydrations
<1> HIDE DEF h
<1>4. hyds' = [hyds EXCEPT ![i] = h]
    BY <1>1 DEF h
<1>5. hyds' \in Seq(Hydrations) /\ DOMAIN hyds' = DOMAIN hyds /\ hyds'[i] = h /\ \A k \in DOMAIN hyds \ {i} : hyds'[k] = hyds[k]
    BY <1>3, <1>4, HydsTyped
<1>6. Fresh'
    BY <1>2, <1>3, <1>5 DEF IInv, Fresh
<1>7. \A k \in DOMAIN hyds' : hyds'[k].current =>
        /\ hyds[k].current /\ hyds'[k].session = hyds[k].session
        /\ hyds'[k].after = hyds[k].after /\ hyds'[k].epoch = hyds[k].epoch
        /\ hyds'[k].pc = "read" => hyds[k].session \in exists
    BY <1>3, <1>5 DEF IInv, Subscription
<1> QED
    BY <1>1, <1>5, <1>6, <1>7, HydrationStep

LEMMA OutlivedStep == ASSUME IInv, NEW i \in DOMAIN hyds, Outlived(i) PROVE IInv'
<1>1. hyds' = RemoveAt(hyds, i) /\ UNCHANGED <<busvars, sub, queue, sending, verified, left, up, clientvars>>
    BY DEF Outlived
<1>2. cursor' = cursor /\ (\A s : Made(s)' = Made(s))
    BY <1>1 DEF cursor, busvars, Made, Upto
<1>3. hyds' \in Seq(Hydrations) /\ \A k \in DOMAIN hyds' : \E j \in DOMAIN hyds : hyds'[k] = hyds[j]
  <2>1. hyds \in Seq(Hydrations)
      BY HydsTyped
  <2>2. RemoveAt(hyds, i) \in Seq(Hydrations)
        /\ \A k \in DOMAIN RemoveAt(hyds, i) : \E j \in DOMAIN hyds : RemoveAt(hyds, i)[k] = hyds[j]
      BY <2>1, RemoveAtProperties
  <2> QED
      BY <1>1, <2>2
<1>4. Fresh'
    BY <1>2, <1>3 DEF IInv, Fresh
<1>5. \A k \in DOMAIN hyds' : hyds'[k].current =>
        \E j \in DOMAIN hyds :
           /\ hyds[j].current /\ hyds'[k].session = hyds[j].session
           /\ hyds'[k].after = hyds[j].after /\ hyds'[k].epoch = hyds[j].epoch
           /\ hyds'[k].pc = "read" => hyds[j].session \in exists
    BY <1>3 DEF IInv, Subscription
<1> QED
    BY <1>1, <1>3, <1>4, <1>5, HydrationStep

LEMMA FailsStep ==
    ASSUME BusAssumption, IInv, NEW i \in DOMAIN hyds, NotFound(i) \/ ReadFails(i)
    PROVE  IInv'
<1>1. \E code \in Nat : Fails(i, code)
    BY DEF NotFound, ReadFails
<1>2. CutOff
    BY <1>1, FailsCuts DEF IInv
<1>3. sending' = sending /\ up' = up /\ verified' = verified /\ UNCHANGED <<busvars, left, clientvars>>
    BY <1>1 DEF Fails
<1> QED
    BY <1>2, <1>3, HasHydration, CutStep

LEMMA SendFailsStep == ASSUME BusAssumption, IInv, SendFails PROVE IInv'
<1>1. CutOff
    BY CloseCuts DEF SendFails, IInv
<1>2. client = "open"
    BY DEF SendFails, IInv, Following
<1> QED
    BY <1>1, <1>2, CutStep DEF SendFails

LEMMA UpTyped ==
    ASSUME IInv
    PROVE  up \in Seq(Messages) /\ Len(up) \in Nat /\ DOMAIN up = 1..Len(up)
           /\ \A k \in DOMAIN up : up[k] \in Messages
    BY LenProperties, ElementOfSeq DEF IInv, TypeOK, ConnTyped

\* A subscription begins: what was subscribed before is over.
LEMMA SubscribeStep ==
    ASSUME BusAssumption, IInv, NEW m, up # <<>>, m = Head(up), m.type = "subscribe", client = "open", sub.code = 0,
           sub' = [NoSub EXCEPT !.session = m.session,
                       !.hydrating = (m.session = sub.session /\ (sub.ready \/ sub.hydrating))],
           queue' = <<>>, hyds' = Append(Outdated, Hydration(m)), up' = Tail(up),
           UNCHANGED <<busvars, sending, verified, left, clientvars>>
    PROVE  IInv'
<1> DEFINE t == Tail(up)
           same == m.session = sub.session /\ (sub.ready \/ sub.hydrating)
<1>0. SameView /\ UNCHANGED <<exists, ring, discarded, left, sending, verified, client, want, pos, epoch>> /\ up' = t
    BY DEF SameView, busvars, clientvars
<1>1. up # <<>> /\ m = up[1] /\ 1 \in DOMAIN up /\ m \in Messages /\ t \in Seq(Messages)
      /\ \A k \in DOMAIN t : k + 1 \in DOMAIN up /\ t[k] = up[k + 1]
  <2>1. up \in Seq(Messages) /\ Len(up) \in Nat \ {0}
      BY UpTyped, EmptySeq
  <2>2. t \in Seq(Messages) /\ Len(t) = Len(up) - 1 /\ \A i \in 1..Len(t) : t[i] = up[i + 1]
      BY <2>1, HeadTailProperties
  <2> HIDE DEF t
  <2>3. DOMAIN t = 1..Len(t)
      BY <2>2, LenProperties
  <2>4. m = up[1]
      BY <2>1
  <2> QED
      BY <2>1, <2>2, <2>3, <2>4, UpTyped
<1> HIDE DEF t
<1>2. m.session \in Sessions /\ m.after \in Nat /\ m.epoch \in Nat
    BY <1>1 DEF Messages
<1>3. same \in BOOLEAN
    OBVIOUS
<1>4. sub' \in Subscribers /\ sub'.session = m.session /\ ~sub'.ready /\ sub'.code = 0 /\ (sub'.hydrating => same)
  <2> HIDE DEF same
  <2>1. sub' = [NoSub EXCEPT !.session = m.session, !.hydrating = same]
      BY DEF same
  <2>2. ASSUME NEW b \in BOOLEAN, NEW x, x = [NoSub EXCEPT !.session = m.session, !.hydrating = b]
        PROVE  x \in Subscribers /\ x.session = m.session /\ ~x.ready /\ x.code = 0 /\ x.hydrating = b
      BY <1>2, <2>2 DEF NoSub, Subscribers
  <2> QED
      BY <1>3, <2>1, <2>2, Zenon
<1>5. Hydration(m) \in Hydrations /\ Hydration(m).session = m.session /\ Hydration(m).after = m.after
      /\ Hydration(m).epoch = m.epoch /\ Hydration(m).pc = "begin"
    BY <1>2 DEF Hydration, Hydrations
<1>6. hyds' \in Seq(Hydrations) /\ \A k \in DOMAIN hyds' : hyds'[k].current => hyds'[k] = Hydration(m)
  <2>1. Outdated \in Seq(Hydrations) /\ DOMAIN Outdated = 1..Len(Outdated) /\ Len(Outdated) \in Nat
        /\ \A k \in DOMAIN Outdated : ~Outdated[k].current
      BY HydsTyped, OutdatedProperties, LenProperties
  <2> DEFINE o == Outdated
             x == Hydration(m)
  <2> HIDE DEF o, x
  <2>2. Append(o, x) \in Seq(Hydrations) /\ Len(Append(o, x)) = Len(o) + 1
        /\ (\A k \in 1..Len(o) : Append(o, x)[k] = o[k]) /\ Append(o, x)[Len(o) + 1] = x
      BY <1>5, <2>1, AppendProperties DEF o, x
  <2>3. DOMAIN Append(o, x) = 1..(Len(o) + 1)
      BY <2>2, LenProperties
  <2>4. hyds' = Append(o, x)
      BY DEF o, x
  <2>5. \A k \in 1..(Len(o) + 1) : k \in 1..Len(o) \/ k = Len(o) + 1
      BY <2>1 DEF o
  <2>6. \A k \in 1..Len(o) : ~o[k].current
      BY <2>1 DEF o
  <2> QED
      BY <2>2, <2>3, <2>4, <2>5, <2>6 DEF x
<1>7. TypeOK'
  <2>1. BusTyped' /\ ClientTyped'
      BY DEF IInv, TypeOK, BusTyped, ClientTyped, busvars, clientvars, cursor
  <2>2. ConnTyped'
      BY <1>0, <1>1, <1>4, <1>6, EmptySeq DEF IInv, TypeOK, ConnTyped
  <2> QED
      BY <2>1, <2>2 DEF TypeOK
<1>8. RingInv'
    BY <1>0, RingKept DEF IInv, SameView
<1>9. Subscription' /\ Fresh'
  <2>1. DOMAIN queue' = {}
      BY EmptySeq, LenProperties
  <2>2. sub'.hydrating => sub'.session # NoSession /\ verified' = sub'.session /\ sub'.session \in exists'
      BY <1>0, <1>4 DEF IInv, Subscription
  <2> QED
      BY <1>4, <1>5, <1>6, <2>1, <2>2 DEF Subscription, Fresh
<1>10. FlightInv'
    BY <1>0, <1>4, FlightCut DEF IInv
<1>11. Shown'
    BY <1>0, ViewKept DEF IInv
<1>12. Following'
  <2>1. Following
      BY DEF IInv
  <2>2. (\A x : Follows(x)' <=> Follows(x)) /\ Sent' = Sent
      BY <1>0 DEF Follows, Placed, Sent
  <2>3. m.session \in left \cup {want} /\ Follows(m)
      BY <1>1, <2>1 DEF Following
  <2>4. Follows(Hydration(m))
      BY <1>5, <2>3 DEF Follows
  <2>5. (\A k \in DOMAIN up : up[k].session \in left \cup {want} /\ (up[k].type = "subscribe" => Follows(up[k])))'
      BY <1>0, <1>1, <2>1, <2>2 DEF Following
  <2>6. (\A k \in DOMAIN hyds : hyds[k].current => Follows(hyds[k]))'
      BY <1>6, <2>2, <2>4
  <2>7. Stale' => Stale /\ m.session \in left
    <3>1. ASSUME NEW k \in DOMAIN t, t[k].session \in left PROVE Stale /\ m.session \in left
      <4>1. k + 1 \in DOMAIN up /\ up[k + 1].session \in left
          BY <1>1, <3>1
      <4>2. 1 < k + 1
          BY <1>1, <3>1, LenProperties
      <4> QED
          BY <1>1, <2>1, <4>1, <4>2 DEF Following, Stale
    <3>2. m.session \in left => Stale
        BY <1>1 DEF Stale
    <3> QED
        BY <1>0, <1>4, <3>1, <3>2 DEF Stale
  <2>8. Stale' => pos = NoPos /\ sub'.session # want /\ \A f \in Sent : f.to # want
      BY <1>4, <2>1, <2>7 DEF Following
  <2>9. (\A k, l \in DOMAIN up : k < l /\ up[l].session \in left => up[k].session \in left)'
    <3> SUFFICES ASSUME NEW k \in DOMAIN t, NEW l \in DOMAIN t, k < l, t[l].session \in left
                 PROVE  t[k].session \in left
        BY <1>0
    <3>1. k \in Nat /\ l \in Nat
        BY <1>1, LenProperties
    <3>2. k + 1 < l + 1
        BY <3>1
    <3> QED
        BY <1>1, <2>1, <3>2 DEF Following
  <2> QED
      BY <1>0, <1>4, <2>1, <2>2, <2>3, <2>5, <2>6, <2>8, <2>9 DEF Following
<1> QED
    BY <1>7, <1>8, <1>9, <1>10, <1>11, <1>12 DEF IInv

LEMMA ReceiveStep == ASSUME BusAssumption, IInv, Receive PROVE IInv'
<1> DEFINE m == Head(up)
           same == m.type = "subscribe" /\ m.session = sub.session /\ (sub.ready \/ sub.hydrating)
<1>1. client = "open" /\ up # <<>> /\ sub.code = 0 /\ up' = Tail(up)
      /\ sending' = sending /\ verified' = verified /\ UNCHANGED <<busvars, left, clientvars>>
    BY DEF Receive
<1>2. \/ \E code \in Nat : Close(code)
      \/ sub' = NoSub /\ queue' = <<>> /\ hyds' = Outdated
      \/ /\ m.type = "subscribe"
         /\ sub' = [NoSub EXCEPT !.session = m.session, !.hydrating = same]
         /\ queue' = <<>> /\ hyds' = Append(Outdated, Hydration(m))
    BY DEF Receive
<1>3. CASE \E code \in Nat : Close(code)
  <2>1. CutOff
      BY <1>3, CloseCuts DEF IInv
  <2> QED
      BY <1>1, <2>1, CutStep
<1>4. CASE sub' = NoSub /\ queue' = <<>> /\ hyds' = Outdated
  <2>1. CutOff
      BY <1>4, HydsTyped, OutdatedProperties DEF CutOff, NoSub, Subscribers
  <2> QED
      BY <1>1, <2>1, CutStep
<1>5. CASE /\ m.type = "subscribe"
           /\ sub' = [NoSub EXCEPT !.session = m.session, !.hydrating = same]
           /\ queue' = <<>> /\ hyds' = Append(Outdated, Hydration(m))
  <2>1. same = (m.session = sub.session /\ (sub.ready \/ sub.hydrating))
      BY <1>5
  <2>2. sub' = [NoSub EXCEPT !.session = m.session, !.hydrating = (m.session = sub.session /\ (sub.ready \/ sub.hydrating))]
    <3> HIDE DEF m, same
    <3> QED
        BY <1>5, <2>1
  <2>3. m = Head(up)
      OBVIOUS
  <2> HIDE DEF m, same
  <2> QED
      BY <1>1, <1>5, <2>2, <2>3, SubscribeStep
<1> QED
    BY <1>2, <1>3, <1>4, <1>5

-----------------------------------------------------------------------------
(* Sending, and the hydration that fills the queue *)

LEMMA QueueTyped ==
    ASSUME IInv
    PROVE  queue \in Seq(Frames) /\ Len(queue) \in Nat /\ DOMAIN queue = 1..Len(queue)
           /\ \A k \in DOMAIN queue : queue[k] \in Frames
    BY LenProperties, ElementOfSeq DEF IInv, TypeOK, ConnTyped

LEMMA SendStep == ASSUME BusAssumption, IInv, Send PROVE IInv'
<1> DEFINE t == Tail(queue)
           f == queue[1]
<1>0. sending = NoFrame /\ queue # <<>> /\ sending' = Head(queue) /\ queue' = t
      /\ UNCHANGED <<busvars, sub, hyds, verified, left, up, clientvars>>
    BY DEF Send
<1>1. SameView /\ UNCHANGED <<exists, ring, discarded, left, sub, hyds, verified, up, client, want, pos, epoch>>
    BY <1>0 DEF SameView, busvars, clientvars
<1>2. /\ Len(queue) \in Nat \ {0} /\ 1 \in DOMAIN queue /\ f \in Frames /\ sending' = f
      /\ t \in Seq(Frames) /\ Len(t) = Len(queue) - 1 /\ DOMAIN t = 1..(Len(queue) - 1)
      /\ \A k \in DOMAIN t : k + 1 \in DOMAIN queue /\ t[k] = queue[k + 1]
  <2>1. Len(queue) \in Nat \ {0} /\ queue \in Seq(Frames) /\ DOMAIN queue = 1..Len(queue)
      BY <1>0, QueueTyped, EmptySeq
  <2>2. t \in Seq(Frames) /\ Len(t) = Len(queue) - 1 /\ \A i \in 1..Len(t) : t[i] = queue[i + 1]
      BY <1>0, <2>1, HeadTailProperties
  <2>3. Head(queue) = queue[1]
      BY <2>1
  <2> HIDE DEF t
  <2>4. DOMAIN t = 1..Len(t)
      BY <2>2, LenProperties
  <2> QED
      BY <1>0, <2>1, <2>2, <2>3, <2>4, QueueTyped
<1> HIDE DEF t, f
<1>3. f # NoFrame
    BY <1>2 DEF Frames, NoFrame
<1>4. Sent = {} /\ Sent' = {f}
    BY <1>0, <1>2, <1>3 DEF Sent
<1>5. Len(queue') = Len(queue) - 1 /\ DOMAIN queue' = DOMAIN t
    BY <1>0, <1>2
<1>6. ASSUME NEW n \in 1..Len(queue) PROVE {f} \cup {t[j] : j \in 1..(n - 1)} = {queue[j] : j \in 1..n}
  <2>1. \A j \in 1..(n - 1) : t[j] = queue[j + 1] /\ j + 1 \in 1..n
      BY <1>2
  <2>2. \A j \in 1..n : j = 1 \/ (j - 1 \in 1..(n - 1) /\ queue[j] = t[j - 1])
    <3> SUFFICES ASSUME NEW j \in 1..n, j # 1 PROVE j - 1 \in 1..(n - 1) /\ queue[j] = t[j - 1]
        OBVIOUS
    <3>1. j - 1 \in 1..(n - 1) /\ j - 1 \in DOMAIN t /\ (j - 1) + 1 = j
        BY <1>2
    <3> QED
        BY <1>2, <3>1
  <2>3. 1 \in 1..n /\ f = queue[1]
      BY DEF f
  <2>4. ASSUME NEW x \in {f} \cup {t[j] : j \in 1..(n - 1)} PROVE x \in {queue[j] : j \in 1..n}
      BY <2>1, <2>3
  <2>5. ASSUME NEW x \in {queue[j] : j \in 1..n} PROVE x \in {f} \cup {t[j] : j \in 1..(n - 1)}
      BY <2>2, <2>3
  <2> QED
      BY <2>4, <2>5
<1>7. \A k : Ahead(k)' = {f} \cup {t[j] : j \in 1..(k - 1)}
    BY <1>0, <1>4 DEF Ahead
<1>8. \A k \in Nat : Ahead(k + 1) = {queue[j] : j \in 1..(k + 1 - 1)}
    BY <1>4 DEF Ahead
<1>9. \A k \in 1..Len(queue) : Ahead(k)' = Ahead(k + 1)
  <2> SUFFICES ASSUME NEW k \in 1..Len(queue) PROVE Ahead(k)' = Ahead(k + 1)
      OBVIOUS
  <2>1. Ahead(k)' = {f} \cup {t[j] : j \in 1..(k - 1)}
      BY <1>7
  <2>2. k + 1 - 1 = k /\ k \in Nat
      OBVIOUS
  <2>3. Ahead(k + 1) = {queue[j] : j \in 1..k}
      BY <1>8, <2>2
  <2> QED
      BY <1>6, <2>1, <2>3
<1>10. Flight' = Flight
  <2>1. Flight' = {f} \cup {t[j] : j \in 1..(Len(queue) - 1 + 1 - 1)}
      BY <1>5, <1>7 DEF Flight
  <2>2. Flight = {queue[j] : j \in 1..(Len(queue) + 1 - 1)}
      BY <1>8 DEF Flight
  <2>3. Len(queue) - 1 + 1 - 1 = Len(queue) - 1 /\ Len(queue) + 1 - 1 = Len(queue) /\ Len(queue) \in 1..Len(queue)
      BY <1>2
  <2> QED
      BY <1>6, <2>1, <2>2, <2>3
<1>11. TypeOK'
  <2>1. BusTyped' /\ ClientTyped'
      BY <1>0 DEF IInv, TypeOK, BusTyped, ClientTyped, busvars, clientvars, cursor
  <2>2. ConnTyped'
      BY <1>0, <1>2 DEF IInv, TypeOK, ConnTyped
  <2> QED
      BY <2>1, <2>2 DEF TypeOK
<1>12. RingInv'
    BY <1>1, RingKept DEF IInv, SameView
<1>13. Subscription'
  <2>1. Subscription
      BY DEF IInv
  <2>2. \A k \in DOMAIN t : t[k].to \in {sub.session, Global} /\ t[k].to \in exists \cup {Global}
      BY <1>2, <2>1 DEF Subscription
  <2> QED
      BY <1>0, <1>1, <2>1, <2>2 DEF Subscription
<1>14. Fresh'
  <2>1. cursor' = cursor /\ \A s : Made(s)' = Made(s)
      BY <1>1 DEF SameView, Made, Upto, cursor
  <2> QED
      BY <1>1, <2>1 DEF IInv, Fresh
<1>15. FlightInv'
  <2>1. NoGap /\ \A x \in Flight : Honest(x) /\ Recent(x)
      BY DEF IInv, FlightInv
  <2>2. Ahead(1) = {}
      BY <1>4 DEF Ahead
  <2>3. Counted(f) => Complete({}, f.cursor - 1)
      BY <1>2, <2>1, <2>2 DEF NoGap, f
  <2>4. (\A x \in Sent : Counted(x) => Complete({}, x.cursor - 1))'
      BY <1>1, <1>4, <2>3, ViewKept
  <2>5. ASSUME NEW k \in DOMAIN queue', Counted(queue[k])' PROVE Complete(Ahead(k), queue[k].cursor - 1)'
    <3>1. k \in 1..Len(queue) /\ k + 1 \in DOMAIN queue /\ t[k] = queue[k + 1] /\ queue'[k] = queue[k + 1]
        BY <1>0, <1>2
    <3>2. Counted(queue[k + 1])
        BY <1>1, <2>5, <3>1, ViewKept
    <3>3. Complete(Ahead(k + 1), queue[k + 1].cursor - 1)
        BY <2>1, <3>1, <3>2 DEF NoGap
    <3>4. Complete(Ahead(k + 1), queue[k + 1].cursor - 1) =>
              \A F, n : F = Ahead(k + 1) /\ n = queue[k + 1].cursor - 1 => Complete(F, n)'
        BY <1>1, ViewKept
    <3> QED
        BY <1>9, <3>1, <3>3, <3>4
  <2>6. sub.ready /\ sub.session = want => \A F, n : F = Flight /\ n = cursor => Complete(F, n)'
      BY <1>1, <2>1, ViewKept DEF NoGap
  <2>7. cursor' = cursor
      BY <1>1, ViewKept
  <2>8. NoGap'
      BY <1>0, <1>1, <1>10, <2>4, <2>5, <2>6, <2>7 DEF NoGap
  <2> QED
      BY <1>1, <1>10, <2>1, <2>8, ViewKept DEF FlightInv
<1>16. Shown'
    BY <1>1, ViewKept DEF IInv
<1>17. Following'
  <2>1. Following
      BY DEF IInv
  <2>2. (\A m : Follows(m)' <=> Follows(m)) /\ (Stale' <=> Stale)
      BY <1>1 DEF Follows, Placed, Stale
  <2>3. f.to \in {sub.session, Global} /\ f.to \in Sessions \cup {Global}
      BY <1>2 DEF IInv, Subscription, f, TypeOK, BusTyped
  <2>4. want \in Sessions
      BY DEF IInv, TypeOK, ClientTyped
  <2>5. client = "open"
      BY <1>0, <2>1 DEF Following
  <2>6. (\A x \in Sent : x.to \in left \cup {want, Global})'
      BY <1>1, <1>4, <2>1, <2>3, BusAssumption DEF Following
  <2>7. Stale => f.to # want
      BY <2>1, <2>3, <2>4, BusAssumption DEF Following
  <2>8. (Stale => pos = NoPos /\ sub.session # want /\ \A x \in Sent : x.to # want)'
      BY <1>1, <1>4, <2>1, <2>2, <2>7 DEF Following
  <2> QED
      BY <1>1, <2>1, <2>2, <2>5, <2>6, <2>8 DEF Following
<1> QED
    BY <1>11, <1>12, <1>13, <1>14, <1>15, <1>16, <1>17 DEF IInv

\* The frames of a replay are those that were missed, all of them and in order.
InOrder(r, h) ==
    \E n \in Nat : \E q \in [1..n -> Missed(h)] :
        /\ r = [k \in 1..n |-> Frame(log[q[k]], q[k])]
        /\ \A j, k \in 1..n : j < k => q[j] < q[k]
        /\ \A i \in Missed(h) : \E k \in 1..n : q[k] = i

LEMMA ReplayProperties == ASSUME IInv, NEW h, NEW r \in Replay(h) PROVE InOrder(r, h)
<1> DEFINE n == Cardinality(Missed(h))
<1>1. ring \subseteq 1..cursor /\ cursor \in Nat
    BY LogTyped DEF IInv, TypeOK, BusTyped
<1>2. IsFiniteSet(1..cursor) /\ Missed(h) \in SUBSET (1..cursor)
  <2>1. cursor \in Int /\ 1 \in Int
      BY <1>1
  <2>2. IsFiniteSet(1..cursor)
      BY <2>1, FS_Interval
  <2> QED
      BY <1>1, <2>2 DEF Missed
<1>3. IsFiniteSet(Missed(h)) /\ n \in Nat
    BY <1>2, FS_Subset, FS_CardinalityType
<1>4. PICK q \in [1..n -> Missed(h)] : /\ \A j, k \in DOMAIN q : j < k => q[j] < q[k]
                                       /\ r = [k \in DOMAIN q |-> Frame(log[q[k]], q[k])]
    BY DEF Replay
<1>5. Cardinality(1..n) = n /\ IsFiniteSet(1..n)
    BY <1>3, FS_Interval
<1> HIDE DEF n
<1>6. q \in Injection(1..n, Missed(h))
  <2>1. ASSUME NEW j \in 1..n, NEW k \in 1..n, q[j] = q[k] PROVE j = k
    <3>1. j \in Nat /\ k \in Nat /\ q[j] \in Nat /\ q[k] \in Nat
        BY <1>2, <1>3
    <3> QED
        BY <1>4, <2>1, <3>1
  <2> QED
      BY <2>1 DEF Injection, IsInjective
<1>7. q \in Surjection(1..n, Missed(h))
    BY <1>3, <1>5, <1>6, FS_Injection DEF n
<1>8. \A i \in Missed(h) : \E k \in 1..n : q[k] = i
    BY <1>7 DEF Surjection
<1> QED
    BY <1>3, <1>4, <1>8 DEF InOrder

\* A frame of the ring says what was published.
LEMMA RingFrame ==
    ASSUME BusAssumption, IInv, NEW i \in ring
    PROVE  /\ Frame(log[i], i) \in Frames /\ Honest(Frame(log[i], i))
           /\ Frame(log[i], i).to = log[i].to /\ Frame(log[i], i).cursor = i /\ Frame(log[i], i).type = log[i].type
<1>1. BusTyped /\ cursor \in Nat /\ i \in 1..cursor /\ log[i] \in Entries /\ log[i].type # "deleted"
    BY LogTyped DEF IInv, TypeOK, BusTyped, RingInv
<1> DEFINE f == Frame(log[i], i)
<1>2. f \in Frames
    BY <1>1, FrameTyped
<1>3. f.to = log[i].to /\ f.cursor = i /\ f.type = log[i].type /\ f.epoch = epoch
      /\ (log[i].type = "snapshot" => f.events = Upto(log[i].to, i - 1))
    BY DEF Frame
<1>4. log[i] = Logged(log[i].type, log[i].to)
    BY <1>1 DEF Entries, Logged
<1>5. log[i].type \in {"event", "snapshot"} => log[i].to \in Sessions
    BY <1>1 DEF Entries
<1>6. log[i].type = "catalog" => log[i].to = Global
    BY <1>1 DEF Entries
<1>7. log[i].type = "snapshot" => Upto(log[i].to, i) = Upto(log[i].to, i - 1)
  <2> SUFFICES ASSUME log[i].type = "snapshot" PROVE Upto(log[i].to, i) = Upto(log[i].to, i - 1)
      OBVIOUS
  <2>1. \A j \in (i - 1) + 1..i : log[j] # Logged("event", log[i].to)
      BY <1>1 DEF Logged
  <2>2. i - 1 \in Nat /\ i \in Nat /\ i - 1 <= i
      BY <1>1
  <2> QED
      BY <2>1, <2>2, UptoSkips
<1> HIDE DEF f
<1>8. Honest(f)
    BY <1>1, <1>3, <1>4, <1>5, <1>6, <1>7 DEF Honest
<1> QED
    BY <1>2, <1>3, <1>8 DEF f

\* The queue that a hydration leaves is complete, if it is for the browser's session.
Filled ==
    /\ queue' \in Seq(Frames)
    /\ \A k \in DOMAIN queue' : /\ queue'[k].to \in {sub.session, Global} /\ queue'[k].to \in exists \cup {Global}
                                /\ Honest(queue'[k]) /\ Recent(queue'[k])
    /\ sub.session = want =>
          /\ \A k \in DOMAIN queue' : Counted(queue'[k]) =>
                \A F : {queue'[j] : j \in 1..(k - 1)} \subseteq F => Complete(F, queue'[k].cursor - 1)
          /\ \A F : {queue'[j] : j \in DOMAIN queue'} \subseteq F => Complete(F, cursor)

LEMMA ReplayFills ==
    ASSUME BusAssumption, IInv, NEW h, h.session = sub.session, h.session \in exists, h.after \in Nat, h.epoch \in Nat,
           Follows(h), Replayable(h), queue' \in Replay(h)
    PROVE  Filled
<1>0. PICK n \in Nat : \E q \in [1..n -> Missed(h)] :
              /\ queue' = [k \in 1..n |-> Frame(log[q[k]], q[k])]
              /\ \A j, k \in 1..n : j < k => q[j] < q[k]
              /\ \A i \in Missed(h) : \E k \in 1..n : q[k] = i
  <2>1. ASSUME NEW r \in Replay(h) PROVE InOrder(r, h)
      BY ReplayProperties
  <2>2. InOrder(queue', h)
      BY <2>1
  <2> QED
      BY <2>2 DEF InOrder
<1>1. PICK q \in [1..n -> Missed(h)] :
              /\ queue' = [k \in 1..n |-> Frame(log[q[k]], q[k])]
              /\ \A j, k \in 1..n : j < k => q[j] < q[k]
              /\ \A i \in Missed(h) : \E k \in 1..n : q[k] = i
    BY <1>0
<1>2. \A k \in 1..n : q[k] \in ring /\ q[k] > h.after /\ log[q[k]].to \in {h.session, Global} /\ queue'[k] = Frame(log[q[k]], q[k])
    BY <1>1 DEF Missed
<1>3. \A k \in 1..n : queue'[k] \in Frames /\ Honest(queue'[k]) /\ queue'[k].to = log[q[k]].to /\ queue'[k].cursor = q[k]
                      /\ queue'[k].type = log[q[k]].type
    BY <1>2, RingFrame
<1>4. queue' \in Seq(Frames) /\ DOMAIN queue' = 1..n
  <2>1. queue' \in [1..n -> Frames]
      BY <1>1, <1>3
  <2> QED
      BY <2>1, SeqDef
<1>5. want \in Sessions /\ sub.session \in Sessions /\ h.epoch = epoch
      /\ discarded <= h.after /\ discarded \in Nat /\ cursor \in Nat /\ ring \subseteq 1..cursor /\ pos.cursor \in Nat
  <2>1. want \in Sessions /\ pos.cursor \in Nat
      BY DEF IInv, TypeOK, ClientTyped, Positions
  <2>2. cursor \in Nat /\ ring \subseteq 1..cursor /\ discarded \in 0..cursor /\ exists \subseteq Sessions
      BY LogTyped DEF IInv, TypeOK, BusTyped
  <2>3. h.epoch = epoch /\ discarded <= h.after
      BY DEF Replayable
  <2>4. discarded \in Nat
      BY <2>2
  <2> QED
      BY <2>1, <2>2, <2>3, <2>4
<1>6. sub.session = want => Placed /\ h.after <= pos.cursor
    BY <1>5 DEF Follows
<1>7. ASSUME NEW k \in DOMAIN queue' PROVE Recent(queue'[k])
  <2>1. Resyncs(queue'[k]) => sub.session = want
      BY <1>2, <1>3, <1>4, <1>5, <1>7, BusAssumption DEF Resyncs
  <2> QED
      BY <1>6, <2>1 DEF Recent
<1>8. ASSUME sub.session = want, NEW i \in 1..cursor, log[i] = Logged("event", want), ~(i <= pos.cursor)
      PROVE  \E j \in 1..n : q[j] = i /\ Covers(queue'[j], i)
  <2>1. i > h.after /\ i > discarded
      BY <1>5, <1>6, <1>8
  <2>2. log[i].type = "event" /\ log[i].to = want
      BY <1>8 DEF Logged
  <2>3. i \in ring
      BY <1>5, <1>8, <2>1, <2>2 DEF IInv, RingInv
  <2>4. i \in Missed(h)
      BY <1>8, <2>1, <2>2, <2>3 DEF Missed
  <2>5. PICK j \in 1..n : q[j] = i
      BY <1>1, <2>4
  <2> QED
      BY <1>3, <2>2, <2>5 DEF Covers
<1>9. ASSUME sub.session = want, NEW k \in DOMAIN queue', NEW F, {queue'[j] : j \in 1..(k - 1)} \subseteq F
      PROVE  Complete(F, queue'[k].cursor - 1)
  <2> SUFFICES ASSUME NEW i \in 1..(queue'[k].cursor - 1), log[i] = Logged("event", want), ~(i <= pos.cursor)
               PROVE  \E x \in F : Covers(x, i)
      BY <1>6, <1>9 DEF Complete
  <2>1. k \in 1..n /\ queue'[k].cursor = q[k] /\ q[k] \in 1..cursor
      BY <1>2, <1>3, <1>4, <1>5, <1>9
  <2>2. i \in 1..cursor /\ i < q[k]
      BY <1>5, <2>1
  <2>3. PICK j \in 1..n : q[j] = i /\ Covers(queue'[j], i)
      BY <1>8, <1>9, <2>2
  <2>4. j < k
    <3>1. j = k \/ k < j \/ j < k
        BY <2>1
    <3> QED
        BY <1>1, <2>1, <2>2, <2>3, <3>1
  <2>5. j \in 1..(k - 1)
      BY <2>1, <2>4
  <2> QED
      BY <1>9, <2>3, <2>5
<1>10. ASSUME sub.session = want, NEW F, {queue'[j] : j \in DOMAIN queue'} \subseteq F
       PROVE  Complete(F, cursor)
    BY <1>4, <1>6, <1>8, <1>10 DEF Complete
<1>11. \A k \in DOMAIN queue' : queue'[k].to \in {sub.session, Global} /\ queue'[k].to \in exists \cup {Global}
                                 /\ Honest(queue'[k])
    BY <1>2, <1>3, <1>4
<1> QED
    BY <1>4, <1>7, <1>9, <1>10, <1>11 DEF Filled

LEMMA SnapshotFills ==
    ASSUME BusAssumption, IInv, NEW i \in DOMAIN hyds, hyds[i].current, hyds[i].pc = "read", Stable(hyds[i]),
           queue' = <<Snapshot(hyds[i])>>
    PROVE  Filled
<1> DEFINE h == hyds[i]
           f == Snapshot(h)
<1>1. h.session = sub.session /\ h.session \in exists /\ h.session \in Sessions /\ h.cut = cursor /\ h.got = Made(h.session)
      /\ cursor \in Nat /\ epoch \in Nat /\ want \in Sessions
    BY LogTyped, HydsTyped DEF IInv, Subscription, Fresh, Stable, TypeOK, BusTyped, ClientTyped
<1>2. Made(h.session) = Upto(h.session, cursor) /\ Made(h.session) \in Nat
    BY <1>1, MadeIsNat DEF Made, IInv, TypeOK
<1> HIDE DEF h
<1>3. f.type = "snapshot" /\ f.to = h.session /\ f.cursor = cursor /\ f.epoch = epoch /\ f.events = Made(h.session)
    BY <1>1 DEF Snapshot
<1>4. f \in Frames
    BY <1>1, <1>2 DEF Snapshot, Frames
<1> HIDE DEF f
<1>5. queue' = <<f>>
    BY DEF f, h
<1>6. queue' \in Seq(Frames) /\ DOMAIN queue' = {1} /\ queue'[1] = f
    BY <1>4, <1>5
<1>7. Honest(f)
    BY <1>1, <1>2, <1>3 DEF Honest
<1>8. Recent(f)
    BY <1>1, <1>3 DEF Recent, IInv, Shown
<1>9. ~Counted(f)
    BY <1>3 DEF Counted
<1>10. ASSUME sub.session = want, NEW F, f \in F PROVE Complete(F, cursor)
    BY <1>1, <1>3, <1>10 DEF Complete, Covers
<1> QED
    BY <1>1, <1>3, <1>6, <1>7, <1>8, <1>9, <1>10 DEF Filled

LEMMA HydrateStep == ASSUME BusAssumption, IInv, NEW i \in DOMAIN hyds, Hydrate(i) PROVE IInv'
<1> DEFINE h == hyds[i]
<1>0. /\ h.pc = "read" /\ Stable(h) /\ h.current
      /\ \/ Replayable(h) /\ queue' \in Replay(h)
         \/ queue' = <<Snapshot(h)>>
      /\ sub' = [sub EXCEPT !.ready = TRUE, !.hydrating = FALSE] /\ verified' = h.session
      /\ hyds' = RemoveAt(hyds, i) /\ UNCHANGED <<busvars, sending, left, up, clientvars>>
    BY DEF Hydrate
<1>1. SameView /\ UNCHANGED <<exists, ring, discarded, left, sending, up, client, want, pos, epoch>>
    BY <1>0 DEF SameView, busvars, clientvars
<1>2. h \in Hydrations /\ h.session = sub.session /\ h.session \in exists /\ sub.code = 0 /\ Follows(h)
      /\ h.after \in Nat /\ h.epoch \in Nat /\ h.session \in Sessions
  <2>1. h \in Hydrations
      BY HydsTyped
  <2> QED
      BY <1>0, <2>1 DEF IInv, Subscription, Following, Hydrations
<1>3. Filled
  <2>1. CASE Replayable(h) /\ queue' \in Replay(h)
      BY <1>2, <2>1, ReplayFills
  <2>2. CASE queue' = <<Snapshot(h)>>
      BY <1>0, <2>2, SnapshotFills
  <2> QED
      BY <1>0, <2>1, <2>2
<1> HIDE DEF h
<1>4. sub' \in Subscribers /\ sub'.session = sub.session /\ sub'.ready /\ ~sub'.hydrating /\ sub'.code = 0
  <2>1. sub \in Subscribers
      BY DEF IInv, TypeOK, ConnTyped
  <2> QED
      BY <1>0, <1>2, <2>1 DEF Subscribers
<1>5. hyds' \in Seq(Hydrations) /\ \A k \in DOMAIN hyds' : \E j \in DOMAIN hyds : hyds'[k] = hyds[j]
  <2>1. hyds \in Seq(Hydrations)
      BY HydsTyped
  <2>2. RemoveAt(hyds, i) \in Seq(Hydrations)
        /\ \A k \in DOMAIN RemoveAt(hyds, i) : \E j \in DOMAIN hyds : RemoveAt(hyds, i)[k] = hyds[j]
      BY <2>1, RemoveAtProperties
  <2> QED
      BY <1>0, <2>2
<1>6. TypeOK'
  <2>1. BusTyped' /\ ClientTyped'
      BY <1>0 DEF IInv, TypeOK, BusTyped, ClientTyped, busvars, clientvars, cursor
  <2>2. ConnTyped'
      BY <1>0, <1>2, <1>3, <1>4, <1>5 DEF IInv, TypeOK, ConnTyped, Filled
  <2> QED
      BY <2>1, <2>2 DEF TypeOK
<1>7. RingInv'
    BY <1>1, RingKept DEF IInv, SameView
<1>8. Subscription'
  <2>1. sub'.session # NoSession
      BY <1>2, <1>4, BusAssumption
  <2>2. \A k \in DOMAIN hyds' : hyds'[k].current =>
            hyds'[k].session = sub.session /\ (hyds'[k].pc = "read" => hyds'[k].session \in exists)
      BY <1>5 DEF IInv, Subscription
  <2>3. \A k \in DOMAIN queue' : queue'[k].to \in {sub.session, Global} /\ queue'[k].to \in exists \cup {Global}
      BY <1>3 DEF Filled
  <2> QED
      BY <1>0, <1>1, <1>2, <1>4, <2>1, <2>2, <2>3 DEF Subscription
<1>9. Fresh'
  <2>1. cursor' = cursor /\ \A s : Made(s)' = Made(s)
      BY <1>1 DEF SameView, Made, Upto, cursor
  <2> QED
      BY <1>5, <2>1 DEF IInv, Fresh
<1>10. Shown'
    BY <1>1, ViewKept DEF IInv
<1>11. Sent' = Sent
    BY <1>1 DEF Sent
<1>12. Len(queue') \in Nat /\ DOMAIN queue' = 1..Len(queue')
    BY <1>3, LenProperties DEF Filled
<1>13. Flight' = Sent \cup {queue'[k] : k \in DOMAIN queue'}
  <2>1. Flight' = Sent \cup {queue'[k] : k \in 1..(Len(queue') + 1 - 1)}
      BY <1>11 DEF Flight, Ahead
  <2>2. Len(queue') + 1 - 1 = Len(queue')
      BY <1>12
  <2> QED
      BY <1>12, <2>1, <2>2
<1>14. \A k : {queue'[j] : j \in 1..(k - 1)} \subseteq Ahead(k)'
    BY DEF Ahead
<1>15. ASSUME sub.session # want
       PROVE  ~Placed /\ (\A f \in Flight' : ~Resyncs(f))
  <2>1. sub.session \in left
      BY <1>2, <1>15, BusAssumption DEF IInv, Following
  <2>2. pos = NoPos /\ \A f \in Sent : f.to # want
      BY <2>1 DEF IInv, Following, Stale
  <2>3. ~Placed
      BY <2>2 DEF Placed, NoPos, IInv, TypeOK, BusTyped
  <2>4. want # Global
      BY BusAssumption DEF IInv, TypeOK, ClientTyped
  <2>5. \A k \in DOMAIN queue' : queue'[k].to # want
      BY <1>3, <1>15, <2>4 DEF Filled
  <2> QED
      BY <1>13, <2>2, <2>3, <2>5 DEF Resyncs
<1>16. FlightInv'
  <2>1. NoGap /\ \A x \in Flight : Honest(x) /\ Recent(x)
      BY DEF IInv, FlightInv
  <2>2. Sent \subseteq Flight
      BY DEF Flight, Ahead
  <2>3. \A x \in Flight' : Honest(x) /\ Recent(x)
      BY <1>3, <1>13, <2>1, <2>2 DEF Filled
  <2>4. (\A x \in Sent : Counted(x) => Complete({}, x.cursor - 1))'
      BY <1>1, <1>11, <2>1, ViewKept DEF NoGap
  <2>5. ASSUME NEW k \in DOMAIN queue', Counted(queue[k])' PROVE Complete(Ahead(k), queue[k].cursor - 1)'
    <3>1. Counted(queue'[k])
        BY <1>1, <2>5, ViewKept
    <3>2. \A F : F = Ahead(k)' => Complete(F, queue'[k].cursor - 1)
      <4>1. CASE sub.session = want
          BY <1>3, <1>14, <2>5, <3>1, <4>1 DEF Filled
      <4>2. CASE sub.session # want
        <5>1. Ahead(k)' \subseteq Flight'
          <6>1. 1..(k - 1) \subseteq DOMAIN queue'
              BY <1>12, <2>5
          <6> QED
              BY <1>11, <1>13, <6>1 DEF Ahead
        <5> QED
            BY <1>15, <4>2, <5>1 DEF Complete
      <4> QED
          BY <4>1, <4>2
    <3>3. \A F, n : Complete(F, n) => Complete(F, n)'
        BY <1>1, ViewKept
    <3> QED
        BY <3>2, <3>3
  <2>6. sub.session = want => \A F : F = Flight' => Complete(F, cursor)
      BY <1>3, <1>13 DEF Filled
  <2>7. \A F, n : Complete(F, n) => Complete(F, n)'
      BY <1>1, ViewKept
  <2>8. cursor' = cursor
      BY <1>1, ViewKept
  <2>9. NoGap'
      BY <1>1, <1>4, <2>4, <2>5, <2>6, <2>7, <2>8 DEF NoGap
  <2> QED
      BY <1>1, <2>3, <2>9, ViewKept DEF FlightInv
<1>17. Following'
  <2>1. Following /\ client = "open"
      BY HasHydration DEF IInv
  <2>2. (\A x : Follows(x)' <=> Follows(x)) /\ (Stale' <=> Stale)
      BY <1>1, <1>4 DEF Follows, Placed, Stale
  <2>3. (\A k \in DOMAIN hyds : hyds[k].current => Follows(hyds[k]))'
      BY <1>5, <2>1, <2>2 DEF Following
  <2> QED
      BY <1>1, <1>4, <1>11, <2>1, <2>2, <2>3 DEF Following
<1> QED
    BY <1>6, <1>7, <1>8, <1>9, <1>10, <1>16, <1>17 DEF IInv

-----------------------------------------------------------------------------
(* Publishing *)

\* The ring gives up its oldest frames, none of which is past "discarded".
LEMMA KeepProperties ==
    ASSUME NEW n \in Nat, NEW held \in SUBSET (1..n), MaxReplay \in Nat, discarded \in 0..n, Keep(held)
    PROVE  /\ ring' \subseteq held /\ discarded' \in 0..n
           /\ \A i \in held \ ring' : i <= discarded' /\ \A j \in ring' : i < j
           /\ \A i \in Nat : i <= discarded /\ (\A j \in held : i < j) => i <= discarded'
<1> DEFINE Above(i) == {j \in held : j > i}
<1>1. ring' = {i \in held : Cardinality(Above(i)) < MaxReplay}
    BY DEF Keep
<1>2. IsFiniteSet(held)
  <2>1. IsFiniteSet(1..n)
      BY FS_Interval
  <2> QED
      BY <2>1, FS_Subset
<1>3. ASSUME NEW i \in held, NEW j \in held, j <= i PROVE Cardinality(Above(i)) <= Cardinality(Above(j))
  <2>1. Above(i) \in SUBSET Above(j)
    <3> SUFFICES ASSUME NEW x \in held, x > i PROVE x > j
        OBVIOUS
    <3>1. x \in Int /\ i \in Int /\ j \in Int
        OBVIOUS
    <3> QED
        BY <1>3, <3>1
  <2>2. Above(j) \in SUBSET held
      OBVIOUS
  <2> HIDE DEF Above
  <2>3. IsFiniteSet(Above(j))
      BY <1>2, <2>2, FS_Subset
  <2> QED
      BY <2>1, <2>3, FS_Subset
<1>4. ASSUME NEW i \in held PROVE Cardinality(Above(i)) \in Nat
  <2>1. Above(i) \in SUBSET held
      OBVIOUS
  <2> HIDE DEF Above
  <2> QED
      BY <1>2, <2>1, FS_Subset, FS_CardinalityType
<1> HIDE DEF Above
<1>5. ASSUME NEW i \in held \ ring', NEW j \in ring' PROVE i < j
  <2>1. j \in held /\ Cardinality(Above(j)) < MaxReplay /\ ~ (Cardinality(Above(i)) < MaxReplay)
      BY <1>1
  <2>2. ~ (j <= i)
      BY <1>3, <1>4, <2>1
  <2> QED
      BY <2>1, <2>2
<1>6. CASE ring' = held
    BY <1>6 DEF Keep
<1>7. CASE ring' # held
  <2>1. held \ ring' # {} /\ held \ ring' \in SUBSET (1..n)
      BY <1>1, <1>7
  <2>2. discarded' = Max(held \ ring')
      BY <1>7 DEF Keep
  <2>3. discarded' \in held \ ring' /\ \A y \in held \ ring' : y <= discarded'
      BY <2>1, <2>2, MaxProperties
  <2>4. \A i \in Nat : i <= discarded /\ (\A j \in held : i < j) => i <= discarded'
    <3> SUFFICES ASSUME NEW i \in Nat, i <= discarded, \A j \in held : i < j PROVE i <= discarded'
        OBVIOUS
    <3>1. i < discarded' /\ discarded' \in Nat
        BY <2>3
    <3> QED
        BY <3>1
  <2> QED
      BY <1>1, <1>5, <2>3, <2>4
<1> QED
    BY <1>6, <1>7

\* A subscription that is not for the browser's session has nothing to say to it.
LEMMA NothingElsewhere ==
    ASSUME BusAssumption, IInv, sub.session # want, sub.ready
    PROVE  ~Placed /\ \A f \in Flight : ~Resyncs(f)
<1>1. sub.session \in left
    BY DEF IInv, Following, Subscription
<1>2. pos = NoPos /\ \A f \in Sent : f.to # want
    BY <1>1 DEF IInv, Following, Stale
<1>3. ~Placed
    BY <1>2 DEF Placed, NoPos, IInv, TypeOK, BusTyped
<1>4. want # Global
    BY BusAssumption DEF IInv, TypeOK, ClientTyped
<1>5. \A k \in DOMAIN queue : queue[k].to # want
    BY <1>4 DEF IInv, Subscription
<1>6. Flight = Sent \cup {queue[k] : k \in DOMAIN queue}
    BY FlightIs DEF IInv, TypeOK, ConnTyped
<1> QED
    BY <1>2, <1>3, <1>5, <1>6 DEF Resyncs

\* Something was published that the connection is not told, or that goes to its queue.
Untold(e) == queue' = queue /\ (sub.ready => e # Logged("event", sub.session))
Told(e) ==
    \E f \in Frames :
        /\ sub.ready /\ queue' = Append(queue, f) /\ exists' = exists
        /\ Honest(f)' /\ f.cursor = cursor + 1 /\ f.to \in {sub.session, Global} /\ f.to \in exists \cup {Global}
        /\ \A s : e = Logged("event", s) => f.to = s

LEMMA PublishedFlight ==
    ASSUME BusAssumption, IInv, NEW e, Grown(e), UNCHANGED <<sub, sending>>, Untold(e) \/ Told(e)
    PROVE  FlightInv' /\ queue' \in Seq(Frames)
<1>1. /\ queue \in Seq(Frames) /\ Len(queue) \in Nat /\ DOMAIN queue = 1..Len(queue)
      /\ \A k \in DOMAIN queue : queue[k] \in Frames
    BY QueueTyped
<1>2. /\ \A f : Honest(f) => Honest(f)'
      /\ \A f : Recent(f) => Recent(f)'
      /\ \A F : \A n \in Int : n <= cursor /\ Complete(F, n) => Complete(F, n)'
      /\ \A f : Counted(f)' <=> Counted(f)
      /\ cursor \in Nat /\ cursor' = cursor + 1 /\ log'[cursor + 1] = e /\ (\A i \in 1..cursor : log'[i] = log[i])
      /\ (Placed' <=> Placed) /\ want' = want /\ pos' = pos
    BY ViewGrows DEF IInv, Grown
<1>3. Sent' = Sent
    BY DEF Sent
<1>4. NoGap /\ \A f \in Flight : Honest(f) /\ Recent(f)
    BY DEF IInv, FlightInv
<1>5. Sent \subseteq Flight /\ (\A k \in DOMAIN queue : queue[k] \in Flight)
    BY FlightIs DEF IInv, TypeOK, ConnTyped
<1>6. ASSUME NEW f \in Flight, NEW F, Complete(F, f.cursor - 1) PROVE Complete(F, f.cursor - 1)'
  <2>1. f.cursor - 1 \in Int /\ f.cursor - 1 <= cursor
      BY <1>2, <1>4 DEF Honest
  <2> QED
      BY <1>2, <1>6, <2>1
<1>7. \A f \in Sent' : Counted(f)' => Complete({}, f.cursor - 1)'
    BY <1>2, <1>3, <1>4, <1>5, <1>6 DEF NoGap
<1>8. sub.ready => \A F, n : F = Flight /\ n = cursor => Complete(F, n)'
  <2> SUFFICES ASSUME sub.ready PROVE Complete(Flight, cursor)
      BY <1>2
  <2>1. CASE sub.session = want
      BY <1>4, <2>1 DEF NoGap
  <2>2. CASE sub.session # want
      BY <2>2, NothingElsewhere DEF Complete
  <2> QED
      BY <2>1, <2>2
<1>9. ASSUME sub.ready, sub.session = want, NEW F, Flight \subseteq F, \A f \in F \ Flight : f.cursor = cursor + 1,
             e = Logged("event", want) => \E f \in F : f.to = want /\ f.cursor = cursor + 1
      PROVE  \A n : n = cursor + 1 => Complete(F, n)'
  <2> SUFFICES ASSUME Placed \/ (\E f \in F : Resyncs(f)), NEW i \in 1..(cursor + 1), log'[i] = Logged("event", want)
               PROVE  (Placed /\ i <= pos.cursor) \/ \E f \in F : Covers(f, i)
      BY <1>2 DEF Complete, Placed, Resyncs, Covers
  <2>1. CASE i = cursor + 1
      BY <1>2, <1>9, <2>1 DEF Covers
  <2>2. CASE i # cursor + 1
    <3>1. i \in 1..cursor /\ log[i] = Logged("event", want)
        BY <1>2, <2>2
    <3>2. CASE Placed \/ \E f \in Flight : Resyncs(f)
        BY <1>4, <1>9, <3>1, <3>2 DEF NoGap, Complete
    <3>3. CASE \E f \in F \ Flight : Resyncs(f)
        BY <1>2, <1>9, <3>1, <3>3 DEF Resyncs, Covers
    <3> QED
        BY <3>2, <3>3
  <2> QED
      BY <2>1, <2>2
<1>10. CASE Untold(e)
  <2>1. queue' = queue /\ (\A k : Ahead(k)' = Ahead(k)) /\ Flight' = Flight
      BY <1>3, <1>10 DEF Untold, Ahead, Flight
  <2>2. ASSUME NEW k \in DOMAIN queue', Counted(queue[k])' PROVE Complete(Ahead(k), queue[k].cursor - 1)'
    <3>1. Counted(queue[k]) /\ queue[k] \in Flight
        BY <1>2, <1>5, <2>1, <2>2
    <3>2. \A F : F = Ahead(k) => Complete(F, queue[k].cursor - 1)
        BY <1>4, <2>1, <2>2, <3>1 DEF NoGap
    <3>3. \A F, n : F = Ahead(k) /\ n = queue[k].cursor - 1 => Complete(F, n)'
        BY <1>6, <3>1, <3>2
    <3> QED
        BY <2>1, <3>3
  <2>3. sub.ready /\ sub.session = want => \A F, n : F = Flight /\ n = cursor + 1 => Complete(F, n)'
      BY <1>9, <1>10 DEF Untold
  <2>4. NoGap'
      BY <1>2, <1>7, <2>1, <2>2, <2>3 DEF NoGap
  <2> QED
      BY <1>1, <1>2, <1>4, <2>1, <2>4 DEF FlightInv
<1>11. CASE Told(e)
  <2>1. PICK f \in Frames :
           /\ sub.ready /\ queue' = Append(queue, f)
           /\ Honest(f)' /\ f.cursor = cursor + 1 /\ f.to \in {sub.session, Global}
           /\ \A s : e = Logged("event", s) => f.to = s
      BY <1>11 DEF Told
  <2> DEFINE a == Append(queue, f)
  <2>2. a \in Seq(Frames) /\ Len(a) = Len(queue) + 1 /\ DOMAIN a = 1..(Len(queue) + 1)
        /\ (\A k \in 1..Len(queue) : a[k] = queue[k]) /\ a[Len(queue) + 1] = f
      BY <1>1, AppendProperties
  <2> HIDE DEF a
  <2>3. queue' = a
      BY <2>1 DEF a
  <2>4. ASSUME NEW k \in 1..(Len(queue) + 1) PROVE Ahead(k)' = Ahead(k)
    <3>1. \A j \in 1..(k - 1) : a[j] = queue[j]
        BY <1>1, <2>2
    <3>2. {a[j] : j \in 1..(k - 1)} = {queue[j] : j \in 1..(k - 1)}
        BY <3>1
    <3> QED
        BY <1>3, <2>3, <3>2 DEF Ahead
  <2>5. Flight' = Flight \cup {f}
    <3>1. Flight' = Sent \cup {a[j] : j \in 1..(Len(queue) + 1 + 1 - 1)}
        BY <1>3, <2>2, <2>3 DEF Flight, Ahead
    <3>2. Flight = Sent \cup {queue[j] : j \in 1..(Len(queue) + 1 - 1)}
        BY DEF Flight, Ahead
    <3>3. Len(queue) + 1 + 1 - 1 = Len(queue) + 1 /\ Len(queue) + 1 - 1 = Len(queue)
        BY <1>1
    <3>4. \A j \in 1..(Len(queue) + 1) : a[j] = f \/ (j \in 1..Len(queue) /\ a[j] = queue[j])
        BY <1>1, <2>2
    <3>5. \A j \in 1..Len(queue) : j \in 1..(Len(queue) + 1) /\ a[j] = queue[j]
        BY <1>1, <2>2
    <3>6. Len(queue) + 1 \in 1..(Len(queue) + 1)
        BY <1>1
    <3> QED
        BY <2>2, <3>1, <3>2, <3>3, <3>4, <3>5, <3>6
  <2>6. Recent(f)'
    <3>1. kept[want].epoch = epoch => kept[want].cursor <= cursor /\ kept[want].cursor \in Nat
        BY DEF IInv, Shown, TypeOK, ClientTyped, Positions
    <3>2. kept' = kept /\ epoch' = epoch
        BY DEF Grown
    <3> QED
        BY <1>2, <2>1, <3>1, <3>2 DEF Recent
  <2>7. ASSUME NEW k \in DOMAIN queue', Counted(queue[k])' PROVE Complete(Ahead(k), queue[k].cursor - 1)'
    <3>1. k \in 1..(Len(queue) + 1)
        BY <2>2, <2>3, <2>7
    <3>2. CASE k = Len(queue) + 1
      <4>1. a[k] = f /\ f.cursor - 1 = cursor
          BY <1>2, <2>1, <2>2, <3>2
      <4>2. Ahead(k) = Flight
          BY <3>2 DEF Flight
      <4>3. \A F, n : F = Flight /\ n = cursor => Complete(F, n)'
          BY <1>8, <2>1
      <4> QED
          BY <2>3, <2>4, <3>1, <4>1, <4>2, <4>3
    <3>3. CASE k # Len(queue) + 1
      <4>1. k \in DOMAIN queue /\ a[k] = queue[k]
          BY <1>1, <2>2, <3>1, <3>3
      <4>2. Counted(queue[k]) /\ queue[k] \in Flight
          BY <1>2, <1>5, <2>3, <2>7, <4>1
      <4>3. \A F : F = Ahead(k) => Complete(F, queue[k].cursor - 1)
          BY <1>4, <4>1, <4>2 DEF NoGap
      <4>4. \A F, n : F = Ahead(k) /\ n = queue[k].cursor - 1 => Complete(F, n)'
          BY <1>6, <4>2, <4>3
      <4> QED
          BY <2>3, <2>4, <3>1, <4>1, <4>4
    <3> QED
        BY <3>2, <3>3
  <2>8. sub.session = want => \A F, n : F = Flight \cup {f} /\ n = cursor + 1 => Complete(F, n)'
    <3>1. e = Logged("event", want) => f.to = want
        BY <2>1
    <3> QED
        BY <1>9, <2>1, <3>1
  <2>9. NoGap'
      BY <1>2, <1>7, <2>5, <2>7, <2>8 DEF NoGap
  <2> QED
      BY <1>2, <1>4, <2>1, <2>2, <2>3, <2>5, <2>6, <2>9 DEF FlightInv
<1> QED
    BY <1>10, <1>11

LEMMA PublishedStep ==
    ASSUME BusAssumption, IInv, NEW e, Grown(e), Untold(e) \/ Told(e), BusTyped', RingInv',
           exists' \subseteq exists, sub.session \in exists => sub.session \in exists',
           UNCHANGED <<sub, hyds, sending, verified, left, up, clientvars>>
    PROVE  IInv'
<1>1. FlightInv' /\ queue' \in Seq(Frames)
    BY PublishedFlight
<1>2. UNCHANGED <<epoch, base, client, want, pos, kept, seen>>
    BY DEF clientvars, Grown
<1>3. TypeOK'
  <2>1. ClientTyped'
      BY <1>2 DEF IInv, TypeOK, ClientTyped
  <2>2. ConnTyped'
      BY <1>1 DEF IInv, TypeOK, ConnTyped
  <2> QED
      BY <2>1, <2>2 DEF TypeOK
<1>4. Shown'
    BY ViewGrows DEF IInv
<1>5. Subscription'
  <2>1. Subscription
      BY DEF IInv
  <2>2. ASSUME NEW k \in DOMAIN queue'
        PROVE  queue'[k].to \in {sub.session, Global} /\ queue'[k].to \in exists' \cup {Global}
    <3>1. CASE Untold(e)
        BY <2>1, <2>2, <3>1 DEF Untold, Subscription
    <3>2. CASE Told(e)
      <4>1. PICK f \in Frames :
               /\ queue' = Append(queue, f) /\ exists' = exists
               /\ f.to \in {sub.session, Global} /\ f.to \in exists \cup {Global}
          BY <3>2 DEF Told
      <4>2. k \in DOMAIN queue \/ queue'[k] = f
        <5> DEFINE a == Append(queue, f)
        <5>1. a \in Seq(Frames) /\ Len(a) = Len(queue) + 1 /\ (\A j \in 1..Len(queue) : a[j] = queue[j])
              /\ a[Len(queue) + 1] = f
            BY QueueTyped, AppendProperties
        <5> HIDE DEF a
        <5>2. DOMAIN a = 1..(Len(queue) + 1)
            BY <5>1, LenProperties
        <5>3. queue' = a
            BY <4>1 DEF a
        <5> QED
            BY <2>2, <5>1, <5>2, <5>3, QueueTyped
      <4>3. k \in DOMAIN queue => queue'[k] = queue[k]
          BY <4>1, QueueTyped, AppendProperties
      <4> QED
          BY <2>1, <4>1, <4>2, <4>3 DEF Subscription
    <3> QED
        BY <3>1, <3>2
  <2>3. queue' # <<>> => sub.ready
      BY <2>1 DEF Subscription, Untold, Told
  <2>4. exists \subseteq Sessions
      BY DEF IInv, TypeOK, BusTyped
  <2>5. \A i \in DOMAIN hyds : hyds[i].current =>
            hyds[i].session = sub.session /\ sub.code = 0 /\ (hyds[i].pc = "read" => hyds[i].session \in exists')
      BY <2>1 DEF Subscription
  <2>6. sub.ready \/ sub.hydrating =>
            sub.session # NoSession /\ sub.code = 0 /\ verified = sub.session /\ sub.session \in exists'
      BY <2>1 DEF Subscription
  <2> QED
      BY <2>2, <2>3, <2>5, <2>6 DEF Subscription
<1>6. Fresh'
  <2>1. cursor \in Nat /\ cursor' = cursor + 1
      BY ViewGrows DEF IInv
  <2>2. \A i \in DOMAIN hyds : hyds[i].cut \in Nat
      BY HydsTyped DEF Hydrations
  <2> QED
      BY <2>1, <2>2 DEF IInv, Fresh
<1>7. Following'
  <2>1. Following
      BY DEF IInv
  <2>2. (\A m : Follows(m)' <=> Follows(m)) /\ (Stale' <=> Stale) /\ Sent' = Sent
      BY <1>2 DEF Follows, Placed, Stale, Sent
  <2>3. client' = "open" \/ queue' = <<>>
    <3>1. client # "open" => ~sub.ready
        BY <2>1 DEF Following, NoSub
    <3> QED
        BY <1>2, <2>1, <3>1 DEF Following, Untold, Told
  <2> QED
      BY <1>2, <2>1, <2>2, <2>3 DEF Following
<1> QED
    BY <1>1, <1>3, <1>4, <1>5, <1>6, <1>7 DEF IInv

LEMMA Busy == ASSUME IInv, sub # NoSub PROVE client = "open"
    BY DEF IInv, Following

LEMMA PublishStep ==
    ASSUME BusAssumption, IInv, NEW type, NEW to, Publish(type, to),
           (type = "catalog" /\ to = Global) \/ (type \in {"event", "snapshot"} /\ to \in exists)
    PROVE  IInv'
<1> DEFINE e == Logged(type, to)
           f == Frame(e, cursor + 1)
<1>0. /\ log' = Append(log, e) /\ Keep(ring \cup {cursor + 1})
      /\ UNCHANGED <<epoch, base, exists, sending, verified, left, up, clientvars, faults>>
      /\ \/ sub.ready /\ to \in {sub.session, Global} /\ Close(1013)
         \/ sub.ready /\ to \in {sub.session, Global} /\ queue' = Append(queue, f) /\ UNCHANGED <<sub, hyds>>
         \/ ~(sub.ready /\ to \in {sub.session, Global}) /\ UNCHANGED <<sub, queue, hyds>>
    BY DEF Publish, Offer
<1>1. cursor \in Nat /\ ring \subseteq 1..cursor /\ discarded \in 0..cursor /\ BusTyped /\ exists \subseteq Sessions
    BY LogTyped DEF IInv, TypeOK, BusTyped
<1>2. e \in Entries /\ e.type = type /\ e.to = to /\ type # "deleted" /\ to \in exists \cup {Global}
    BY <1>1 DEF Logged, Entries
<1>3. Grown(e)
    BY <1>0, <1>2 DEF Grown, clientvars
<1>4. cursor' = cursor + 1 /\ log'[cursor + 1] = e /\ (\A i \in 1..cursor : log'[i] = log[i])
    BY <1>3, ViewGrows DEF IInv
<1> DEFINE held == ring \cup {cursor + 1}
<1>5. /\ ring' \subseteq held /\ discarded' \in 0..cursor + 1
      /\ \A i \in held \ ring' : i <= discarded' /\ \A j \in ring' : i < j
      /\ \A i \in Nat : i <= discarded /\ (\A j \in held : i < j) => i <= discarded'
  <2>1. held \in SUBSET (1..(cursor + 1)) /\ discarded \in 0..(cursor + 1) /\ cursor + 1 \in Nat
      BY <1>1
  <2>2. MaxReplay \in Nat
      BY BusAssumption DEF BusAssumption
  <2>3. Keep(held)
      BY <1>0
  <2> HIDE DEF held
  <2> QED
      BY <2>1, <2>2, <2>3, KeepProperties
<1>6. BusTyped'
  <2>1. epoch' \in Nat \ {0} /\ base' \in [Sessions -> Nat] /\ exists' \subseteq Sessions
      BY <1>0 DEF IInv, TypeOK, BusTyped
  <2>2. log' \in Seq(Entries)
      BY <1>0, <1>1, <1>2, LogGrows DEF BusTyped
  <2>3. ring' \subseteq 1..cursor' /\ discarded' \in 0..cursor'
      BY <1>1, <1>4, <1>5
  <2> QED
      BY <2>1, <2>2, <2>3 DEF BusTyped
<1>7. RingInv'
  <2>1. ASSUME NEW i \in 1..cursor' \ ring', log'[i].type = "event", log'[i].to \in exists
        PROVE  i <= discarded' /\ \A j \in ring' : i < j
    <3>1. CASE i \in held
        BY <1>5, <2>1, <3>1
    <3>2. CASE i \notin held
      <4>1. i \in 1..cursor \ ring /\ log'[i] = log[i]
          BY <1>1, <1>4, <2>1, <3>2
      <4>2. i <= discarded /\ \A j \in ring : i < j
          BY <2>1, <4>1 DEF IInv, RingInv
      <4>3. i < cursor + 1 /\ i \in Nat
          BY <1>1, <4>1
      <4>4. \A j \in held : i < j
          BY <4>2, <4>3
      <4> QED
          BY <1>5, <4>2, <4>3, <4>4
    <3> QED
        BY <3>1, <3>2
  <2>2. ASSUME NEW i \in ring'
        PROVE  /\ log'[i].type # "deleted" /\ log'[i].to \in exists \cup {Global}
               /\ log'[i].type # "event" => \A j \in i..cursor' : log'[j].type # "deleted"
    <3>1. CASE i = cursor + 1
      <4>1. \A j \in i..cursor' : j = i
          BY <1>1, <1>4, <3>1
      <4> QED
          BY <1>2, <1>4, <3>1, <4>1
    <3>2. CASE i # cursor + 1
      <4>1. i \in ring /\ i \in 1..cursor /\ log'[i] = log[i]
          BY <1>1, <1>4, <1>5, <3>2
      <4>2. log[i].type # "deleted" /\ log[i].to \in exists \cup {Global}
            /\ (log[i].type # "event" => \A j \in i..cursor : log[j].type # "deleted")
          BY <4>1 DEF IInv, RingInv
      <4>3. \A j \in i..cursor' : j = cursor + 1 \/ (j \in i..cursor /\ log'[j] = log[j])
          BY <1>1, <1>4, <4>1
      <4> QED
          BY <1>2, <1>4, <4>1, <4>2, <4>3
    <3> QED
        BY <3>1, <3>2
  <2>3. exists' = exists
      BY <1>0
  <2> HIDE DEF held
  <2> QED
      BY <2>1, <2>2, <2>3 DEF RingInv
<1> HIDE DEF held
<1>8. CASE sub.ready /\ to \in {sub.session, Global} /\ Close(1013)
  <2>1. CutOff /\ Shown'
      BY <1>3, <1>8, CloseCuts, ViewGrows DEF IInv
  <2>2. client = "open"
      BY <1>8, Busy DEF NoSub
  <2>3. sending' = sending /\ up' = up /\ verified' = verified /\ UNCHANGED <<epoch, left, clientvars>>
      BY <1>0
  <2> HIDE DEF e
  <2> QED
      BY <1>3, <1>6, <1>7, <2>1, <2>2, <2>3, CloseStep
<1>9. CASE sub.ready /\ to \in {sub.session, Global} /\ queue' = Append(queue, f) /\ UNCHANGED <<sub, hyds>>
  <2> HIDE DEF e
  <2>0. PICK g \in Frames : g = f
      BY <1>1, <1>2, FrameTyped
  <2>2. g.type = type /\ g.to = to /\ g.cursor = cursor + 1 /\ g.epoch = epoch
        /\ (type = "snapshot" => g.events = Upto(to, cursor))
    <3>1. g = [type |-> e.type, to |-> e.to, cursor |-> cursor + 1, epoch |-> epoch,
               events |-> IF e.type = "snapshot" THEN Upto(e.to, (cursor + 1) - 1) ELSE 0]
        BY <2>0 DEF Frame
    <3>2. (cursor + 1) - 1 = cursor
        BY <1>1
    <3> QED
        BY <1>2, <3>1, <3>2
  <2>1. queue' = Append(queue, g)
      BY <1>9, <2>0
  <2>3. type = "snapshot" => \A s, n : s = to /\ n = cursor + 1 => g.events = Upto(s, n)'
    <3> SUFFICES ASSUME type = "snapshot" PROVE \A s, n : s = to /\ n = cursor + 1 => g.events = Upto(s, n)'
        OBVIOUS
    <3>1. g.events = base[to] + Cardinality(EventsTo(to, cursor))
        BY <1>1, <2>2 DEF Upto, EventsTo
    <3>2. ASSUME NEW s, NEW n, s = to, n = cursor + 1 PROVE g.events = Upto(s, n)'
      <4>1. {i \in 1..n : log'[i] = Logged("event", s)} = {i \in 1..cursor : log[i] = Logged("event", to)}
        <5>1. log'[n] # Logged("event", s)
            BY <1>4, <3>2 DEF Logged, e
        <5>2. \A i \in 1..n : i = n \/ (i \in 1..cursor /\ log'[i] = log[i])
            BY <1>1, <1>4, <3>2
        <5>3. \A i \in 1..cursor : i \in 1..n /\ log'[i] = log[i]
            BY <1>1, <1>4, <3>2
        <5> QED
            BY <3>2, <5>1, <5>2, <5>3
      <4>2. base' = base
          BY <1>0
      <4> QED
          BY <3>1, <3>2, <4>1, <4>2 DEF Upto, EventsTo
    <3> QED
        BY <3>2
  <2>4. Honest(g)'
    <3>1. g.cursor \in 0..cursor' /\ g.cursor > 0 /\ epoch' = epoch /\ log'[g.cursor] = Logged(g.type, g.to)
      <4>1. g.cursor = cursor' /\ cursor' \in Nat \ {0} /\ log'[g.cursor] = Logged(type, to)
          BY <1>1, <1>4, <2>2 DEF e
      <4>2. epoch' = epoch
          BY <1>0
      <4>3. g.cursor \in 0..cursor' /\ g.cursor > 0
          BY <4>1
      <4> QED
          BY <2>2, <4>1, <4>2, <4>3
    <3>2. g.type = "snapshot" => g.events = Upto(g.to, g.cursor)'
        BY <2>2, <2>3
    <3> QED
        BY <1>1, <1>2, <2>2, <3>1, <3>2 DEF Honest
  <2>5. \A s : e = Logged("event", s) => g.to = s
      BY <2>2 DEF Logged, e
  <2>6. Told(e)
      BY <1>0, <1>2, <1>9, <2>1, <2>2, <2>4, <2>5 DEF Told
  <2> QED
      BY <1>0, <1>3, <1>6, <1>7, <1>9, <2>6, PublishedStep
<1>10. CASE ~(sub.ready /\ to \in {sub.session, Global}) /\ UNCHANGED <<sub, queue, hyds>>
  <2>1. Untold(e)
      BY <1>10 DEF Untold, Logged
  <2> HIDE DEF e, f
  <2> QED
      BY <1>0, <1>3, <1>6, <1>7, <1>10, <2>1, PublishedStep
<1> HIDE DEF e, f
<1> QED
    BY <1>0, <1>8, <1>9, <1>10

LEMMA DeleteStep ==
    ASSUME BusAssumption, IInv, NEW s \in exists, DeleteSession(s)
    PROVE  IInv'
<1> DEFINE e == Logged("deleted", s)
<1>0. /\ log' = Append(log, e) /\ exists' = exists \ {s} /\ discarded' = cursor + 1
      /\ ring' = {i \in ring : log[i].to \notin {s, Global} /\ log[i].type # "snapshot"}
      /\ UNCHANGED <<epoch, base, sending, verified, left, up, clientvars>>
      /\ \/ sub.session = s /\ Close(1008)
         \/ sub.session # s /\ UNCHANGED <<sub, queue, hyds>>
    BY DEF DeleteSession
<1>1. cursor \in Nat /\ ring \subseteq 1..cursor /\ BusTyped /\ exists \subseteq Sessions
      /\ \A i \in 1..cursor : log[i] \in Entries
    BY LogTyped DEF IInv, TypeOK, BusTyped
<1>2. e \in Entries /\ e.type = "deleted"
    BY <1>1 DEF Logged, Entries
<1>3. Grown(e)
    BY <1>0, <1>2 DEF Grown, clientvars
<1>4. cursor' = cursor + 1 /\ log'[cursor + 1] = e /\ (\A i \in 1..cursor : log'[i] = log[i])
    BY <1>3, ViewGrows DEF IInv
<1>5. BusTyped'
  <2>1. epoch' \in Nat \ {0} /\ base' \in [Sessions -> Nat] /\ exists' \subseteq Sessions
      BY <1>0 DEF IInv, TypeOK, BusTyped
  <2>2. log' \in Seq(Entries)
      BY <1>0, <1>1, <1>2, LogGrows DEF BusTyped
  <2>3. ring' \subseteq ring /\ discarded' = cursor'
      BY <1>0, <1>4
  <2>4. ring' \subseteq 1..cursor' /\ discarded' \in 0..cursor'
      BY <1>1, <1>4, <2>3
  <2> QED
      BY <2>1, <2>2, <2>4 DEF BusTyped
<1>6. RingInv'
  <2>1. ASSUME NEW i \in 1..cursor' \ ring', log'[i].type = "event", log'[i].to \in exists'
        PROVE  i <= discarded' /\ \A j \in ring' : i < j
    <3>1. i <= discarded'
        BY <1>0, <1>4, <2>1
    <3>2. i # cursor + 1 /\ i \in 1..cursor /\ log'[i] = log[i]
        BY <1>1, <1>2, <1>4, <2>1
    <3>3. log[i].to \in Sessions /\ log[i].to # s
        BY <1>0, <1>1, <2>1, <3>2
    <3>4. i \notin ring
        BY <1>0, <2>1, <3>2, <3>3, BusAssumption DEF BusAssumption
    <3>5. \A j \in ring : i < j
        BY <1>0, <2>1, <3>2, <3>4 DEF IInv, RingInv
    <3> QED
        BY <1>0, <3>1, <3>5
  <2>2. ASSUME NEW i \in ring'
        PROVE  /\ log'[i].type # "deleted" /\ log'[i].to \in exists' \cup {Global}
               /\ log'[i].type = "event"
    <3>1. i \in ring /\ i \in 1..cursor /\ log'[i] = log[i] /\ log[i].to \notin {s, Global} /\ log[i].type # "snapshot"
        BY <1>0, <1>1, <1>4
    <3>2. log[i].type # "deleted" /\ log[i].to \in exists \cup {Global} /\ log[i] \in Entries
        BY <1>1, <3>1 DEF IInv, RingInv
    <3>3. log[i].type = "event"
        BY <3>1, <3>2 DEF Entries
    <3> QED
        BY <1>0, <3>1, <3>2, <3>3
  <2> QED
      BY <2>1, <2>2 DEF RingInv
<1>7. CASE sub.session = s /\ Close(1008)
  <2>1. CutOff /\ Shown'
      BY <1>3, <1>7, CloseCuts, ViewGrows DEF IInv
  <2>2. client = "open"
    <3>1. s # NoSession
        BY <1>1, BusAssumption DEF BusAssumption
    <3> QED
        BY <1>7, <3>1, Busy DEF NoSub
  <2>3. sending' = sending /\ up' = up /\ verified' = verified /\ UNCHANGED <<epoch, left, clientvars>>
      BY <1>0
  <2> HIDE DEF e
  <2> QED
      BY <1>3, <1>5, <1>6, <2>1, <2>2, <2>3, CloseStep
<1>8. CASE sub.session # s /\ UNCHANGED <<sub, queue, hyds>>
  <2>1. Untold(e)
      BY <1>8 DEF Untold, Logged
  <2>2. exists' \subseteq exists /\ (sub.session \in exists => sub.session \in exists')
      BY <1>0, <1>8
  <2> HIDE DEF e
  <2> QED
      BY <1>0, <1>3, <1>5, <1>6, <1>8, <2>1, <2>2, PublishedStep
<1> QED
    BY <1>0, <1>7, <1>8

-----------------------------------------------------------------------------
(* The browser *)

LEMMA Asked ==
    ASSUME IInv, NEW m \in Messages, up' = Append(up, m)
    PROVE  /\ up' \in Seq(Messages)
           /\ \A k \in DOMAIN up' : \/ k \in DOMAIN up /\ up'[k] = up[k]
                                    \/ up'[k] = m /\ \A l \in DOMAIN up' : l <= k
<1> DEFINE u == Append(up, m)
<1>1. u \in Seq(Messages) /\ Len(u) = Len(up) + 1 /\ (\A k \in 1..Len(up) : u[k] = up[k]) /\ u[Len(up) + 1] = m
    BY UpTyped, AppendProperties
<1> HIDE DEF u
<1>2. DOMAIN u = 1..(Len(up) + 1) /\ up' = u
    BY <1>1, LenProperties DEF u
<1>3. \A k \in 1..(Len(up) + 1) : k \in 1..Len(up) \/ (k = Len(up) + 1 /\ \A l \in 1..(Len(up) + 1) : l <= k)
    BY UpTyped
<1> QED
    BY <1>1, <1>2, <1>3, UpTyped

\* The browser may ask for a snapshot, in what it has to say of its session.
LEMMA AskKeeps ==
    ASSUME BusAssumption, IInv, UNCHANGED <<epoch, want, left>>, \A m : m.after \in Nat /\ Follows(m) => Follows(m)',
           up' \in {up, Append(up, Subscribe(want, NoPos))}
    PROVE  /\ up' \in Seq(Messages)
           /\ (\A k \in DOMAIN up : up[k].session \in left \cup {want} /\ (up[k].type = "subscribe" => Follows(up[k])))'
           /\ (\A k, l \in DOMAIN up : k < l /\ up[l].session \in left => up[k].session \in left)'
           /\ (\E k \in DOMAIN up : up[k].session \in left)' => \E k \in DOMAIN up : up[k].session \in left
<1> DEFINE m == Subscribe(want, NoPos)
<1>1. want \in Sessions /\ want \notin left /\ epoch \in Nat \ {0} /\ Following
    BY DEF IInv, TypeOK, BusTyped, ClientTyped, Following
<1>2. m \in Messages /\ m.session = want /\ m.epoch = 0 /\ m.after = 0 /\ \A x \in Messages : x.after \in Nat
    BY <1>1 DEF Subscribe, NoPos, Messages
<1>3. Follows(m)
    BY <1>1, <1>2 DEF Follows
<1> HIDE DEF m
<1>4. CASE up' = up
    BY <1>1, <1>2, <1>4, UpTyped DEF Following
<1>5. CASE up' = Append(up, m)
  <2>1. /\ up' \in Seq(Messages)
        /\ \A k \in DOMAIN up' : \/ k \in DOMAIN up /\ up'[k] = up[k]
                                 \/ up'[k] = m /\ \A l \in DOMAIN up' : l <= k
      BY <1>2, <1>5, Asked
  <2>2. ASSUME NEW k \in DOMAIN up'
        PROVE  up'[k].session \in left \cup {want} /\ (up'[k].type = "subscribe" => \A x : x = up'[k] => Follows(x)')
    BY <1>1, <1>2, <1>3, <2>1, <2>2, UpTyped DEF Following
  <2>3. ASSUME NEW k \in DOMAIN up', NEW l \in DOMAIN up', k < l, up'[l].session \in left
        PROVE  up'[k].session \in left
    <3>1. l \in DOMAIN up /\ up'[l] = up[l]
        BY <1>1, <1>2, <2>1, <2>3
    <3>2. k \in Nat /\ l \in Nat
        BY <2>1, LenProperties
    <3>3. k \in DOMAIN up /\ up'[k] = up[k]
        BY <2>1, <2>3, <3>2
    <3> QED
        BY <1>1, <2>3, <3>1, <3>3 DEF Following
  <2>4. (\A k \in DOMAIN up : up[k].session \in left \cup {want} /\ (up[k].type = "subscribe" => Follows(up[k])))'
      BY <2>2
  <2>5. (\A k, l \in DOMAIN up : k < l /\ up[l].session \in left => up[k].session \in left)'
      BY <2>3
  <2>6. (\E k \in DOMAIN up : up[k].session \in left)' => \E k \in DOMAIN up : up[k].session \in left
      BY <1>1, <1>2, <2>1
  <2> QED
      BY <2>1, <2>4, <2>5, <2>6
<1> QED
    BY <1>4, <1>5 DEF m

LEMMA ConnectStep == ASSUME BusAssumption, IInv, Connect PROVE IInv'
<1> DEFINE m == Subscribe(want, pos')
<1>0. client = "closed" /\ client' = "open" /\ pos' \in {pos, NoPos} /\ up' = <<m>>
      /\ UNCHANGED <<busvars, sub, queue, sending, hyds, verified, left, want, kept, seen>>
    BY DEF Connect
<1>1. sub = NoSub /\ queue = <<>> /\ sending = NoFrame /\ hyds = <<>> /\ up = <<>> /\ left = {}
    BY <1>0 DEF IInv, Following
<1>2. want \in Sessions /\ pos' \in Positions /\ epoch \in Nat \ {0} /\ (pos' = NoPos => pos'.epoch = 0)
    BY <1>0 DEF IInv, TypeOK, ClientTyped, BusTyped, Positions, NoPos
<1>3. m \in Messages /\ m.session = want /\ m.after = pos'.cursor /\ m.epoch = pos'.epoch /\ m.type = "subscribe"
    BY <1>2 DEF Subscribe, Messages, Positions
<1> HIDE DEF m
<1>4. up' \in Seq(Messages) /\ DOMAIN up' = {1} /\ up'[1] = m
    BY <1>0, <1>3
<1>5. TypeOK'
  <2>1. BusTyped' /\ ClientTyped'
      BY <1>0, <1>2 DEF IInv, TypeOK, BusTyped, ClientTyped, busvars, cursor
  <2>2. ConnTyped'
      BY <1>0, <1>4 DEF IInv, TypeOK, ConnTyped
  <2> QED
      BY <2>1, <2>2 DEF TypeOK
<1>6. RingInv'
    BY <1>0, RingKept DEF IInv, busvars
<1>7. DOMAIN queue' = {} /\ DOMAIN hyds' = {} /\ Len(queue') = 0 /\ Sent' = {} /\ ~sub'.ready /\ ~sub'.hydrating
      /\ queue' = <<>> /\ sub'.session = NoSession
    BY <1>0, <1>1, EmptySeq, LenProperties DEF Sent, NoSub
<1>8. Subscription' /\ Fresh'
    BY <1>7 DEF Subscription, Fresh
<1>9. FlightInv'
  <2>1. Flight' = {}
      BY <1>7 DEF Flight, Ahead
  <2> QED
      BY <1>7, <2>1 DEF FlightInv, NoGap
<1>10. Shown'
  <2>1. epoch' = epoch /\ cursor' = cursor /\ (\A t, n : Upto(t, n)' = Upto(t, n)) /\ (\A t : Made(t)' = Made(t))
      BY <1>0 DEF busvars, cursor, Upto, Made
  <2> QED
      BY <1>0, <1>2, <2>1 DEF IInv, Shown, PositionHonest, Placed
<1>11. Following'
  <2>1. m.epoch = epoch => pos'.epoch = epoch /\ m.after <= pos'.cursor
      BY <1>2, <1>3 DEF Positions
  <2>2. \A x : x = m => Follows(x)'
      BY <1>0, <2>1 DEF Follows, Placed, busvars
  <2>3. ~Stale'
      BY <1>0, <1>1, <1>4 DEF Stale
  <2>4. UNCHANGED <<want, left>>
      BY <1>0
  <2> QED
      BY <1>0, <1>1, <1>3, <1>4, <1>7, <2>2, <2>3, <2>4 DEF Following
<1> QED
    BY <1>5, <1>6, <1>8, <1>9, <1>10, <1>11 DEF IInv

LEMMA TimerStep == ASSUME BusAssumption, IInv, TimerFires PROVE IInv'
<1>0. client = "open" /\ up' = Append(up, Subscribe(want, NoPos))
      /\ UNCHANGED <<busvars, sub, queue, sending, hyds, verified, left, client, want, pos, kept, seen>>
    BY DEF TimerFires
<1>1. SameView /\ UNCHANGED <<exists, ring, discarded, left, sub, queue, sending, hyds, verified, client, want, pos, epoch>>
    BY <1>0 DEF SameView, busvars
<1>2. \A x : Follows(x)' <=> Follows(x)
    BY <1>1 DEF Follows, Placed
<1>3. /\ up' \in Seq(Messages)
      /\ (\A k \in DOMAIN up : up[k].session \in left \cup {want} /\ (up[k].type = "subscribe" => Follows(up[k])))'
      /\ (\A k, l \in DOMAIN up : k < l /\ up[l].session \in left => up[k].session \in left)'
      /\ (\E k \in DOMAIN up : up[k].session \in left)' => \E k \in DOMAIN up : up[k].session \in left
    BY <1>0, <1>1, <1>2, AskKeeps
<1>4. TypeOK'
  <2>1. BusTyped' /\ ClientTyped'
      BY <1>0 DEF IInv, TypeOK, BusTyped, ClientTyped, busvars, cursor
  <2>2. ConnTyped'
      BY <1>1, <1>3 DEF IInv, TypeOK, ConnTyped
  <2> QED
      BY <2>1, <2>2 DEF TypeOK
<1>5. RingInv' /\ Shown'
    BY <1>1, RingKept, ViewKept DEF IInv, SameView
<1>6. Subscription' /\ Fresh'
  <2>1. cursor' = cursor /\ \A s : Made(s)' = Made(s)
      BY <1>1 DEF SameView, Made, Upto, cursor
  <2> QED
      BY <1>1, <2>1 DEF IInv, Fresh, Subscription
<1>7. FlightInv'
  <2>1. Sent' = Sent /\ (\A k : Ahead(k)' = Ahead(k)) /\ Flight' = Flight
      BY <1>1 DEF Sent, Ahead, Flight
  <2>2. NoGap /\ \A f \in Flight : Honest(f) /\ Recent(f)
      BY DEF IInv, FlightInv
  <2>3. NoGap'
      BY <1>1, <2>1, <2>2, ViewKept DEF NoGap
  <2> QED
      BY <1>1, <2>1, <2>2, <2>3, ViewKept DEF FlightInv
<1>8. Following'
  <2>1. Following
      BY DEF IInv
  <2>2. (\A k \in DOMAIN hyds : hyds[k].current => Follows(hyds[k]))'
      BY <1>1, <1>2, <2>1 DEF Following
  <2>3. (Stale' => Stale) /\ Sent' = Sent
      BY <1>1, <1>3 DEF Stale, Sent
  <2> QED
      BY <1>0, <1>1, <1>3, <2>1, <2>2, <2>3 DEF Following
<1> QED
    BY <1>4, <1>5, <1>6, <1>7, <1>8 DEF IInv

LEMMA MoveStep == ASSUME BusAssumption, IInv, NEW s \in Sessions, Move(s) PROVE IInv'
<1> DEFINE m == Subscribe(s, NoPos)
           x == Unsubscribe(want)
<1>0. /\ client = "open" /\ s # want /\ s \notin left /\ want' = s /\ pos' = NoPos /\ left' = left \cup {want}
      /\ up' = up \o Append(<<>>, m) \/ up' = up \o Append(<<x>>, m)
      /\ UNCHANGED <<busvars, sub, queue, sending, hyds, verified, client, kept, seen>>
    BY DEF Move
<1>1. want \in Sessions /\ epoch \in Nat \ {0} /\ Following
    BY DEF IInv, TypeOK, ClientTyped, BusTyped
<1>2. /\ m \in Messages /\ m.session = s /\ m.epoch = 0
      /\ x \in Messages /\ x.session = want /\ x.type = "unsubscribe"
    BY <1>1 DEF Subscribe, Unsubscribe, NoPos, Messages
<1> HIDE DEF m, x
<1>3. PICK w \in Seq(Messages) : /\ up' = up \o w /\ Len(w) \in Nat \ {0} /\ DOMAIN w = 1..Len(w) /\ w[Len(w)] = m
                                 /\ \A k \in 1..Len(w) : k = Len(w) \/ w[k] = x
  <2>1. ASSUME NEW first \in {<<>>, <<x>>}
        PROVE  LET v == Append(first, m)
               IN  /\ v \in Seq(Messages) /\ Len(v) \in Nat \ {0} /\ DOMAIN v = 1..Len(v) /\ v[Len(v)] = m
                   /\ \A k \in 1..Len(v) : k = Len(v) \/ v[k] = x
    <3> DEFINE v == Append(first, m)
    <3>1. first \in Seq(Messages) /\ Len(first) \in {0, 1} /\ (Len(first) = 1 => first[1] = x)
      <4>1. CASE first = <<>>
          BY <4>1, EmptySeq
      <4>2. CASE first = <<x>>
          BY <1>2, <4>2
      <4> QED
          BY <4>1, <4>2
    <3>2. v \in Seq(Messages) /\ Len(v) = Len(first) + 1 /\ (\A k \in 1..Len(first) : v[k] = first[k]) /\ v[Len(first) + 1] = m
        BY <1>2, <3>1, AppendProperties
    <3> HIDE DEF v
    <3>3. DOMAIN v = 1..Len(v)
        BY <3>2, LenProperties
    <3>4. \A k \in 1..Len(v) : k = Len(v) \/ (k = 1 /\ Len(first) = 1)
        BY <3>1, <3>2
    <3>5. \A k \in 1..Len(v) : k = Len(v) \/ v[k] = x
        BY <3>1, <3>2, <3>4
    <3>6. Len(v) \in Nat \ {0} /\ v[Len(v)] = m
        BY <3>1, <3>2
    <3> QED
        BY <3>2, <3>3, <3>5, <3>6 DEF v
  <2>2. PICK first \in {<<>>, <<x>>} : up' = up \o Append(first, m)
      BY <1>0
  <2> QED
      BY <2>1, <2>2
<1>4. /\ up' \in Seq(Messages)
      /\ \A k \in DOMAIN up' : \/ k \in DOMAIN up /\ up'[k] = up[k]
                               \/ up'[k] = x
                               \/ up'[k] = m /\ \A l \in DOMAIN up' : l <= k
  <2> DEFINE u == up \o w
             n == Len(up)
  <2>1. u \in Seq(Messages) /\ Len(u) = n + Len(w) /\ n \in Nat /\ DOMAIN up = 1..n
        /\ \A k \in 1..(n + Len(w)) : u[k] = IF k <= n THEN up[k] ELSE w[k - n]
    <3>1. up \in Seq(Messages) /\ n \in Nat /\ DOMAIN up = 1..n
        BY UpTyped
    <3>2. u \in Seq(Messages) /\ Len(u) = Len(up) + Len(w)
        BY <3>1, ConcatProperties
    <3>3. \A k \in 1..(Len(up) + Len(w)) : u[k] = IF k <= Len(up) THEN up[k] ELSE w[k - Len(up)]
        BY <3>1, ConcatProperties
    <3> QED
        BY <3>1, <3>2, <3>3
  <2> HIDE DEF u, n
  <2>2. DOMAIN u = 1..(n + Len(w)) /\ up' = u
      BY <1>3, <2>1, LenProperties DEF u
  <2>3. ASSUME NEW k \in 1..(n + Len(w))
        PROVE  \/ k \in DOMAIN up /\ u[k] = up[k]
               \/ u[k] = x
               \/ u[k] = m /\ \A l \in 1..(n + Len(w)) : l <= k
    <3>1. CASE k <= n
        BY <2>1, <3>1
    <3>2. CASE ~(k <= n)
      <4>0. n \in Nat /\ Len(w) \in Nat
          BY <1>3, <2>1
      <4>1. k - n \in 1..Len(w)
          BY <3>2, <4>0
      <4>2. u[k] = w[k - n]
          BY <2>1, <3>2
      <4>3. k - n = Len(w) => \A l \in 1..(n + Len(w)) : l <= k
          BY <4>0
      <4> QED
          BY <1>3, <4>1, <4>2, <4>3
    <3> QED
        BY <3>1, <3>2
  <2> QED
      BY <2>1, <2>2, <2>3
<1>5. TypeOK'
  <2>1. BusTyped'
      BY <1>0 DEF IInv, TypeOK, BusTyped, busvars, cursor
  <2>2. ClientTyped'
      BY <1>0 DEF IInv, TypeOK, ClientTyped, NoPos, Positions
  <2>3. ConnTyped'
      BY <1>0, <1>1, <1>4 DEF IInv, TypeOK, ConnTyped
  <2> QED
      BY <2>1, <2>2, <2>3 DEF TypeOK
<1>6. RingInv'
    BY <1>0, RingKept DEF IInv, busvars
<1>7. UNCHANGED <<epoch, log, ring, discarded, base, exists>> /\ cursor' = cursor
      /\ (\A t, n : Upto(t, n)' = Upto(t, n)) /\ (\A t : Made(t)' = Made(t))
    BY <1>0 DEF busvars, cursor, Upto, Made
<1>8. Subscription' /\ Fresh'
    BY <1>0, <1>7 DEF IInv, Subscription, Fresh
<1>9. ~Placed' /\ pos'.epoch = 0
    BY <1>0, <1>1, <1>7 DEF Placed, NoPos
<1>10. Shown'
    BY <1>0, <1>1, <1>7, <1>9 DEF IInv, Shown, PositionHonest, Placed
<1>11. sub.session # s /\ \A f \in Flight : f.to # s
  <2>1. s # Global /\ s # NoSession
      BY BusAssumption DEF BusAssumption
  <2>2. sub.session # s /\ \A f \in Sent : f.to # s
      BY <1>0, <1>1, <2>1 DEF Following
  <2>3. \A k \in DOMAIN queue : queue[k].to # s
      BY <2>1, <2>2 DEF IInv, Subscription
  <2>4. Flight = Sent \cup {queue[k] : k \in DOMAIN queue}
      BY FlightIs DEF IInv, TypeOK, ConnTyped
  <2> QED
      BY <2>2, <2>3, <2>4
<1>12. FlightInv'
  <2>1. Sent' = Sent /\ (\A k : Ahead(k)' = Ahead(k)) /\ Flight' = Flight /\ queue' = queue /\ Sent \subseteq Flight
      BY <1>0 DEF Sent, Ahead, Flight
  <2>2. \A f \in Flight : Honest(f)
      BY DEF IInv, FlightInv
  <2>3. \A f \in Flight : Honest(f)' /\ Recent(f)'
      BY <1>0, <1>7, <1>11, <2>2 DEF Honest, Recent, Resyncs
  <2>4. \A F : F \subseteq Flight => \A n : Complete(F, n)'
      BY <1>0, <1>9, <1>11 DEF Complete, Resyncs
  <2>5. \A k \in DOMAIN queue : Ahead(k) \subseteq Flight
    <3> SUFFICES ASSUME NEW k \in DOMAIN queue PROVE Ahead(k) \subseteq Flight
        OBVIOUS
    <3>1. 1..(k - 1) \subseteq 1..((Len(queue) + 1) - 1)
        BY QueueTyped
    <3> QED
        BY <3>1 DEF Ahead, Flight
  <2>6. NoGap'
      BY <2>1, <2>4, <2>5 DEF NoGap
  <2> QED
      BY <2>1, <2>3, <2>6 DEF FlightInv
<1>13. Following'
  <2>1. ASSUME NEW k \in DOMAIN up'
        PROVE  /\ up'[k].session \in left' \cup {s}
               /\ up'[k].type = "subscribe" => \A y : y = up'[k] => Follows(y)'
               /\ up'[k].session \in left' \/ \A l \in DOMAIN up' : l <= k
    <3>1. CASE k \in DOMAIN up /\ up'[k] = up[k]
      <4>1. up'[k].session \in left' /\ up'[k].session # s
          BY <1>0, <1>1, <3>1 DEF Following
      <4> QED
          BY <1>0, <4>1 DEF Follows
    <3>2. CASE up'[k] = x
        BY <1>0, <1>2, <3>2
    <3>3. CASE up'[k] = m /\ \A l \in DOMAIN up' : l <= k
        BY <1>1, <1>2, <1>7, <3>3 DEF Follows
    <3> QED
        BY <1>4, <3>1, <3>2, <3>3
  <2>2. (\A k \in DOMAIN up : up[k].session \in left \cup {want} /\ (up[k].type = "subscribe" => Follows(up[k])))'
      BY <1>0, <2>1
  <2>3. (\A k, l \in DOMAIN up : k < l /\ up[l].session \in left => up[k].session \in left)'
    <3> SUFFICES ASSUME NEW k \in DOMAIN up', NEW l \in DOMAIN up', k < l PROVE up'[k].session \in left'
        OBVIOUS
    <3>1. k \in Nat /\ l \in Nat
        BY <1>4, LenProperties
    <3>2. ~ (l <= k)
        BY <3>1
    <3> QED
        BY <2>1, <3>2
  <2>4. (\A i \in DOMAIN hyds : hyds[i].current => Follows(hyds[i]))'
    <3>1. \A i \in DOMAIN hyds : hyds[i].current => hyds[i].session # s
        BY <1>11 DEF IInv, Subscription
    <3> QED
        BY <1>0, <3>1 DEF Follows
  <2>5. Sent' = Sent /\ Sent \subseteq Flight
      BY <1>0 DEF Sent, Ahead, Flight
  <2>6. (\A f \in Sent : f.to \in left \cup {want, Global})' /\ (\A f \in Sent : f.to # want)'
      BY <1>0, <1>1, <1>11, <2>5 DEF Following
  <2>7. (sub.session \in left \cup {want, NoSession})' /\ sub'.session # want' /\ want' \notin left'
      BY <1>0, <1>1, <1>11 DEF Following
  <2> QED
      BY <1>0, <2>2, <2>3, <2>4, <2>6, <2>7 DEF Following
<1> QED
    BY <1>5, <1>6, <1>8, <1>10, <1>12, <1>13 DEF IInv

\* The frame under way has arrived, and what it covered the position does.
LEMMA ArrivedFlight ==
    ASSUME IInv, NEW f, f = sending, f # NoFrame, sending' = NoFrame, UNCHANGED <<queue, sub, epoch, log, base, want>>,
           \A F, n : Complete({f} \cup F, n) => Complete(F, n)', \A g \in Flight : Recent(g) => Recent(g)'
    PROVE  FlightInv'
<1>1. Sent = {f} /\ Sent' = {}
    BY DEF Sent
<1>2. \A k : Ahead(k) = {f} \cup Ahead(k)'
    BY <1>1 DEF Ahead
<1>3. Flight = {f} \cup Flight'
    BY <1>1 DEF Flight, Ahead
<1>4. NoGap /\ \A g \in Flight : Honest(g) /\ Recent(g)
    BY DEF IInv, FlightInv
<1>5. cursor' = cursor /\ (\A g : Counted(g)' <=> Counted(g)) /\ \A g : Honest(g) => Honest(g)'
    BY DEF cursor, Counted, Honest, Upto
<1>6. ASSUME NEW k \in DOMAIN queue', Counted(queue[k])' PROVE Complete(Ahead(k), queue[k].cursor - 1)'
  <2>1. Complete(Ahead(k), queue[k].cursor - 1)
      BY <1>4, <1>5, <1>6 DEF NoGap
  <2>2. \A F, n : F = Ahead(k)' /\ n = queue[k].cursor - 1 => Complete(F, n)'
      BY <1>2, <2>1
  <2> QED
      BY <2>2
<1>7. sub.ready /\ sub.session = want => \A F, n : F = Flight' /\ n = cursor => Complete(F, n)'
    BY <1>3, <1>4 DEF NoGap
<1>8. NoGap'
    BY <1>1, <1>5, <1>6, <1>7 DEF NoGap
<1> QED
    BY <1>3, <1>4, <1>5, <1>8 DEF FlightInv

\* What the browser did with a frame that arrived.
Took(f) ==
    \/ /\ Foreign(f) \/ (~Unplaced(f) /\ Known(f))
       /\ UNCHANGED <<pos, kept, seen, up>>
    \/ /\ ~Foreign(f) /\ ~Unplaced(f) /\ ~Known(f)
       /\ Show(f) /\ pos' = [cursor |-> f.cursor, epoch |-> f.epoch]
       /\ up' \in {up, Append(up, Subscribe(want, NoPos))}

LEMMA ArriveCases ==
    ASSUME Arrive
    PROVE  /\ client = "open" /\ sending # NoFrame /\ UNCHANGED busvars
           /\ \/ /\ Disconnected /\ up' = <<>> /\ client' = "closed" /\ pos' = NoPos
                 /\ UNCHANGED <<want, kept, seen>>
              \/ /\ sending' = NoFrame /\ UNCHANGED <<sub, queue, hyds, verified, left, client, want>>
                 /\ \E f : f = sending /\ Took(f)
<1>1. client = "open" /\ sending # NoFrame /\ UNCHANGED busvars
    BY DEF Arrive
<1>2. PICK f : f = sending
    OBVIOUS
<1>3. \/ /\ Disconnected /\ up' = <<>> /\ client' = "closed" /\ pos' = NoPos
         /\ UNCHANGED <<want, kept, seen>>
      \/ /\ Foreign(f) \/ ~Unplaced(f)
         /\ sending' = NoFrame /\ UNCHANGED <<sub, queue, hyds, verified, left, client, want>>
         /\ IF Foreign(f) \/ Known(f) THEN UNCHANGED <<pos, kept, seen, up>> ELSE Apply(f)
    BY <1>2 DEF Arrive
<1>4. Apply(f) => /\ Show(f) /\ pos' = [cursor |-> f.cursor, epoch |-> f.epoch]
                  /\ up' \in {up, Append(up, Subscribe(want, NoPos))}
    BY DEF Apply
<1>5. ASSUME Foreign(f) \/ ~Unplaced(f), IF Foreign(f) \/ Known(f) THEN UNCHANGED <<pos, kept, seen, up>> ELSE Apply(f)
      PROVE  Took(f)
    BY <1>4, <1>5, Zenon DEF Took
<1> QED
    BY <1>1, <1>2, <1>3, <1>5

\* What a frame changes for the browser: it covers what the frame covered.
Advances(f) ==
    /\ pos' \in Positions /\ kept' \in [Sessions -> Positions] /\ seen' \in [Sessions -> Nat]
    /\ Shown'
    /\ \A F, n : Complete({f} \cup F, n) => Complete(F, n)'
    /\ \A g : Recent(g) => Recent(g)'
    /\ \A m : m.after \in Nat /\ Follows(m) => Follows(m)'
    /\ Stale => pos' = NoPos
    /\ up' \in {up, Append(up, Subscribe(want, NoPos))}

LEMMA Arrived ==
    ASSUME BusAssumption, IInv, NEW f, f = sending, f # NoFrame
    PROVE  /\ f \in Frames /\ Honest(f) /\ Recent(f) /\ f.epoch = epoch /\ f.cursor \in 0..cursor /\ cursor \in Nat
           /\ epoch \in Nat \ {0} /\ want \in Sessions /\ want # Global /\ pos \in Positions /\ base \in [Sessions -> Nat]
           /\ kept \in [Sessions -> Positions] /\ seen \in [Sessions -> Nat]
           /\ Counted(f) => Complete({}, f.cursor - 1)
           /\ Stale => pos = NoPos /\ f.to # want
<1>1. f \in Frames /\ epoch \in Nat \ {0} /\ want \in Sessions /\ pos \in Positions /\ kept \in [Sessions -> Positions]
      /\ base \in [Sessions -> Nat] /\ seen \in [Sessions -> Nat] /\ cursor \in Nat
    BY LogTyped DEF IInv, TypeOK, ConnTyped, BusTyped, ClientTyped
<1>2. f \in Sent /\ f \in Flight
    BY DEF Sent, Flight, Ahead
<1>3. Honest(f) /\ Recent(f) /\ (Counted(f) => Complete({}, f.cursor - 1)) /\ (Stale => pos = NoPos /\ f.to # want)
    BY <1>2 DEF IInv, FlightInv, NoGap, Following
<1>4. want # Global
    BY <1>1, BusAssumption DEF BusAssumption
<1> QED
    BY <1>1, <1>3, <1>4 DEF Honest

LEMMA DropAdvances ==
    ASSUME BusAssumption, IInv, NEW f, f = sending, f # NoFrame, UNCHANGED <<busvars, want, pos, kept, seen, up>>,
           Foreign(f) \/ Known(f)
    PROVE  Advances(f)
<1>1. /\ f \in Frames /\ f.epoch = epoch /\ f.cursor \in 0..cursor /\ epoch \in Nat \ {0} /\ want # Global
      /\ pos \in Positions /\ kept \in [Sessions -> Positions] /\ seen \in [Sessions -> Nat] /\ (Stale => pos = NoPos)
    BY Arrived
<1>2. SameView
    BY DEF SameView, busvars
<1>3. UNCHANGED <<log, epoch, pos, want>>
    BY <1>2 DEF SameView
<1>4. ASSUME NEW F, NEW n, Complete({f} \cup F, n) PROVE Complete(F, n)
  <2>1. CASE f.to # want
      BY <1>4, <2>1 DEF Complete, Resyncs, Covers
  <2>2. CASE f.to = want
    <3>1. Known(f)
        BY <1>1, <2>2 DEF Foreign, Scoped
    <3>2. Placed /\ f.cursor <= pos.cursor
        BY <1>1, <3>1 DEF Known, Placed
    <3>3. \A i \in 1..n : Covers(f, i) => i <= pos.cursor
      <4> SUFFICES ASSUME NEW i \in 1..n, Covers(f, i) PROVE i <= pos.cursor
          OBVIOUS
      <4>1. i <= f.cursor
          BY DEF Covers
      <4>2. f.cursor \in Nat /\ pos.cursor \in Nat /\ i \in Int
          BY <1>1 DEF Positions
      <4> QED
          BY <3>2, <4>1, <4>2
    <3> QED
        BY <1>4, <3>2, <3>3 DEF Complete
  <2> QED
      BY <2>1, <2>2
<1>5. \A F, n : Complete({f} \cup F, n) => Complete(F, n)'
    BY <1>2, <1>4, ViewKept
<1>6. Shown' /\ \A g : Recent(g) => Recent(g)'
    BY <1>2, ViewKept DEF IInv
<1>7. \A m : Follows(m) => Follows(m)'
    BY <1>3 DEF Follows, Placed
<1> QED
    BY <1>1, <1>5, <1>6, <1>7 DEF Advances

LEMMA TakeAdvances ==
    ASSUME BusAssumption, IInv, NEW f, f = sending, f # NoFrame, UNCHANGED <<busvars, want>>,
           ~Foreign(f), ~Unplaced(f), ~Known(f), Show(f), pos' = [cursor |-> f.cursor, epoch |-> f.epoch],
           up' \in {up, Append(up, Subscribe(want, NoPos))}
    PROVE  Advances(f)
<1>1. /\ f \in Frames /\ Honest(f) /\ Recent(f) /\ f.epoch = epoch /\ f.cursor \in 0..cursor /\ cursor \in Nat
      /\ epoch \in Nat \ {0} /\ want \in Sessions /\ want # Global /\ pos \in Positions /\ base \in [Sessions -> Nat]
      /\ kept \in [Sessions -> Positions] /\ seen \in [Sessions -> Nat]
      /\ Counted(f) => Complete({}, f.cursor - 1)
      /\ Stale => pos = NoPos /\ f.to # want
    BY Arrived
<1>2. /\ pos.cursor \in Nat /\ f.cursor \in Nat /\ kept[want].cursor \in Nat
      /\ f.type \in {"event", "snapshot", "catalog"}
    BY <1>1 DEF Positions, Frames
<1>3. Shown
    BY DEF IInv
<1>4. UNCHANGED <<epoch, log, base, want>> /\ cursor' = cursor /\ (\A t, n : Upto(t, n)' = Upto(t, n)) /\ (\A t : Made(t)' = Made(t))
    BY DEF busvars, cursor, Upto, Made
<1>5. pos' \in Positions /\ pos'.cursor = f.cursor /\ pos'.epoch = epoch /\ Placed'
    BY <1>1, <1>2, <1>4 DEF Positions, Placed
<1>6. f.to = want \/ (f.to = Global /\ pos # NoPos)
    BY DEF Foreign, Scoped
<1>7. f.type = "snapshot" => Resyncs(f) /\ f.events = Upto(want, f.cursor)
    BY <1>1, <1>6, BusAssumption DEF Resyncs, Honest, BusAssumption
<1>8. f.type # "snapshot" => Placed /\ pos # NoPos /\ Counted(f)
    BY <1>1, <1>6 DEF Unplaced, Placed, Counted
<1>9. Placed => pos.cursor <= f.cursor /\ (f.type # "snapshot" => pos.cursor < f.cursor)
  <2> SUFFICES ASSUME Placed PROVE pos.cursor <= f.cursor /\ (f.type # "snapshot" => pos.cursor < f.cursor)
      OBVIOUS
  <2>1. pos # NoPos
      BY <1>1 DEF Placed, NoPos
  <2>2. ~(f.cursor <= pos.cursor) \/ (f.cursor = pos.cursor /\ f.type = "snapshot")
      BY <1>1, <2>1 DEF Known, Placed
  <2> QED
      BY <1>2, <2>2
<1>10. \A F, n : Complete({f} \cup F, n) => Complete(F, n)'
  <2> SUFFICES ASSUME NEW F, NEW n, Complete({f} \cup F, n), NEW i \in 1..n, log[i] = Logged("event", want)
               PROVE  i <= f.cursor \/ \E g \in F : Covers(g, i)
      BY <1>4, <1>5 DEF Complete, Covers
  <2>1. Placed \/ \E g \in {f} \cup F : Resyncs(g)
      BY <1>7, <1>8
  <2>2. (Placed /\ i <= pos.cursor) \/ \E g \in {f} \cup F : Covers(g, i)
      BY <2>1 DEF Complete
  <2>3. Placed /\ i <= pos.cursor => i <= f.cursor
      BY <1>2, <1>9
  <2>4. Covers(f, i) => i <= f.cursor
      BY <1>2 DEF Covers
  <2> QED
      BY <2>2, <2>3, <2>4
<1>11. \A g : Recent(g)'
    BY <1>5 DEF Recent
<1>12. \A m : m.after \in Nat /\ Follows(m) => Follows(m)'
  <2> SUFFICES ASSUME NEW m, m.after \in Nat, Follows(m), m.session = want, m.epoch = epoch PROVE m.after <= f.cursor
      BY <1>4, <1>5 DEF Follows
  <2>1. Placed /\ m.after <= pos.cursor
      BY DEF Follows
  <2> QED
      BY <1>2, <1>9, <2>1
<1>13. ~Stale
    BY <1>1, <1>6
<1>14. f.type = "snapshot" \/ f.type = "event" => f.to = want /\ Scoped(f) /\ ~Refused(f)
  <2> SUFFICES ASSUME f.type = "snapshot" \/ f.type = "event" PROVE f.to = want /\ Scoped(f) /\ ~Refused(f)
      OBVIOUS
  <2>1. f.to = want /\ Scoped(f)
      BY <1>1, <1>6, BusAssumption DEF Honest, Scoped, BusAssumption
  <2>2. CASE Placed
    <3>1. kept[want].epoch = epoch /\ kept[want].cursor <= pos.cursor
        BY <1>3, <2>2 DEF Shown
    <3>2. ~(f.cursor < kept[want].cursor) /\ (f.type # "snapshot" => f.cursor # kept[want].cursor)
        BY <1>2, <1>9, <2>2, <3>1
    <3> QED
        BY <1>1, <2>1, <3>1, <3>2 DEF Refused
  <2>3. CASE ~Placed
    <3>1. f.type = "snapshot" /\ Resyncs(f)
        BY <1>7, <1>8, <2>3
    <3>2. kept[want].epoch = epoch => kept[want].cursor <= f.cursor
        BY <1>1, <2>3, <3>1 DEF Recent
    <3> QED
        BY <1>1, <1>2, <2>1, <3>1, <3>2 DEF Refused
  <2> QED
      BY <2>1, <2>2, <2>3
\* The position that the frame leaves is what the transcript shows.
<1>15. /\ kept' \in [Sessions -> Positions] /\ seen' \in [Sessions -> Nat]
       /\ \A s \in Sessions \ {want} : kept'[s] = kept[s] /\ seen'[s] = seen[s]
       /\ kept'[want].epoch = epoch /\ kept'[want].cursor <= f.cursor
       /\ seen'[want] = Upto(want, f.cursor) /\ seen'[want] = Upto(want, kept'[want].cursor)
  <2>1. f.type # "snapshot" =>
           \A i \in (pos.cursor + 1)..(f.cursor - 1) : log[i] # Logged("event", want)
    <3> SUFFICES ASSUME f.type # "snapshot", NEW i \in (pos.cursor + 1)..(f.cursor - 1), log[i] = Logged("event", want)
                 PROVE  FALSE
        OBVIOUS
    <3>1. i \in 1..(f.cursor - 1) /\ ~(i <= pos.cursor)
        BY <1>2
    <3>2. Complete({}, f.cursor - 1) /\ Placed
        BY <1>1, <1>8
    <3> QED
        BY <3>1, <3>2 DEF Complete
  <2>2. Placed => kept[want].epoch = epoch /\ kept[want].cursor <= pos.cursor
                  /\ seen[want] = Upto(want, pos.cursor) /\ seen[want] = Upto(want, kept[want].cursor)
      BY <1>1, <1>3 DEF Shown, PositionHonest, Placed
  <2>3. CASE f.type = "catalog"
    <3>1. f.to = Global /\ Placed /\ f.cursor > 0 /\ log[f.cursor] = Logged("catalog", Global)
        BY <1>1, <1>8, <2>3 DEF Honest
    <3>2. UNCHANGED <<kept, seen>>
        BY <3>1 DEF Show, Scoped
    <3>3. pos.cursor < f.cursor
        BY <1>9, <2>3, <3>1
    <3>4. \A i \in (pos.cursor + 1)..f.cursor : log[i] # Logged("event", want)
      <4>1. log[f.cursor] # Logged("event", want)
          BY <3>1 DEF Logged
      <4>2. \A i \in (pos.cursor + 1)..f.cursor : i = f.cursor \/ i \in (pos.cursor + 1)..(f.cursor - 1)
          BY <1>2
      <4> QED
          BY <2>1, <2>3, <4>1, <4>2
    <3>5. Upto(want, f.cursor) = Upto(want, pos.cursor)
        BY <1>2, <3>3, <3>4, UptoSkips
    <3> QED
        BY <1>1, <1>2, <2>2, <3>1, <3>2, <3>3, <3>5
  <2>4. CASE f.type # "catalog"
    <3>1. f.to = want /\ Scoped(f) /\ ~Refused(f)
        BY <1>2, <1>14, <2>4
    <3>2. /\ kept' = [kept EXCEPT ![want] = [cursor |-> f.cursor, epoch |-> f.epoch]]
          /\ seen' = [seen EXCEPT ![want] = IF f.type = "snapshot" THEN f.events ELSE seen[want] + 1]
        BY <3>1 DEF Show
    <3>3. (IF f.type = "snapshot" THEN f.events ELSE seen[want] + 1) = Upto(want, f.cursor)
      <4>1. CASE f.type = "snapshot"
          BY <1>7, <4>1
      <4>2. CASE f.type # "snapshot"
        <5>1. f.type = "event" /\ Placed /\ pos.cursor < f.cursor
            BY <1>2, <1>8, <1>9, <2>4, <4>2
        <5>2. log[f.cursor] = Logged("event", want)
            BY <1>1, <3>1, <5>1 DEF Honest
        <5>3. Upto(want, f.cursor) = Upto(want, pos.cursor) + 1
            BY <1>1, <1>2, <2>1, <5>1, <5>2, UptoCounts
        <5> QED
            BY <2>2, <4>2, <5>1, <5>3
      <4> QED
          BY <4>1, <4>2
    <3>4. Upto(want, f.cursor) \in Nat
        BY <1>1, <1>2, UptoIsNat
    <3>5. [cursor |-> f.cursor, epoch |-> f.epoch] \in Positions
        BY <1>1, <1>2 DEF Positions
    <3>6. kept' \in [Sessions -> Positions] /\ kept'[want] = [cursor |-> f.cursor, epoch |-> f.epoch]
          /\ \A s \in Sessions \ {want} : kept'[s] = kept[s]
        BY <1>1, <3>2, <3>5
    <3>7. seen' \in [Sessions -> Nat] /\ seen'[want] = Upto(want, f.cursor)
          /\ \A s \in Sessions \ {want} : seen'[s] = seen[s]
        BY <1>1, <3>2, <3>3, <3>4
    <3>8. kept'[want].cursor = f.cursor /\ kept'[want].epoch = epoch
        BY <1>1, <3>6
    <3> QED
        BY <1>2, <3>6, <3>7, <3>8
  <2> QED
      BY <2>3, <2>4
<1>16. Shown'
  <2>1. Upto(want, f.cursor) <= Made(want)
      BY <1>1, <1>2, UptoGrows DEF Made
  <2>2. f.cursor <= cursor /\ kept'[want].cursor <= cursor /\ kept'[want].cursor \in Nat
    <3>1. kept'[want] \in Positions /\ kept'[want].cursor <= f.cursor
        BY <1>1, <1>15
    <3>2. kept'[want].cursor \in Nat
        BY <3>1 DEF Positions
    <3> QED
        BY <1>1, <1>2, <3>1, <3>2
  <2>3. ASSUME NEW s \in Sessions
        PROVE  /\ kept'[s].epoch <= epoch /\ (kept'[s].epoch = epoch => kept'[s].cursor <= cursor)
               /\ kept'[s].epoch = epoch => seen'[s] = Upto(s, kept'[s].cursor)
               /\ seen'[s] <= Made(s)
    <3>1. CASE s = want
        BY <1>1, <1>15, <2>1, <2>2, <3>1
    <3>2. CASE s # want
        BY <1>3, <1>15, <3>2 DEF Shown, PositionHonest
    <3> QED
        BY <3>1, <3>2
  <2>4. PositionHonest'
      BY <1>4, <1>5, <1>15, <2>2, <2>3 DEF PositionHonest
  <2> QED
      BY <1>1, <1>4, <1>5, <1>15, <2>2, <2>3, <2>4 DEF Shown
<1> QED
    BY <1>5, <1>10, <1>11, <1>12, <1>13, <1>15, <1>16 DEF Advances

LEMMA ArriveStep == ASSUME BusAssumption, IInv, Arrive PROVE IInv'
<1>0. client = "open" /\ sending # NoFrame /\ UNCHANGED busvars
    BY ArriveCases
<1>1. CASE /\ Disconnected /\ up' = <<>> /\ client' = "closed" /\ pos' = NoPos
           /\ UNCHANGED <<want, kept, seen>>
  <2>1. ClientTyped'
      BY <1>1 DEF IInv, TypeOK, ClientTyped, NoPos, Positions
  <2>2. epoch' = epoch /\ cursor' = cursor /\ (\A t, n : Upto(t, n)' = Upto(t, n)) /\ (\A t : Made(t)' = Made(t))
        /\ epoch \in Nat \ {0}
      BY <1>0 DEF busvars, cursor, Upto, Made, IInv, TypeOK, BusTyped
  <2>3. ~Placed' /\ pos'.epoch = 0
      BY <1>1, <2>2 DEF Placed, NoPos
  <2>4. Shown'
      BY <1>1, <2>2, <2>3 DEF IInv, Shown, PositionHonest, Placed
  <2>5. client' # "open"
      BY <1>1
  <2> QED
      BY <1>0, <1>1, <2>1, <2>4, <2>5, SameBus, GoneStep
<1>2. CASE /\ sending' = NoFrame /\ UNCHANGED <<sub, queue, hyds, verified, left, client, want>>
           /\ \E f : f = sending /\ Took(f)
  <2>1. PICK f : f = sending /\ Took(f)
      BY <1>2
  <2>2. Advances(f)
      BY <1>0, <1>2, <2>1, DropAdvances, TakeAdvances DEF Took
  <2>3. UNCHANGED <<epoch, log, base, want, exists, ring, discarded>>
      BY <1>0, <1>2 DEF busvars
  <2>4. FlightInv'
    <3>1. (\A F, n : Complete({f} \cup F, n) => Complete(F, n)') /\ \A g \in Flight : Recent(g) => Recent(g)'
        BY <2>2 DEF Advances
    <3> QED
        BY <1>0, <1>2, <2>1, <2>3, <3>1, ArrivedFlight
  <2>5. /\ up' \in Seq(Messages)
        /\ (\A k \in DOMAIN up : up[k].session \in left \cup {want} /\ (up[k].type = "subscribe" => Follows(up[k])))'
        /\ (\A k, l \in DOMAIN up : k < l /\ up[l].session \in left => up[k].session \in left)'
        /\ (\E k \in DOMAIN up : up[k].session \in left)' => \E k \in DOMAIN up : up[k].session \in left
      BY <1>2, <2>2, <2>3, AskKeeps DEF Advances
  <2>6. TypeOK'
    <3>1. BusTyped'
        BY <2>3 DEF IInv, TypeOK, BusTyped, cursor
    <3>2. ClientTyped'
        BY <1>2, <2>2 DEF IInv, TypeOK, ClientTyped, Advances
    <3>3. ConnTyped'
        BY <1>2, <2>5 DEF IInv, TypeOK, ConnTyped
    <3> QED
        BY <3>1, <3>2, <3>3 DEF TypeOK
  <2>7. RingInv'
      BY <2>3, RingKept DEF IInv
  <2>8. Subscription' /\ Fresh'
    <3>1. cursor' = cursor /\ \A s : Made(s)' = Made(s)
        BY <2>3 DEF Made, Upto, cursor
    <3> QED
        BY <1>2, <2>3, <3>1 DEF IInv, Fresh, Subscription
  <2>9. Following'
    <3>1. Following
        BY DEF IInv
    <3>2. (\A k \in DOMAIN hyds : hyds[k].current => Follows(hyds[k]))'
      <4>1. \A k \in DOMAIN hyds : hyds[k].after \in Nat
          BY HydsTyped DEF Hydrations
      <4> QED
          BY <1>2, <2>2, <3>1, <4>1 DEF Following, Advances
    <3>3. Sent' = {} /\ (Stale' => Stale)
        BY <1>2, <2>5 DEF Stale, Sent
    <3>4. Stale' => pos' = NoPos /\ sub'.session # want'
        BY <1>2, <2>2, <3>1, <3>3 DEF Following, Advances
    <3> QED
        BY <1>0, <1>2, <2>3, <2>5, <3>1, <3>2, <3>3, <3>4 DEF Following
  <2> QED
      BY <2>2, <2>4, <2>6, <2>7, <2>8, <2>9 DEF IInv, Advances
<1> QED
    BY <1>1, <1>2, ArriveCases

-----------------------------------------------------------------------------
(* The theorems *)

LEMMA InitIInv == ASSUME BusAssumption, Init PROVE IInv
<1>1. /\ epoch = 1 /\ log = <<>> /\ ring = {} /\ discarded = 0
      /\ base = [s \in Sessions |-> 0] /\ exists = Sessions
      /\ sub = NoSub /\ queue = <<>> /\ sending = NoFrame /\ hyds = <<>>
      /\ verified = NoSession /\ left = {} /\ up = <<>>
      /\ client = "closed" /\ want = Selected /\ pos = NoPos
      /\ kept = [s \in Sessions |-> NoPos] /\ seen = [s \in Sessions |-> 0]
    BY DEF Init
<1>2. cursor = 0 /\ DOMAIN queue = {} /\ DOMAIN hyds = {} /\ DOMAIN up = {} /\ Len(queue) = 0 /\ Sent = {} /\ Flight = {}
  <2>1. cursor = 0 /\ DOMAIN queue = {} /\ DOMAIN hyds = {} /\ DOMAIN up = {} /\ Len(queue) = 0 /\ Sent = {}
      BY <1>1, EmptySeq, LenProperties DEF cursor, Sent
  <2> QED
      BY <2>1 DEF Flight, Ahead
<1>3. NoPos \in Positions /\ NoPos.epoch = 0 /\ NoPos.cursor = 0
    BY DEF NoPos, Positions
<1>4. sub \in Subscribers /\ ~sub.ready /\ ~sub.hydrating /\ sub.session = NoSession
    BY <1>1 DEF NoSub, Subscribers
<1>5. BusTyped
    BY <1>1, <1>2, EmptySeq DEF BusTyped
<1>6. ConnTyped
    BY <1>1, <1>4, EmptySeq DEF ConnTyped
<1>7. ClientTyped
    BY <1>1, <1>3, BusAssumption DEF ClientTyped, BusAssumption
<1>8. RingInv
    BY <1>1, <1>2 DEF RingInv
<1>9. Subscription /\ Fresh
    BY <1>1, <1>2, <1>4 DEF Subscription, Fresh
<1>10. FlightInv
    BY <1>2, <1>4 DEF FlightInv, NoGap
<1>11. Following
    BY <1>1, <1>2, <1>4 DEF Following, Stale
<1>12. \A s \in Sessions : Made(s) = 0
  <2> SUFFICES ASSUME NEW s \in Sessions PROVE Made(s) = 0
      OBVIOUS
  <2>1. EventsTo(s, 0) = {}
      BY DEF EventsTo
  <2>2. Made(s) = base[s] + Cardinality(EventsTo(s, 0))
      BY <1>2 DEF Made, Upto, EventsTo
  <2> QED
      BY <1>1, <2>1, <2>2, FS_EmptySet
<1>13. Shown
    BY <1>1, <1>3, <1>12 DEF Shown, PositionHonest, Placed
<1> QED
    BY <1>5, <1>6, <1>7, <1>8, <1>9, <1>10, <1>11, <1>13 DEF IInv, TypeOK

LEMMA StutterStep == ASSUME IInv, UNCHANGED vars PROVE IInv'
<1>1. SameView /\ UNCHANGED <<exists, ring, discarded, left, sub, queue, sending, hyds, verified, up, client, want, pos, epoch>>
    BY DEF vars, SameView, busvars, connvars, clientvars
<1>2. TypeOK'
    BY <1>1 DEF IInv, TypeOK, BusTyped, ConnTyped, ClientTyped, SameView, cursor
<1>3. RingInv' /\ Shown'
    BY <1>1, RingKept, ViewKept DEF IInv, SameView
<1>4. cursor' = cursor /\ \A s : Made(s)' = Made(s)
    BY <1>1 DEF SameView, Made, Upto, cursor
<1>5. Subscription' /\ Fresh'
    BY <1>1, <1>4 DEF IInv, Fresh, Subscription
<1>6. Sent' = Sent /\ (\A k : Ahead(k)' = Ahead(k)) /\ Flight' = Flight
    BY <1>1 DEF Sent, Ahead, Flight
<1>7. FlightInv'
  <2>1. NoGap'
      BY <1>1, <1>6, ViewKept DEF IInv, FlightInv, NoGap
  <2> QED
      BY <1>1, <1>6, <2>1, ViewKept DEF IInv, FlightInv
<1>8. Following'
  <2>1. (\A m : Follows(m)' <=> Follows(m)) /\ (Stale' <=> Stale)
      BY <1>1 DEF Follows, Placed, Stale
  <2> QED
      BY <1>1, <1>6, <2>1 DEF IInv, Following
<1> QED
    BY <1>2, <1>3, <1>5, <1>7, <1>8 DEF IInv

LEMMA NextIInv == ASSUME BusAssumption, IInv, [Next]_vars PROVE IInv'
<1>1. CASE UNCHANGED vars
    BY <1>1, StutterStep
<1>2. CASE Serve
    BY <1>2, ReceiveStep, SendStep, BeginReadStep, ReadStep, FailsStep, ReadAgainStep, OutlivedStep, HydrateStep DEF Serve
<1>3. CASE Follow
    BY <1>3, ConnectStep, TimerStep, ArriveStep, LostStep DEF Follow
<1>4. CASE Publish("catalog", Global)
    BY <1>4, PublishStep
<1>5. ASSUME NEW s \in exists, Publish("event", s) \/ Publish("snapshot", s) \/ DeleteSession(s) PROVE IInv'
    BY <1>5, PublishStep, DeleteStep
<1>6. ASSUME NEW i \in DOMAIN hyds, ReadFails(i) PROVE IInv'
    BY <1>6, FailsStep
<1>7. ASSUME NEW s \in Sessions, Switch(s) \/ Move(s) PROVE IInv'
    BY <1>7, SwitchStep, MoveStep
<1>8. CASE SendFails \/ Break \/ Restart
    BY <1>8, SendFailsStep, LostStep, RestartStep
<1> QED
    BY <1>1, <1>2, <1>3, <1>4, <1>5, <1>6, <1>7, <1>8 DEF Next

\* The invariant holds throughout: of the bus, of the connection and of the browser.
THEOREM Invariance == Spec => []IInv
<1>1. Init => IInv
    BY BusAssumption, InitIInv
<1>2. IInv /\ [Next]_vars => IInv'
    BY BusAssumption, NextIInv
<1> QED
    BY <1>1, <1>2, PTL DEF Spec

\* What the browser shows is what its position stands for: no event is missed and
\* none is shown twice, whatever overflows, is forgotten, comes late or breaks.
THEOREM BrowsersAreNotMisled == Spec => []PositionHonest
<1>1. IInv => PositionHonest
    BY DEF IInv, Shown
<1> QED
    BY <1>1, Invariance, PTL

\* What is queued, replayed or subscribed is of the subscription's session, that its
\* membership was verified for, and not of a session that is deleted.
THEOREM ConnectionsArePrivate == Spec => []NothingForeign
<1>1. IInv => OnlyWhatIsSubscribed
    BY DEF IInv, Subscription, OnlyWhatIsSubscribed
<1>2. IInv => DeletedIsPrivate
    BY DEF IInv, Subscription, RingInv, DeletedIsPrivate
<1> QED
    BY <1>1, <1>2, Invariance, PTL DEF NothingForeign
-----------------------------------------------------------------------------
(* The approvals of a tool's calls: ToolApprovals, over variables of its   *)
(* own.                                                                    *)

CONSTANTS Runs, Bindings, MaxCalls, MaxChanges

VARIABLES policy, defined, enabled, listening, alive, call, pending,
          answers, calls, changes

P == INSTANCE ToolApprovals

Accepting == {"allow", "allow_tool"}

\* The questions put to the operator in a run.
Questions(r) == {q \in shown : q.run = r}

\* What a lookup read is still so, unless a permission changed since it began.
LookupIsFresh(r) ==
    /\ call[r].revision <= policy
    /\ call[r].binding = NoBinding => call[r].stage # "looking" /\ ~call[r].found
    /\ call[r].mandatory => call[r].binding = NoBinding
    /\ call[r].stage = "looked" /\ P!Allowed(r) => grant.binding = call[r].binding

\* A call asks at most one question, whose number nothing else has.
QuestionIsOwn(r) ==
    /\ \A q \in Questions(r) : q.id <= calls[r]
    /\ call[r].stage \in {"looking", "looked", "asking"} => \A q \in Questions(r) : q.id # calls[r]
    /\ call[r].stage \notin {"waiting", "closing"} => pending[r] = P!NoPending
    /\ call[r].stage # "none" => calls[r] # 0
    /\ pending[r].id # 0 => pending[r].id = calls[r]
    /\ pending[r].answer # "none" => pending[r].id # 0
    /\ call[r].stage \in {"waiting", "closing"} => pending[r].id = calls[r]
    /\ pending[r].id # 0 => \A q \in Questions(r) : q.id = pending[r].id => q.binding = pending[r].binding

\* Who said yes, said it to this question.
Answer(r) ==
    /\ pending[r].answer = "yes" => \E q \in Questions(r) : q.id = calls[r] /\ q.decision \in Accepting
    /\ call[r].by = "operator" => \E q \in Questions(r) : q.id = calls[r] /\ q.decision \in Accepting
    /\ call[r].by # "none" => call[r].stage \in {"closing", "decided"}
    /\ call[r].stage = "decided" =>
          \/ call[r].by = "saved" /\ ~call[r].mandatory
          \/ call[r].by = "operator"

\* An answer under way is one the operator sent.
AnswersAreSent ==
    \A a \in answers : a.run \in Runs /\ \E q \in shown : q.run = a.run /\ q.id = a.id /\ q.decision = a.decision

\* The inductive invariant.
ApprovalsInv ==
    /\ P!TypeOK
    /\ \A r \in Runs : LookupIsFresh(r) /\ QuestionIsOwn(r) /\ Answer(r)
    /\ AnswersAreSent
    /\ P!OperationsAreAuthorized
-----------------------------------------------------------------------------

Same(r) == call'[r] = call[r] /\ pending'[r] = pending[r] /\ calls'[r] = calls[r]

\* A run none of whose variables changes keeps its invariant, whoever moves.
LEMMA OthersKeep ==
    ASSUME ApprovalsInv, NEW r \in Runs, Same(r), shown' = shown,
           policy' \in Nat, policy <= policy', policy' = policy => grant' = grant
    PROVE  (LookupIsFresh(r) /\ QuestionIsOwn(r) /\ Answer(r))'
<1>1. LookupIsFresh(r) /\ QuestionIsOwn(r) /\ Answer(r)
    BY DEF ApprovalsInv
<1>2. call[r].revision \in Nat /\ policy \in Nat
    BY DEF ApprovalsInv, P!TypeOK
<1>3. LookupIsFresh(r)'
    BY <1>1, <1>2 DEF LookupIsFresh, P!Allowed, Same
<1>4. Questions(r)' = Questions(r)
    BY DEF Questions
<1>5. QuestionIsOwn(r)'
    BY <1>1, <1>4 DEF QuestionIsOwn, Same
<1>6. Answer(r)'
    BY <1>1, <1>4 DEF Answer, Same
<1> QED
    BY <1>3, <1>5, <1>6

\* What a call and a question are made of.
CallType == [stage : {"none", "looking", "looked", "asking", "waiting", "closing", "decided"},
             binding : Bindings \cup {NoBinding}, mandatory : BOOLEAN, revision : Nat, found : BOOLEAN,
             by : {"none", "saved", "stale", "operator"}]
PendingType == [id : Nat, answer : {"none", "open", "yes", "no"}, binding : Bindings \cup {NoBinding}]

LEMMA EmptyTypes == P!NoCall \in CallType /\ P!NoPending \in PendingType
    BY DEF P!NoCall, P!NoPending, CallType, PendingType

\* The records and sets keep their types.
LEMMA ApprovalsTyped == ASSUME P!ApprovalsAssumption, ApprovalsInv, [P!Next]_(P!vars) PROVE P!TypeOK'
<1> USE DEF P!ApprovalsAssumption, P!Change, P!Steady, P!world
<1>0. P!TypeOK /\ call \in [Runs -> CallType] /\ pending \in [Runs -> PendingType]
    BY DEF ApprovalsInv, P!TypeOK, CallType, PendingType
<1>00. ASSUME call' \in [Runs -> CallType], pending' \in [Runs -> PendingType],
              grant' \in [binding : Bindings \cup {NoBinding}, revision : Nat], policy' \in Nat,
              calls' \in [Runs -> 0..MaxCalls], changes' \in 0..MaxChanges,
              answers' \subseteq [run : Runs, id : Nat, decision : P!Decision],
              shown' \subseteq [run : Runs, id : Nat, binding : Bindings \cup {NoBinding}, decision : P!Decision \cup {"none"}],
              executed' \subseteq [run : Runs, id : Nat, by : {"saved", "stale", "operator"}, mandatory : BOOLEAN],
              UNCHANGED <<defined, enabled, listening, alive>>
       PROVE  P!TypeOK'
    BY <1>0, <1>00 DEF P!TypeOK, CallType, PendingType
<1>1. ASSUME NEW r \in Runs, P!Ask(r) PROVE P!TypeOK'
  <2>1. PICK mandatory \in BOOLEAN : LET binding == IF mandatory THEN NoBinding ELSE P!RequestedBinding(r)
            IN  call' = [call EXCEPT ![r] =
                  [P!NoCall EXCEPT !.stage = IF binding = NoBinding THEN "looked" ELSE "looking",
                                 !.binding = binding, !.mandatory = mandatory, !.revision = policy]]
      BY <1>1 DEF P!Ask
  <2> DEFINE binding == IF mandatory THEN NoBinding ELSE P!RequestedBinding(r)
  <2>2. binding \in Bindings \cup {NoBinding}
      BY <1>0 DEF P!RequestedBinding, P!TypeOK
  <2>3. policy \in Nat
      BY <1>0 DEF P!TypeOK
  <2>4. [P!NoCall EXCEPT !.stage = IF binding = NoBinding THEN "looked" ELSE "looking",
                       !.binding = binding, !.mandatory = mandatory, !.revision = policy] \in CallType
    <3> HIDE DEF binding
    <3> QED
        BY <2>2, <2>3, EmptyTypes DEF CallType
  <2>5. call' \in [Runs -> CallType]
    <3>1. call' = [call EXCEPT ![r] =
                  [P!NoCall EXCEPT !.stage = IF binding = NoBinding THEN "looked" ELSE "looking",
                                 !.binding = binding, !.mandatory = mandatory, !.revision = policy]]
        BY <2>1
    <3> HIDE DEF binding
    <3> QED
        BY <1>0, <2>4, <3>1
  <2>6. calls' \in [Runs -> 0..MaxCalls] /\ changes' \in 0..MaxChanges
      BY <1>0, <1>1 DEF P!Ask, P!TypeOK
  <2> QED
      BY <1>0, <1>00, <1>1, <2>5, <2>6 DEF P!Ask, P!TypeOK
<1>2. ASSUME NEW r \in Runs, P!LookUp(r) PROVE P!TypeOK'
  <2>1. [call[r] EXCEPT !.stage = "looked", !.found = (grant.binding = call[r].binding)] \in CallType
      BY <1>0 DEF CallType
  <2>2. call' \in [Runs -> CallType]
      BY <1>0, <1>2, <2>1 DEF P!LookUp
  <2> QED
      BY <1>0, <1>00, <1>2, <2>2 DEF P!LookUp, P!TypeOK
<1>3. ASSUME NEW r \in Runs, P!Resume(r) PROVE P!TypeOK'
  <2>1. call' \in [Runs -> CallType]
    <3>1. CASE P!Deny(r)
        BY <1>0, <3>1, EmptyTypes DEF P!Deny
    <3>2. CASE call' = [call EXCEPT ![r].stage = "decided",
                                    ![r].by = IF grant.binding = call[r].binding THEN "saved" ELSE "stale"]
      <4>1. [call[r] EXCEPT !.stage = "decided", !.by = IF grant.binding = call[r].binding THEN "saved" ELSE "stale"] \in CallType
          BY <1>0 DEF CallType
      <4> QED
          BY <1>0, <3>2, <4>1
    <3>3. CASE call' = [call EXCEPT ![r].stage = "asking"]
      <4>1. [call[r] EXCEPT !.stage = "asking"] \in CallType
          BY <1>0 DEF CallType
      <4> QED
          BY <1>0, <3>3, <4>1
    <3> QED
        BY <1>3, <3>1, <3>2, <3>3 DEF P!Resume
  <2> QED
      BY <1>0, <1>00, <1>3, <2>1 DEF P!Resume, P!TypeOK
<1>4. ASSUME NEW r \in Runs, P!Put(r) PROVE P!TypeOK'
  <2>1. CASE P!Deny(r) /\ UNCHANGED <<pending, shown>>
    <3>1. call' \in [Runs -> CallType]
        BY <1>0, <2>1, EmptyTypes DEF P!Deny
    <3> QED
        BY <1>0, <1>00, <1>4, <2>1, <3>1 DEF P!Put, P!TypeOK
  <2>2. CASE ~(P!Deny(r) /\ UNCHANGED <<pending, shown>>)
    <3>1. [call[r] EXCEPT !.stage = "waiting"] \in CallType
        BY <1>0 DEF CallType
    <3>2. call' \in [Runs -> CallType]
        BY <1>0, <1>4, <2>2, <3>1 DEF P!Put
    <3>3. call[r].binding \in Bindings \cup {NoBinding} /\ calls[r] \in Nat
        BY <1>0 DEF P!TypeOK, CallType
    <3>4. [id |-> calls[r], answer |-> "open", binding |-> call[r].binding] \in PendingType
        BY <3>3 DEF PendingType
    <3>5. pending' \in [Runs -> PendingType]
        BY <1>0, <1>4, <2>2, <3>4 DEF P!Put
    <3>6. shown' \subseteq [run : Runs, id : Nat, binding : Bindings \cup {NoBinding}, decision : P!Decision \cup {"none"}]
        BY <1>0, <1>4, <2>2, <3>3 DEF P!Put, P!TypeOK
    <3> QED
        BY <1>0, <1>00, <1>4, <3>2, <3>5, <3>6 DEF P!Put, P!TypeOK
  <2> QED
      BY <2>1, <2>2
<1>5. ASSUME NEW r \in Runs, P!Answered(r) PROVE P!TypeOK'
  <2>1. [call[r] EXCEPT !.stage = "closing"] \in CallType
      BY <1>0 DEF CallType
  <2>2. [call[r] EXCEPT !.stage = "closing", !.by = IF pending[r].answer = "yes" THEN "operator" ELSE "none"] \in CallType
      BY <1>0 DEF CallType
  <2>3. call' \in [Runs -> CallType]
      BY <1>0, <1>5, <2>1, <2>2 DEF P!Answered
  <2>4. [pending[r] EXCEPT !.answer = IF @ = "open" THEN "no" ELSE @] \in PendingType
      BY <1>0 DEF PendingType
  <2>5. pending' \in [Runs -> PendingType]
      BY <1>0, <1>5, <2>4 DEF P!Answered
  <2>6. changes' \in 0..MaxChanges
      BY <1>0, <1>5 DEF P!Answered, P!TypeOK
  <2> QED
      BY <1>0, <1>00, <1>5, <2>3, <2>5, <2>6 DEF P!Answered, P!TypeOK
<1>6. ASSUME NEW r \in Runs, P!Close(r) PROVE P!TypeOK'
  <2>1. [call[r] EXCEPT !.stage = "decided"] \in CallType
      BY <1>0 DEF CallType
  <2>2. call' \in [Runs -> CallType]
      BY <1>0, <1>6, <2>1, EmptyTypes DEF P!Close, P!Deny
  <2>3. pending' \in [Runs -> PendingType]
      BY <1>0, <1>6, EmptyTypes DEF P!Close
  <2> QED
      BY <1>0, <1>00, <1>6, <2>2, <2>3 DEF P!Close, P!TypeOK
<1>7. ASSUME NEW r \in Runs, P!Execute(r) PROVE P!TypeOK'
  <2>1. call' \in [Runs -> CallType]
      BY <1>0, <1>7, EmptyTypes DEF P!Execute, P!Deny
  <2>2. call[r].by \in {"saved", "operator"}
      BY <1>7 DEF ApprovalsInv, Answer, P!Execute
  <2>3. calls[r] \in Nat /\ call[r].mandatory \in BOOLEAN
      BY <1>0 DEF P!TypeOK, CallType
  <2>4. executed' \subseteq [run : Runs, id : Nat, by : {"saved", "stale", "operator"}, mandatory : BOOLEAN]
      BY <1>0, <1>7, <2>2, <2>3 DEF P!Execute, P!TypeOK
  <2> QED
      BY <1>0, <1>00, <1>7, <2>1, <2>4 DEF P!Execute, P!TypeOK
<1>8. ASSUME NEW r \in Runs, P!Send(r) PROVE P!TypeOK'
  <2>1. PICK q \in shown, d \in P!Decision : /\ q.run = r
                                           /\ shown' = (shown \ {q}) \cup {[q EXCEPT !.decision = d]}
                                           /\ answers' = answers \cup {[run |-> r, id |-> q.id, decision |-> d]}
      BY <1>8 DEF P!Send
  <2>2. q \in [run : Runs, id : Nat, binding : Bindings \cup {NoBinding}, decision : P!Decision \cup {"none"}]
      BY <1>0 DEF P!TypeOK
  <2>3. shown' \subseteq [run : Runs, id : Nat, binding : Bindings \cup {NoBinding}, decision : P!Decision \cup {"none"}]
      BY <1>0, <2>1, <2>2 DEF P!TypeOK
  <2>4. answers' \subseteq [run : Runs, id : Nat, decision : P!Decision]
      BY <1>0, <2>1, <2>2 DEF P!TypeOK
  <2> QED
      BY <1>0, <1>00, <1>8, <2>3, <2>4 DEF P!Send, P!TypeOK
<1>9. ASSUME NEW a \in answers, P!Arrive(a) PROVE P!TypeOK'
  <2>1. a.run \in Runs
      BY <1>0 DEF P!TypeOK
  <2>2. [pending[a.run] EXCEPT !.answer = "no"] \in PendingType /\ [pending[a.run] EXCEPT !.answer = "yes"] \in PendingType
      BY <1>0, <2>1 DEF PendingType
  <2>3. pending' \in [Runs -> PendingType]
      BY <1>0, <1>9, <2>1, <2>2 DEF P!Arrive
  <2>4. pending[a.run].binding \in Bindings \cup {NoBinding}
      BY <1>0, <2>1 DEF PendingType
  <2>5. grant' \in [binding : Bindings \cup {NoBinding}, revision : Nat] /\ policy' \in Nat
      BY <1>0, <1>9, <2>4 DEF P!Arrive, P!Granted, P!TypeOK
  <2>6. answers' \subseteq [run : Runs, id : Nat, decision : P!Decision]
      BY <1>0, <1>9 DEF P!Arrive, P!TypeOK
  <2> QED
      BY <1>0, <1>00, <1>9, <2>3, <2>5, <2>6 DEF P!Arrive, P!TypeOK
<1>10. CASE P!Revoke
  <2>1. grant' \in [binding : Bindings \cup {NoBinding}, revision : Nat]
      BY <1>0, <1>10 DEF P!Revoke, P!TypeOK
  <2>2. policy' \in Nat /\ changes' \in 0..MaxChanges
      BY <1>0, <1>10 DEF P!Revoke, P!TypeOK
  <2> QED
      BY <1>0, <1>00, <1>10, <2>1, <2>2 DEF P!Revoke, P!TypeOK
<1>11. CASE P!Disturb
  <2>1. defined' \in [Runs -> Bindings \cup {NoBinding}]
    <3>1. CASE UNCHANGED defined
        BY <1>0, <3>1 DEF P!TypeOK
    <3>2. ASSUME NEW r \in Runs, NEW b \in Bindings \cup {NoBinding}, defined' = [defined EXCEPT ![r] = b]
          PROVE  defined' \in [Runs -> Bindings \cup {NoBinding}]
        BY <1>0, <3>2 DEF P!TypeOK
    <3> QED
        BY <1>11, <3>1, <3>2 DEF P!Disturb
  <2>5. enabled' \in BOOLEAN
    <3>1. CASE UNCHANGED enabled
        BY <1>0, <3>1 DEF P!TypeOK
    <3>2. CASE enabled' = ~enabled
        BY <3>2
    <3> QED
        BY <1>11, <3>1, <3>2 DEF P!Disturb
  <2>3. listening' \in [Runs -> BOOLEAN]
    <3>1. CASE UNCHANGED listening
        BY <1>0, <3>1 DEF P!TypeOK
    <3>2. ASSUME NEW r \in Runs, listening' = [listening EXCEPT ![r] = ~@] PROVE listening' \in [Runs -> BOOLEAN]
        BY <1>0, <3>2 DEF P!TypeOK
    <3> QED
        BY <1>11, <3>1, <3>2 DEF P!Disturb
  <2>4. alive' \in [Runs -> BOOLEAN]
    <3>1. CASE UNCHANGED alive
        BY <1>0, <3>1 DEF P!TypeOK
    <3>2. ASSUME NEW r \in Runs, alive' = [alive EXCEPT ![r] = FALSE] PROVE alive' \in [Runs -> BOOLEAN]
        BY <1>0, <3>2 DEF P!TypeOK
    <3> QED
        BY <1>11, <3>1, <3>2 DEF P!Disturb
  <2>2. changes' \in 0..MaxChanges
      BY <1>0, <1>11 DEF P!Disturb, P!TypeOK
  <2> QED
      BY <1>0, <1>11, <2>1, <2>2, <2>3, <2>4, <2>5 DEF P!Disturb, P!TypeOK
<1>12. CASE UNCHANGED P!vars
    BY <1>0, <1>12 DEF P!vars, P!TypeOK
<1> QED
    BY <1>1, <1>2, <1>3, <1>4, <1>5, <1>6, <1>7, <1>8, <1>9, <1>10, <1>11, <1>12 DEF P!Next

-----------------------------------------------------------------------------
(* The steps of a call *)

RunInv(r) == LookupIsFresh(r) /\ QuestionIsOwn(r) /\ Answer(r)

\* A step of one call that says nothing to the operator and hears nothing:
\* only that call's own invariant is to be shown.
LEMMA QuietStep ==
    ASSUME ApprovalsInv, P!TypeOK', NEW s \in Runs, UNCHANGED <<grant, policy, shown, answers>>,
           \A r \in Runs \ {s} : Same(r), RunInv(s)',
           \A e \in executed' \ executed :
              \/ e.by = "saved" /\ ~e.mandatory
              \/ e.by = "operator" /\ \E q \in shown : q.run = e.run /\ q.id = e.id /\ q.decision \in Accepting
    PROVE  ApprovalsInv'
<1>1. ASSUME NEW r \in Runs PROVE (LookupIsFresh(r) /\ QuestionIsOwn(r) /\ Answer(r))'
  <2>1. policy' \in Nat /\ policy <= policy'
      BY DEF ApprovalsInv, P!TypeOK
  <2>2. CASE r = s
      BY <2>2 DEF RunInv
  <2>3. CASE r # s
      BY <2>1, <2>3, OthersKeep
  <2> QED
      BY <2>2, <2>3
<1>2. AnswersAreSent'
    BY DEF ApprovalsInv, AnswersAreSent
<1>3. P!OperationsAreAuthorized'
    BY DEF ApprovalsInv, P!OperationsAreAuthorized, Accepting
<1> QED
    BY <1>1, <1>2, <1>3 DEF ApprovalsInv

LEMMA QuestionKeeps == ASSUME ApprovalsInv, P!TypeOK', NEW s \in Runs, P!Ask(s) PROVE ApprovalsInv'
<1>0. P!TypeOK /\ RunInv(s)
    BY DEF ApprovalsInv, RunInv
<1> DEFINE own(mandatory) == IF mandatory THEN NoBinding ELSE P!RequestedBinding(s)
<1>1. PICK mandatory \in BOOLEAN : call' = [call EXCEPT ![s] =
                  [P!NoCall EXCEPT !.stage = IF own(mandatory) = NoBinding THEN "looked" ELSE "looking",
                                 !.binding = own(mandatory), !.mandatory = mandatory, !.revision = policy]]
    BY DEF P!Ask
<1>2. /\ call'[s].stage \in {"looking", "looked"} /\ ~call'[s].found /\ call'[s].revision = policy /\ call'[s].by = "none"
      /\ call'[s].binding = NoBinding => call'[s].stage # "looking"
      /\ call'[s].mandatory => call'[s].binding = NoBinding
    BY <1>0, <1>1 DEF P!NoCall, P!TypeOK
<1>3. call[s].stage = "none" /\ calls'[s] = calls[s] + 1 /\ calls[s] \in Nat /\ pending' = pending
    BY <1>0 DEF P!Ask, P!NoCall, P!TypeOK
<1>4. pending[s] = P!NoPending /\ pending[s].id = 0 /\ pending[s].answer = "none"
    BY <1>0, <1>3 DEF RunInv, QuestionIsOwn, P!NoPending
<1>5. Questions(s)' = Questions(s)
    BY DEF P!Ask, Questions
<1>6. policy' = policy /\ policy \in Nat
    BY <1>0 DEF P!Ask, P!world, P!TypeOK
<1>7. LookupIsFresh(s)'
    BY <1>2, <1>6 DEF LookupIsFresh, P!Allowed
<1>8. \A q \in Questions(s) : q.id \in Nat /\ q.id <= calls[s]
    BY <1>0 DEF RunInv, QuestionIsOwn, Questions, P!TypeOK
<1>9. QuestionIsOwn(s)'
    BY <1>2, <1>3, <1>4, <1>5, <1>8 DEF QuestionIsOwn
<1>10. Answer(s)'
    BY <1>2, <1>3, <1>4 DEF Answer
<1>11. \A r \in Runs \ {s} : Same(r)
    BY <1>0, <1>1, <1>3 DEF Same, P!Ask, P!TypeOK
<1>12. UNCHANGED <<grant, policy, shown, answers, executed>>
    BY DEF P!Ask, P!world
<1> QED
    BY <1>7, <1>9, <1>10, <1>11, <1>12, QuietStep DEF RunInv

LEMMA LookUpKeeps == ASSUME ApprovalsInv, P!TypeOK', NEW s \in Runs, P!LookUp(s) PROVE ApprovalsInv'
<1>0. P!TypeOK /\ RunInv(s) /\ call[s].stage = "looking"
    BY DEF ApprovalsInv, RunInv, P!LookUp
<1>1. /\ call'[s].stage = "looked" /\ call'[s].found = (grant.binding = call[s].binding)
      /\ call'[s].binding = call[s].binding /\ call'[s].mandatory = call[s].mandatory
      /\ call'[s].revision = call[s].revision /\ call'[s].by = call[s].by
    BY <1>0 DEF P!LookUp, P!TypeOK
<1>2. UNCHANGED <<grant, policy, shown, answers, executed, pending, calls>>
    BY DEF P!LookUp, P!world
<1>3. LookupIsFresh(s)'
    BY <1>0, <1>1, <1>2 DEF RunInv, LookupIsFresh, P!Allowed
<1>4. QuestionIsOwn(s)'
    BY <1>0, <1>1, <1>2 DEF RunInv, QuestionIsOwn, Questions
<1>5. Answer(s)'
    BY <1>0, <1>1, <1>2 DEF RunInv, Answer, Questions
<1>6. \A r \in Runs \ {s} : Same(r)
    BY <1>0, <1>2 DEF Same, P!LookUp, P!TypeOK
<1> QED
    BY <1>2, <1>3, <1>4, <1>5, <1>6, QuietStep DEF RunInv


\* A run whose call is over, with its question closed.
LEMMA OverKeeps ==
    ASSUME P!TypeOK, NEW s \in Runs, RunInv(s), call'[s] = P!NoCall, pending'[s] = P!NoPending,
           UNCHANGED <<grant, policy, shown, calls>>
    PROVE  RunInv(s)'
<1>1. Questions(s)' = Questions(s)
    BY DEF Questions
<1>2. LookupIsFresh(s)'
    BY DEF LookupIsFresh, P!NoCall, P!Allowed, P!TypeOK
<1>3. QuestionIsOwn(s)'
    BY <1>1 DEF RunInv, QuestionIsOwn, P!NoCall, P!NoPending
<1>4. Answer(s)'
    BY <1>1 DEF Answer, P!NoCall, P!NoPending
<1> QED
    BY <1>2, <1>3, <1>4 DEF RunInv

LEMMA ResumeKeeps == ASSUME ApprovalsInv, P!TypeOK', NEW s \in Runs, P!Resume(s) PROVE ApprovalsInv'
<1>0. P!TypeOK /\ RunInv(s) /\ call[s].stage = "looked"
    BY DEF ApprovalsInv, RunInv, P!Resume
<1>1. UNCHANGED <<grant, policy, shown, answers, executed, pending, calls>>
    BY DEF P!Resume, P!world
<1>2. \A r \in Runs \ {s} : Same(r)
    BY <1>0, <1>1 DEF Same, P!Resume, P!Deny, P!TypeOK
<1>3. RunInv(s)'
  <2>1. CASE P!Deny(s)
    <3>1. call'[s] = P!NoCall /\ pending'[s] = P!NoPending
        BY <1>0, <1>1, <2>1 DEF P!Deny, P!TypeOK, RunInv, QuestionIsOwn
    <3> QED
        BY <1>0, <1>1, <3>1, OverKeeps
  <2>2. CASE P!Allowed(s) /\ call' = [call EXCEPT ![s].stage = "decided",
                                 ![s].by = IF grant.binding = call[s].binding THEN "saved" ELSE "stale"]
    <3>1. grant.binding = call[s].binding
        BY <1>0, <2>2 DEF RunInv, LookupIsFresh
    <3>2. /\ call'[s].stage = "decided" /\ call'[s].by = "saved" /\ call'[s].found = call[s].found
          /\ call'[s].binding = call[s].binding /\ call'[s].mandatory = call[s].mandatory
          /\ call'[s].revision = call[s].revision
        BY <1>0, <2>2, <3>1 DEF P!TypeOK
    <3>3. LookupIsFresh(s)'
        BY <1>0, <1>1, <3>2 DEF RunInv, LookupIsFresh
    <3>4. QuestionIsOwn(s)'
        BY <1>0, <1>1, <3>2 DEF RunInv, QuestionIsOwn, Questions
    <3>5. ~call[s].mandatory
        BY <1>0, <2>2 DEF RunInv, LookupIsFresh, P!Allowed
    <3>6. pending[s].answer # "yes"
        BY <1>0 DEF RunInv, QuestionIsOwn, P!NoPending
    <3>7. Answer(s)'
        BY <1>1, <3>2, <3>5, <3>6 DEF Answer
    <3> QED
        BY <3>3, <3>4, <3>7 DEF RunInv
  <2>3. CASE call' = [call EXCEPT ![s].stage = "asking"]
    <3>2. /\ call'[s].stage = "asking" /\ call'[s].by = call[s].by /\ call'[s].found = call[s].found
          /\ call'[s].binding = call[s].binding /\ call'[s].mandatory = call[s].mandatory
          /\ call'[s].revision = call[s].revision
        BY <1>0, <2>3 DEF P!TypeOK
    <3>3. LookupIsFresh(s)'
        BY <1>0, <1>1, <3>2 DEF RunInv, LookupIsFresh
    <3>4. QuestionIsOwn(s)'
        BY <1>0, <1>1, <3>2 DEF RunInv, QuestionIsOwn, Questions
    <3>7. Answer(s)'
        BY <1>0, <1>1, <3>2 DEF RunInv, Answer, Questions
    <3> QED
        BY <3>3, <3>4, <3>7 DEF RunInv
  <2> QED
      BY <2>1, <2>2, <2>3 DEF P!Resume
<1> QED
    BY <1>1, <1>2, <1>3, QuietStep

LEMMA CloseKeeps == ASSUME ApprovalsInv, P!TypeOK', NEW s \in Runs, P!Close(s) PROVE ApprovalsInv'
<1>0. P!TypeOK /\ RunInv(s) /\ call[s].stage = "closing"
    BY DEF ApprovalsInv, RunInv, P!Close
<1>1. UNCHANGED <<grant, policy, shown, answers, executed, calls>> /\ pending'[s] = P!NoPending
    BY <1>0 DEF P!Close, P!world, P!TypeOK
<1>2. \A r \in Runs \ {s} : Same(r)
    BY <1>0, <1>1 DEF Same, P!Close, P!Deny, P!TypeOK
<1>3. RunInv(s)'
  <2>1. CASE P!Deny(s)
    <3>1. call'[s] = P!NoCall
        BY <1>0, <2>1 DEF P!Deny, P!TypeOK
    <3> QED
        BY <1>0, <1>1, <3>1, OverKeeps
  <2>2. CASE call[s].by = "operator" /\ call' = [call EXCEPT ![s].stage = "decided"]
    <3>2. /\ call'[s].stage = "decided" /\ call'[s].by = "operator" /\ call'[s].found = call[s].found
          /\ call'[s].binding = call[s].binding /\ call'[s].mandatory = call[s].mandatory
          /\ call'[s].revision = call[s].revision
        BY <1>0, <2>2 DEF P!TypeOK
    <3>3. LookupIsFresh(s)'
        BY <1>0, <1>1, <3>2 DEF RunInv, LookupIsFresh
    <3>4. QuestionIsOwn(s)'
        BY <1>0, <1>1, <3>2 DEF RunInv, QuestionIsOwn, Questions, P!NoPending
    <3>7. Answer(s)'
        BY <1>0, <1>1, <2>2, <3>2 DEF RunInv, Answer, Questions, P!NoPending
    <3> QED
        BY <3>3, <3>4, <3>7 DEF RunInv
  <2> QED
      BY <2>1, <2>2 DEF P!Close
<1> QED
    BY <1>1, <1>2, <1>3, QuietStep

LEMMA ExecuteKeeps == ASSUME ApprovalsInv, P!TypeOK', NEW s \in Runs, P!Execute(s) PROVE ApprovalsInv'
<1>0. P!TypeOK /\ RunInv(s) /\ call[s].stage = "decided"
    BY DEF ApprovalsInv, RunInv, P!Execute
<1>1. UNCHANGED <<grant, policy, shown, answers, calls, pending>> /\ call'[s] = P!NoCall
    BY <1>0 DEF P!Execute, P!world, P!Deny, P!TypeOK
<1>2. \A r \in Runs \ {s} : Same(r)
    BY <1>0, <1>1 DEF Same, P!Execute, P!Deny, P!TypeOK
<1>3. \A e \in executed' \ executed :
              \/ e.by = "saved" /\ ~e.mandatory
              \/ e.by = "operator" /\ \E q \in shown : q.run = e.run /\ q.id = e.id /\ q.decision \in Accepting
    BY <1>0 DEF P!Execute, RunInv, Answer, Questions
<1>4. pending'[s] = P!NoPending
    BY <1>0, <1>1 DEF RunInv, QuestionIsOwn
<1>5. RunInv(s)'
    BY <1>0, <1>1, <1>4, OverKeeps
<1> QED
    BY <1>1, <1>2, <1>3, <1>5, QuietStep

LEMMA AnsweredKeeps == ASSUME ApprovalsInv, P!TypeOK', NEW s \in Runs, P!Answered(s) PROVE ApprovalsInv'
<1>0. P!TypeOK /\ RunInv(s) /\ call[s].stage = "waiting"
    BY DEF ApprovalsInv, RunInv, P!Answered
<1>1. UNCHANGED <<grant, policy, shown, answers, executed, calls>>
    BY DEF P!Answered, P!world
<1>2. /\ call'[s].stage = "closing" /\ call'[s].found = call[s].found
      /\ call'[s].binding = call[s].binding /\ call'[s].mandatory = call[s].mandatory
      /\ call'[s].revision = call[s].revision
    BY <1>0 DEF P!Answered, P!TypeOK
<1>3. call'[s].by = "operator" => pending[s].answer = "yes"
    BY <1>0 DEF P!Answered, RunInv, Answer, P!TypeOK
<1>4. /\ pending'[s].id = pending[s].id /\ pending'[s].binding = pending[s].binding
      /\ pending'[s].answer = (IF pending[s].answer = "open" THEN "no" ELSE pending[s].answer)
    BY <1>0 DEF P!Answered, P!TypeOK
<1>5. \A r \in Runs \ {s} : Same(r)
    BY <1>0, <1>1 DEF Same, P!Answered, P!TypeOK
<1>6. LookupIsFresh(s)'
    BY <1>0, <1>1, <1>2 DEF RunInv, LookupIsFresh
<1>7. QuestionIsOwn(s)'
    BY <1>0, <1>1, <1>2, <1>4 DEF RunInv, QuestionIsOwn, Questions
<1>8. Answer(s)'
    BY <1>0, <1>1, <1>2, <1>3, <1>4 DEF RunInv, Answer, Questions
<1> QED
    BY <1>1, <1>5, <1>6, <1>7, <1>8, QuietStep DEF RunInv

-----------------------------------------------------------------------------
(* What the operator is shown and answers *)

\* More questions, and answers to open ones, take no answer back.
LEMMA ShownGrows ==
    ASSUME P!OperationsAreAuthorized, AnswersAreSent, answers' \subseteq answers, UNCHANGED <<grant, executed>>,
           \A q \in shown : q.decision # "none" => q \in shown',
           \A a \in answers : a.decision # "none"
    PROVE  P!OperationsAreAuthorized' /\ AnswersAreSent'
<1>1. P!OperationsAreAuthorized'
    BY DEF P!OperationsAreAuthorized
<1>2. AnswersAreSent'
    BY DEF AnswersAreSent
<1> QED
    BY <1>1, <1>2

LEMMA PutKeeps == ASSUME ApprovalsInv, P!TypeOK', NEW s \in Runs, P!Put(s) PROVE ApprovalsInv'
<1>0. P!TypeOK /\ RunInv(s) /\ call[s].stage = "asking"
    BY DEF ApprovalsInv, RunInv, P!Put
<1>1. UNCHANGED <<grant, policy, answers, executed, calls>>
    BY DEF P!Put, P!world
<1>2. \A r \in Runs \ {s} : Same(r)
    BY <1>0, <1>1 DEF Same, P!Put, P!Deny, P!TypeOK
<1>3. CASE P!Deny(s) /\ UNCHANGED <<pending, shown>>
  <2>1. call'[s] = P!NoCall /\ pending'[s] = P!NoPending
      BY <1>0, <1>3 DEF P!Deny, P!TypeOK, RunInv, QuestionIsOwn
  <2>2. RunInv(s)'
      BY <1>0, <1>1, <1>3, <2>1, OverKeeps
  <2> QED
      BY <1>1, <1>2, <1>3, <2>2, QuietStep
<1>4. CASE ~(P!Deny(s) /\ UNCHANGED <<pending, shown>>)
  <2> DEFINE n == [run |-> s, id |-> calls[s], binding |-> call[s].binding, decision |-> "none"]
  <2>1. /\ shown' = shown \cup {n}
        /\ pending'[s] = [id |-> calls[s], answer |-> "open", binding |-> call[s].binding]
      BY <1>0, <1>4 DEF P!Put, P!TypeOK
  <2>2. /\ call'[s].stage = "waiting" /\ call'[s].by = call[s].by /\ call'[s].found = call[s].found
        /\ call'[s].binding = call[s].binding /\ call'[s].mandatory = call[s].mandatory
        /\ call'[s].revision = call[s].revision
      BY <1>0, <1>4 DEF P!Put, P!TypeOK
  <2>3. n.run = s /\ n.id = calls[s] /\ n.binding = call[s].binding
      OBVIOUS
  <2> HIDE DEF n
  <2>4. Questions(s)' = Questions(s) \cup {n}
      BY <2>1, <2>3 DEF Questions
  <2>5. \A r \in Runs \ {s} : Questions(r)' = Questions(r)
      BY <2>1, <2>3 DEF Questions
  <2>6. calls[s] \in Nat
      BY <1>0 DEF P!TypeOK
  <2>7. LookupIsFresh(s)'
      BY <1>0, <1>1, <2>2 DEF RunInv, LookupIsFresh
  <2>8. QuestionIsOwn(s)'
      BY <1>0, <1>1, <2>1, <2>2, <2>3, <2>4, <2>6 DEF RunInv, QuestionIsOwn
  <2>9. Answer(s)'
      BY <1>0, <1>1, <2>1, <2>2, <2>4 DEF RunInv, Answer
  <2>10. ASSUME NEW r \in Runs PROVE RunInv(r)'
    <3>1. CASE r = s
        BY <2>7, <2>8, <2>9, <3>1 DEF RunInv
    <3>2. CASE r # s
      <4>1. RunInv(r) /\ Same(r) /\ Questions(r)' = Questions(r)
          BY <1>2, <2>5, <3>2 DEF ApprovalsInv, RunInv
      <4> QED
          BY <1>1, <4>1 DEF RunInv, LookupIsFresh, P!Allowed, QuestionIsOwn, Answer, Same
    <3> QED
        BY <3>1, <3>2
  <2>11. P!OperationsAreAuthorized' /\ AnswersAreSent'
      BY <1>0, <1>1, <2>1, ShownGrows DEF ApprovalsInv, P!TypeOK, P!Decision
  <2> QED
      BY <2>10, <2>11 DEF ApprovalsInv, RunInv
<1> QED
    BY <1>3, <1>4

LEMMA SendKeeps == ASSUME ApprovalsInv, P!TypeOK', NEW s \in Runs, P!Send(s) PROVE ApprovalsInv'
<1>0. P!TypeOK
    BY DEF ApprovalsInv
<1>1. UNCHANGED <<grant, policy, call, pending, calls, executed>>
    BY DEF P!Send, P!world
<1>2. PICK q \in shown, d \in P!Decision :
          /\ q.run = s /\ q.decision = "none"
          /\ shown' = (shown \ {q}) \cup {[q EXCEPT !.decision = d]}
          /\ answers' = answers \cup {[run |-> s, id |-> q.id, decision |-> d]}
    BY DEF P!Send
<1> DEFINE n == [q EXCEPT !.decision = d]
           a == [run |-> s, id |-> q.id, decision |-> d]
<1>3. n.run = q.run /\ n.id = q.id /\ n.binding = q.binding /\ n.decision = d
    BY <1>0 DEF P!TypeOK
<1>4. a.run = s /\ a.id = q.id /\ a.decision = d
    OBVIOUS
<1> HIDE DEF n, a
<1>5. shown' = (shown \ {q}) \cup {n} /\ answers' = answers \cup {a}
    BY <1>2 DEF n, a
<1>6. ASSUME NEW r \in Runs PROVE RunInv(r)'
  <2>1. RunInv(r)
      BY DEF ApprovalsInv, RunInv
  <2>2. \A x \in Questions(r)' : \E y \in Questions(r) : y.id = x.id /\ y.binding = x.binding
      BY <1>2, <1>3, <1>5 DEF Questions
  <2>3. \A y \in Questions(r) : y.decision \in Accepting => y \in Questions(r)'
      BY <1>2, <1>5 DEF Questions, Accepting
  <2>4. LookupIsFresh(r)'
      BY <1>1, <2>1 DEF RunInv, LookupIsFresh, P!Allowed
  <2>5. QuestionIsOwn(r)'
      BY <1>1, <2>1, <2>2 DEF RunInv, QuestionIsOwn
  <2>6. Answer(r)'
      BY <1>1, <2>1, <2>3 DEF RunInv, Answer
  <2> QED
      BY <2>4, <2>5, <2>6 DEF RunInv
<1>7. AnswersAreSent'
  <2>1. \A b \in answers : b.decision # "none"
      BY <1>0 DEF P!TypeOK, P!Decision
  <2>2. \A b \in answers : b.run \in Runs /\ \E y \in shown' : y.run = b.run /\ y.id = b.id /\ y.decision = b.decision
      BY <1>2, <1>5, <2>1 DEF ApprovalsInv, AnswersAreSent
  <2>3. a.run \in Runs /\ n.run = a.run /\ n.id = a.id /\ n.decision = a.decision
      BY <1>2, <1>3, <1>4
  <2> QED
      BY <1>5, <2>2, <2>3 DEF AnswersAreSent
<1>8. P!OperationsAreAuthorized'
    BY <1>1, <1>2, <1>5 DEF ApprovalsInv, P!OperationsAreAuthorized
<1> QED
    BY <1>6, <1>7, <1>8 DEF ApprovalsInv, RunInv

\* An answer that changes no permission: it closes a question, or nothing.
LEMMA AnswerCloses ==
    ASSUME ApprovalsInv, P!TypeOK', NEW a \in answers, UNCHANGED <<grant, policy, call, calls, shown, executed>>,
           answers' = answers \ {a}, NEW reply \in {"yes", "no"},
           reply = "yes" => a.decision \in Accepting,
           P!Live(a), pending' = [pending EXCEPT ![a.run].answer = reply]
    PROVE  ApprovalsInv'
<1> DEFINE s == a.run
<1>0. P!TypeOK /\ s \in Runs
    BY DEF ApprovalsInv, P!TypeOK
<1>1. RunInv(s) /\ pending[s].id = a.id /\ pending[s].answer = "open"
    BY <1>0 DEF ApprovalsInv, RunInv, P!Live
<1>2. pending'[s].id = pending[s].id /\ pending'[s].binding = pending[s].binding /\ pending'[s].answer = reply
    BY <1>0 DEF P!TypeOK
<1>3. \A r \in Runs \ {s} : pending'[r] = pending[r]
    BY <1>0 DEF P!TypeOK
<1>4. pending[s].id = calls[s] /\ pending[s].id # 0
    BY <1>1 DEF RunInv, QuestionIsOwn
<1>5. PICK q \in shown : q.run = s /\ q.id = a.id /\ q.decision = a.decision
    BY DEF ApprovalsInv, AnswersAreSent
<1> HIDE DEF s
<1>6. ASSUME NEW r \in Runs PROVE RunInv(r)'
  <2>1. RunInv(r)
      BY DEF ApprovalsInv, RunInv
  <2>2. Questions(r)' = Questions(r)
      BY DEF Questions
  <2>3. LookupIsFresh(r)'
      BY <2>1 DEF RunInv, LookupIsFresh, P!Allowed
  <2>4. CASE r = s
    <3>1. QuestionIsOwn(r)'
        BY <1>1, <1>2, <1>4, <2>1, <2>2, <2>4 DEF RunInv, QuestionIsOwn, P!NoPending
    <3>2. reply = "yes" => \E x \in Questions(r) : x.id = calls[r] /\ x.decision \in Accepting
        BY <1>1, <1>4, <1>5, <2>4 DEF Questions
    <3>3. Answer(r)'
        BY <1>2, <2>1, <2>2, <2>4, <3>2 DEF RunInv, Answer
    <3> QED
        BY <2>3, <3>1, <3>3 DEF RunInv
  <2>5. CASE r # s
    <3>1. QuestionIsOwn(r)'
        BY <1>3, <2>1, <2>2, <2>5 DEF RunInv, QuestionIsOwn
    <3>2. Answer(r)'
        BY <1>3, <2>1, <2>2, <2>5 DEF RunInv, Answer
    <3> QED
        BY <2>3, <3>1, <3>2 DEF RunInv
  <2> QED
      BY <2>4, <2>5
<1>7. AnswersAreSent' /\ P!OperationsAreAuthorized'
    BY DEF ApprovalsInv, AnswersAreSent, P!OperationsAreAuthorized
<1> QED
    BY <1>6, <1>7 DEF ApprovalsInv, RunInv

\* A permission is saved for the definition the operator was shown; a lookup
\* that began before is void.
LEMMA GrantKeeps ==
    ASSUME ApprovalsInv, P!TypeOK', NEW a \in answers, UNCHANGED <<call, calls, shown, executed>>,
           answers' = answers \ {a}, P!Live(a), a.decision = "allow_tool",
           P!Granted(pending[a.run].binding), pending' = [pending EXCEPT ![a.run].answer = "yes"]
    PROVE  ApprovalsInv'
<1> DEFINE s == a.run
<1>0. P!TypeOK /\ s \in Runs
    BY DEF ApprovalsInv, P!TypeOK
<1>1. RunInv(s) /\ pending[s].id = a.id /\ pending[s].answer = "open"
    BY <1>0 DEF ApprovalsInv, RunInv, P!Live
<1>2. pending'[s].id = pending[s].id /\ pending'[s].binding = pending[s].binding /\ pending'[s].answer = "yes"
    BY <1>0 DEF P!TypeOK
<1>3. \A r \in Runs \ {s} : pending'[r] = pending[r]
    BY <1>0 DEF P!TypeOK
<1>4. pending[s].id = calls[s] /\ pending[s].id # 0
    BY <1>1 DEF RunInv, QuestionIsOwn
<1>5. PICK q \in shown : q.run = s /\ q.id = a.id /\ q.decision = a.decision
    BY DEF ApprovalsInv, AnswersAreSent
<1>6. policy' = policy + 1 /\ policy \in Nat /\ grant'.binding = pending[s].binding
    BY <1>0 DEF P!Granted, P!TypeOK
<1> HIDE DEF s
<1>7. ASSUME NEW r \in Runs PROVE RunInv(r)'
  <2>1. RunInv(r) /\ call[r].revision \in Nat
      BY <1>0 DEF ApprovalsInv, RunInv, P!TypeOK
  <2>2. Questions(r)' = Questions(r)
      BY DEF Questions
  <2>3. LookupIsFresh(r)'
      BY <1>6, <2>1 DEF RunInv, LookupIsFresh, P!Allowed
  <2>4. CASE r = s
    <3>1. QuestionIsOwn(r)'
        BY <1>1, <1>2, <1>4, <2>1, <2>2, <2>4 DEF RunInv, QuestionIsOwn, P!NoPending
    <3>2. \E x \in Questions(r) : x.id = calls[r] /\ x.decision \in Accepting
        BY <1>1, <1>4, <1>5, <2>4 DEF Questions, Accepting
    <3>3. Answer(r)'
        BY <1>2, <2>1, <2>2, <2>4, <3>2 DEF RunInv, Answer
    <3> QED
        BY <2>3, <3>1, <3>3 DEF RunInv
  <2>5. CASE r # s
    <3>1. QuestionIsOwn(r)'
        BY <1>3, <2>1, <2>2, <2>5 DEF RunInv, QuestionIsOwn
    <3>2. Answer(r)'
        BY <1>3, <2>1, <2>2, <2>5 DEF RunInv, Answer
    <3> QED
        BY <2>3, <3>1, <3>2 DEF RunInv
  <2> QED
      BY <2>4, <2>5
<1>8. AnswersAreSent'
    BY DEF ApprovalsInv, AnswersAreSent
<1>9. P!OperationsAreAuthorized'
  <2>1. q \in Questions(s) /\ q.id = pending[s].id
      BY <1>1, <1>5 DEF Questions
  <2>2. q.binding = pending[s].binding
      BY <1>1, <1>4, <2>1 DEF RunInv, QuestionIsOwn
  <2> QED
      BY <1>5, <1>6, <2>2 DEF ApprovalsInv, P!OperationsAreAuthorized
<1> QED
    BY <1>7, <1>8, <1>9 DEF ApprovalsInv, RunInv

LEMMA ArriveKeeps == ASSUME ApprovalsInv, P!TypeOK', NEW a \in answers, P!Arrive(a) PROVE ApprovalsInv'
<1>0. P!TypeOK /\ a.run \in Runs
    BY DEF ApprovalsInv, P!TypeOK
<1>1. UNCHANGED <<call, calls, shown, executed>> /\ answers' = answers \ {a}
    BY DEF P!Arrive
<1>2. CASE UNCHANGED <<grant, policy, pending>>
  <2>1. AnswersAreSent' /\ P!OperationsAreAuthorized'
      BY <1>1, <1>2 DEF ApprovalsInv, AnswersAreSent, P!OperationsAreAuthorized
  <2>2. ASSUME NEW r \in Runs PROVE (LookupIsFresh(r) /\ QuestionIsOwn(r) /\ Answer(r))'
    <3>1. policy' \in Nat /\ policy <= policy'
        BY <1>0, <1>2 DEF P!TypeOK
    <3> QED
        BY <1>1, <1>2, <3>1, OthersKeep DEF Same
  <2> QED
      BY <2>1, <2>2 DEF ApprovalsInv
<1>3. ASSUME P!Live(a), NEW reply \in {"yes", "no"}, reply = "yes" => a.decision \in Accepting,
             pending' = [pending EXCEPT ![a.run].answer = reply], UNCHANGED <<grant, policy>>
      PROVE  ApprovalsInv'
    BY <1>1, <1>3, AnswerCloses
<1>4. ASSUME P!Live(a), a.decision = "allow_tool", P!Granted(pending[a.run].binding),
             pending' = [pending EXCEPT ![a.run].answer = "yes"]
      PROVE  ApprovalsInv'
    BY <1>1, <1>4, GrantKeeps
<1>5. CASE P!Live(a) /\ ~listening[a.run] /\ a.decision # "deny" /\ UNCHANGED <<grant, policy>>
           /\ pending' = [pending EXCEPT ![a.run].answer = "no"]
    BY <1>3, <1>5
<1>6. CASE P!Live(a) /\ a.decision # "allow_tool" /\ UNCHANGED <<grant, policy>>
           /\ pending' = [pending EXCEPT ![a.run].answer = IF a.decision = "allow" THEN "yes" ELSE "no"]
  <2>1. CASE a.decision = "allow"
      BY <1>3, <1>6, <2>1 DEF Accepting
  <2>2. CASE a.decision # "allow"
      BY <1>3, <1>6, <2>2
  <2> QED
      BY <2>1, <2>2
<1> QED
    BY <1>2, <1>4, <1>5, <1>6 DEF P!Arrive

-----------------------------------------------------------------------------
(* The world around the calls *)

LEMMA RevokeKeeps == ASSUME ApprovalsInv, P!TypeOK', P!Revoke PROVE ApprovalsInv'
<1>1. UNCHANGED <<call, pending, answers, calls, shown, executed>> /\ policy' = policy + 1
      /\ policy \in Nat /\ grant'.binding = NoBinding
    BY DEF P!Revoke, ApprovalsInv, P!TypeOK
<1>2. ASSUME NEW r \in Runs PROVE (LookupIsFresh(r) /\ QuestionIsOwn(r) /\ Answer(r))'
  <2>1. policy' \in Nat /\ policy <= policy' /\ policy' # policy
      BY <1>1
  <2> QED
      BY <1>1, <2>1, OthersKeep DEF Same
<1>3. AnswersAreSent' /\ P!OperationsAreAuthorized'
    BY <1>1 DEF ApprovalsInv, AnswersAreSent, P!OperationsAreAuthorized
<1> QED
    BY <1>2, <1>3 DEF ApprovalsInv

LEMMA WorldMoves ==
    ASSUME ApprovalsInv, P!TypeOK', UNCHANGED <<grant, policy, call, pending, answers, calls, shown, executed>>
    PROVE  ApprovalsInv'
<1>1. policy' \in Nat /\ policy <= policy'
    BY DEF ApprovalsInv, P!TypeOK
<1>2. ASSUME NEW r \in Runs PROVE (LookupIsFresh(r) /\ QuestionIsOwn(r) /\ Answer(r))'
    BY <1>1, OthersKeep DEF Same
<1>3. AnswersAreSent' /\ P!OperationsAreAuthorized'
    BY DEF ApprovalsInv, AnswersAreSent, P!OperationsAreAuthorized
<1> QED
    BY <1>2, <1>3 DEF ApprovalsInv

-----------------------------------------------------------------------------

LEMMA InitApprovalsInv == ASSUME P!ApprovalsAssumption, P!Init PROVE ApprovalsInv
<1>1. P!TypeOK
  <2>1. call \in [Runs -> CallType] /\ pending \in [Runs -> PendingType]
      BY EmptyTypes DEF P!Init
  <2>2. defined \in [Runs -> Bindings \cup {NoBinding}]
      BY DEF P!Init
  <2> QED
      BY <2>1, <2>2 DEF P!Init, P!TypeOK, CallType, PendingType, P!ApprovalsAssumption
<1>2. ASSUME NEW r \in Runs PROVE RunInv(r)
  <2>1. call[r] = P!NoCall /\ pending[r] = P!NoPending /\ calls[r] = 0 /\ Questions(r) = {} /\ policy = 0
      BY DEF P!Init, Questions
  <2>2. LookupIsFresh(r)
      BY <2>1 DEF LookupIsFresh, P!NoCall
  <2>3. QuestionIsOwn(r)
      BY <2>1 DEF QuestionIsOwn, P!NoCall, P!NoPending
  <2>4. Answer(r)
      BY <2>1 DEF Answer, P!NoCall, P!NoPending
  <2> QED
      BY <2>2, <2>3, <2>4 DEF RunInv
<1>3. AnswersAreSent /\ P!OperationsAreAuthorized
    BY DEF P!Init, AnswersAreSent, P!OperationsAreAuthorized
<1> QED
    BY <1>1, <1>2, <1>3 DEF ApprovalsInv, RunInv

LEMMA NextApprovalsInv == ASSUME P!ApprovalsAssumption, ApprovalsInv, [P!Next]_(P!vars) PROVE ApprovalsInv'
<1>0. P!TypeOK'
    BY ApprovalsTyped
<1>1. CASE \E r \in Runs : P!Ask(r) \/ P!LookUp(r) \/ P!Resume(r) \/ P!Put(r) \/ P!Answered(r) \/ P!Close(r) \/ P!Execute(r) \/ P!Send(r)
    BY <1>0, <1>1, QuestionKeeps, LookUpKeeps, ResumeKeeps, PutKeeps, AnsweredKeeps, CloseKeeps, ExecuteKeeps, SendKeeps
<1>2. CASE \E a \in answers : P!Arrive(a)
    BY <1>0, <1>2, ArriveKeeps
<1>3. CASE P!Revoke
    BY <1>0, <1>3, RevokeKeeps
<1>4. CASE P!Disturb
    BY <1>0, <1>4, WorldMoves DEF P!Disturb
<1>5. CASE UNCHANGED P!vars
    BY <1>0, <1>5, WorldMoves DEF P!vars
<1> QED
    BY <1>1, <1>2, <1>3, <1>4, <1>5 DEF P!Next

(* No operation of a tool is executed without the operator's consent: for   *)
(* any runs and definitions, whatever is revoked, replaced, stopped or      *)
(* answered late while a permission is looked up or a question is open.     *)
THEOREM Authorized ==
    ASSUME P!ApprovalsAssumption
    PROVE  P!Spec => []OperationsAreAuthorized
<1>1. P!Init => ApprovalsInv
    BY InitApprovalsInv
<1>2. ApprovalsInv /\ [P!Next]_(P!vars) => ApprovalsInv'
    BY NextApprovalsInv
<1>3. ApprovalsInv => OperationsAreAuthorized
    BY DEF ApprovalsInv, P!OperationsAreAuthorized, OperationsAreAuthorized
<1> QED
    BY <1>1, <1>2, <1>3, PTL DEF P!Spec
=============================================================================
