------------------------------ MODULE EventBus ------------------------------
(***************************************************************************)
(* The event bus of the web service (web/execution/subscriptions.py), one  *)
(* connection to it, and the browser that follows a session through that   *)
(* connection (web-ui/src/api/subscription.ts).                            *)
(*                                                                         *)
(* The bus numbers what it publishes and keeps a bounded ring of it.  A    *)
(* subscription is answered by a hydration, a task that reads a snapshot   *)
(* of the session over several awaits and then puts either the frames the  *)
(* browser has missed or the snapshot into the bounded queue of the        *)
(* connection.  The browser counts on one thing: it knows everything its   *)
(* position stands for.                                                    *)
(*                                                                         *)
(* Published data is reduced to its kind and whom it addresses, a snapshot *)
(* to the number of events it reflects.  A connection that its browser has left   *)
(* has no effect on anybody, so there is one connection at a time.         *)
(***************************************************************************)
EXTENDS Integers, SequencesExt

CONSTANTS Sessions,
          Selected,       \* the session that the browser shows at first
          NoSession,      \* Subscriber.session_id = ""
          Global,         \* a frame without session_id: for every subscriber
          MaxReplay,      \* frames in the ring
          MaxQueue,       \* frames in the queue of a connection
          MaxHydrations,  \* hydration tasks of a connection
          MaxCursor,      \* bound: what is published within one epoch
          MaxFaults       \* bound: restarts, failures, timeouts and switches

ASSUME BusAssumption ==
    /\ Selected \in Sessions
    /\ NoSession \notin Sessions /\ Global \notin Sessions \cup {NoSession}
    /\ MaxReplay \in Nat /\ MaxQueue \in Nat \ {0} /\ MaxHydrations \in Nat \ {0}
    /\ MaxCursor \in Nat /\ MaxFaults \in Nat

VARIABLES epoch,      \* EventBus.epoch
          log,        \* what this epoch published; its length is EventBus.cursor
          ring,       \* cursors of the frames that can be replayed
          discarded,  \* EventBus.discarded
          base,       \* events of each session in former epochs
          exists,     \* sessions that are not deleted
          sub,        \* the Subscriber of the connection
          queue,      \* Subscriber.queue
          sending,    \* the frame in socket.send_text
          hyds,       \* hydration tasks
          verified,   \* history: the session whose membership was last verified
          left,       \* history: sessions that the client left on this connection
          up,         \* messages of the browser that are still to be received
          client,     \* the browser: "closed", "open" or "stopped"
          want,       \* options.sessionId
          pos,        \* position of the subscription
          kept,       \* LiveTranscript.position of each session's transcript
          awaiting,   \* awaitingSnapshot
          timer,      \* cancelHydration is set
          seen,       \* events that each transcript shows
          faults

busvars == <<epoch, log, ring, discarded, base, exists>>
connvars == <<sub, queue, sending, hyds, verified, left, up>>
clientvars == <<client, want, pos, kept, awaiting, timer, seen>>
vars == <<busvars, connvars, clientvars, faults>>

cursor == Len(log)

NoSub == [session |-> NoSession, ready |-> FALSE, hydrating |-> FALSE, code |-> 0]
NoPos == [cursor |-> 0, epoch |-> 0]
NoFrame == [type |-> "none"]

Logged(type, to) == [type |-> type, to |-> to]

Init ==
    /\ epoch = 1 /\ log = <<>> /\ ring = {} /\ discarded = 0
    /\ base = [s \in Sessions |-> 0] /\ exists = Sessions
    /\ sub = NoSub /\ queue = <<>> /\ sending = NoFrame /\ hyds = <<>>
    /\ verified = NoSession /\ left = {} /\ up = <<>>
    /\ client = "closed" /\ want = Selected /\ pos = NoPos
    /\ kept = [s \in Sessions |-> NoPos] /\ seen = [s \in Sessions |-> 0]
    /\ awaiting = FALSE /\ timer = FALSE
    /\ faults = 0

\* Events of session s up to cursor n of this epoch, and all of them.
Upto(s, n) == base[s] + Cardinality({i \in 1..n : log[i] = Logged("event", s)})
Made(s) == Upto(s, cursor)

\* What the bus publishes as number n.
Frame(entry, n) ==
    [type |-> entry.type, to |-> entry.to, cursor |-> n, epoch |-> epoch,
     events |-> IF entry.type = "snapshot" THEN Upto(entry.to, n - 1) ELSE 0]

Fault == faults < MaxFaults /\ faults' = faults + 1

-----------------------------------------------------------------------------
(* Subscriber *)

\* Hydrations of a former generation.
Outdated == [i \in DOMAIN hyds |-> [hyds[i] EXCEPT !.current = FALSE]]

\* revoke: generation + 1, nothing subscribed, nothing queued; the marker that
\* wakes the sender is the code itself.  Later codes do not replace the first.
Close(code) ==
    /\ sub' = [NoSub EXCEPT !.code = IF sub.code = 0 THEN code ELSE sub.code]
    /\ queue' = <<>>
    /\ hyds' = Outdated

\* Mutant: a frame that does not fit is skipped.
OfferOrSkip(f) ==
    /\ queue' = IF Len(queue) < MaxQueue THEN Append(queue, f) ELSE queue
    /\ UNCHANGED <<sub, hyds>>

\* offer, outside of a hydration: a slow subscriber is cut off.
Offer(f) ==
    IF Len(queue) >= MaxQueue
    THEN Close(1013)
    ELSE queue' = Append(queue, f) /\ UNCHANGED <<sub, hyds>>

-----------------------------------------------------------------------------
(* EventBus *)

\* The ring gives up its oldest frames and notes the last that it gave up.  (Its
\* limit of bytes works the same way and is left out.)
Keep(held) ==
    /\ ring' = {i \in held : Cardinality({j \in held : j > i}) < MaxReplay}
    /\ discarded' = IF ring' = held THEN discarded ELSE Max(held \ ring')

\* publish.
Publish(type, to) ==
    /\ cursor < MaxCursor
    /\ log' = Append(log, Logged(type, to))
    /\ Keep(ring \cup {cursor + 1})
    /\ IF sub.ready /\ to \in {sub.session, Global} THEN Offer(Frame(Logged(type, to), cursor + 1))
       ELSE UNCHANGED <<sub, queue, hyds>>
    /\ UNCHANGED <<epoch, base, exists, sending, verified, left, up, clientvars, faults>>

\* Mutant: only the connections are told of a deletion.
DeleteQuietly(s) ==
    /\ cursor < MaxCursor
    /\ exists' = exists \ {s}
    /\ IF sub.session = s THEN Close(1008) ELSE UNCHANGED <<sub, queue, hyds>>
    /\ UNCHANGED <<epoch, log, ring, discarded, base, sending, verified, left, up, clientvars, faults>>

\* delete_session, after the rows of the session are gone.
DeleteSession(s) ==
    /\ cursor < MaxCursor
    /\ exists' = exists \ {s}
    /\ IF sub.session = s THEN Close(1008) ELSE UNCHANGED <<sub, queue, hyds>>
    /\ log' = Append(log, Logged("deleted", s))
    /\ ring' = {i \in ring : log[i].to \notin {s, Global} /\ log[i].type # "snapshot"}
    /\ discarded' = cursor + 1
    /\ UNCHANGED <<epoch, base, sending, verified, left, up, clientvars, faults>>

-----------------------------------------------------------------------------
(* One connection: serve *)

\* The connection is gone, with its queue and its hydrations.
Disconnected ==
    /\ sub' = NoSub /\ queue' = <<>> /\ sending' = NoFrame /\ hyds' = <<>>
    /\ verified' = NoSession /\ left' = {}

Hydration(m) ==
    [session |-> m.session, after |-> m.after, epoch |-> m.epoch,
     pc |-> "begin", cut |-> 0, got |-> 0, current |-> TRUE]

\* receive takes the next message.  A subscription that is still live for the
\* same session keeps its eligibility; any other is over at once.  (A message that
\* is received while the connection closes would start nothing that counts.)
Receive ==
    /\ client = "open" /\ up # <<>> /\ sub.code = 0
    /\ up' = Tail(up)
    /\ LET m == Head(up)
           same == m.type = "subscribe" /\ m.session = sub.session
                   /\ (sub.ready \/ sub.hydrating)
       IN \/ /\ m.type = "unsubscribe"
             /\ IF m.session # sub.session
                THEN Close(1008)
                ELSE sub' = NoSub /\ queue' = <<>> /\ hyds' = Outdated
          \/ /\ m.type = "subscribe"
             /\ IF Len(hyds) >= MaxHydrations
                THEN Close(1013)
                ELSE /\ sub' = [NoSub EXCEPT !.session = m.session, !.hydrating = same]
                     /\ queue' = <<>>
                     /\ hyds' = Append(Outdated, Hydration(m))
    /\ UNCHANGED <<busvars, sending, verified, left, clientvars, faults>>

\* checkpoint notes the cursor and begins to read.
BeginRead(i) ==
    /\ hyds[i].current /\ hyds[i].pc = "begin"
    /\ hyds' = [hyds EXCEPT ![i].pc = "reading", ![i].cut = cursor]
    /\ UNCHANGED <<busvars, sub, queue, sending, verified, left, up, clientvars, faults>>

\* The state of the session is read, at some moment of the snapshot callback.
Read(i) ==
    /\ hyds[i].current /\ hyds[i].pc = "reading" /\ hyds[i].session \in exists
    /\ hyds' = [hyds EXCEPT ![i].pc = "read", ![i].got = Made(hyds[i].session)]
    /\ UNCHANGED <<busvars, sub, queue, sending, verified, left, up, clientvars, faults>>

\* The current hydration fails and closes the connection.
Fails(i, code) ==
    /\ hyds[i].current
    /\ sub' = [NoSub EXCEPT !.code = code] /\ queue' = <<>>
    /\ hyds' = RemoveAt(Outdated, i)
    /\ UNCHANGED <<busvars, sending, verified, left, up, clientvars>>

\* The session does not exist (404).
NotFound(i) ==
    /\ hyds[i].pc = "reading" /\ hyds[i].session \notin exists
    /\ Fails(i, 1008)
    /\ UNCHANGED faults

\* The read fails or is not done in time.
ReadFails(i) == Fails(i, 1013) /\ Fault

\* Mutant: the cut is not compared.
StableAnyway(h) == TRUE

\* The cut holds when nothing was published since.
Stable(h) == h.cut = cursor

ReadAgain(i) ==
    /\ hyds[i].current /\ hyds[i].pc = "read" /\ ~Stable(hyds[i])
    /\ hyds' = [hyds EXCEPT ![i].pc = "begin", ![i].cut = 0, ![i].got = 0]
    /\ UNCHANGED <<busvars, sub, queue, sending, verified, left, up, clientvars, faults>>

\* A hydration of a former generation ends, cancelled or with a late result.  (That
\* it may read on until then shows nowhere.)
Outlived(i) ==
    /\ ~hyds[i].current
    /\ hyds' = RemoveAt(hyds, i)
    /\ UNCHANGED <<busvars, sub, queue, sending, verified, left, up, clientvars, faults>>

\* The frames that the browser has missed, in order.
Missed(h) == {i \in ring : i > h.after /\ log[i].to \in {h.session, Global}}
Replay(h) ==
    {[k \in DOMAIN q |-> Frame(log[q[k]], q[k])] :
        q \in {c \in [1..Cardinality(Missed(h)) -> Missed(h)] : \A j, k \in DOMAIN c : j < k => c[j] < c[k]}}

Snapshot(h) == [type |-> "snapshot", to |-> h.session, cursor |-> h.cut, epoch |-> epoch,
                events |-> h.got]

\* The ring reaches back to the position, and its frames fit into the queue.
Replayable(h) ==
    /\ h.epoch = epoch
    /\ discarded <= h.after /\ h.after <= h.cut
    /\ Cardinality(Missed(h)) <= MaxQueue

\* Between the checkpoint, the queueing and the activation nothing is awaited.
Hydrate(i) ==
    /\ hyds[i].pc = "read" /\ Stable(hyds[i]) /\ hyds[i].current
    /\ queue' \in IF Replayable(hyds[i]) THEN Replay(hyds[i]) ELSE {<<Snapshot(hyds[i])>>}
    /\ sub' = [sub EXCEPT !.ready = TRUE, !.hydrating = FALSE]
    /\ verified' = hyds[i].session
    /\ hyds' = RemoveAt(hyds, i)
    /\ UNCHANGED <<busvars, sending, left, up, clientvars, faults>>

Send ==
    /\ sending = NoFrame /\ queue # <<>>
    /\ sending' = Head(queue) /\ queue' = Tail(queue)
    /\ UNCHANGED <<busvars, sub, hyds, verified, left, up, clientvars, faults>>

\* The peer does not read: the send times out.
SendFails ==
    /\ sending # NoFrame /\ Fault
    /\ sending' = NoFrame
    /\ Close(1013)
    /\ UNCHANGED <<busvars, verified, left, up, clientvars>>

-----------------------------------------------------------------------------
(* The browser: subscribeEvents *)

Subscribe(s, p) == [type |-> "subscribe", session |-> s, after |-> p.cursor, epoch |-> p.epoch]
Unsubscribe(s) == [type |-> "unsubscribe", session |-> s, after |-> 0, epoch |-> 0]

\* reconnect; new credentials (another token) void the position.
Connect ==
    /\ client = "closed"
    /\ pos' \in {pos, NoPos}
    /\ client' = "open" /\ timer' = TRUE
    /\ up' = <<Subscribe(want, pos')>>
    /\ UNCHANGED <<busvars, sub, queue, sending, hyds, verified, left, want, kept, awaiting, seen, faults>>

\* No frame of the session for a while: ask for a snapshot.
TimerFires ==
    /\ client = "open" /\ timer
    /\ timer' = FALSE /\ awaiting' = TRUE
    /\ up' = Append(up, Subscribe(want, NoPos))
    /\ UNCHANGED <<busvars, sub, queue, sending, hyds, verified, left, client, want, pos, kept, seen, faults>>

\* Another session is selected.  The browser leaves its connection for another and
\* goes on where that session's transcript stands.
Switch(s) ==
    /\ s # want /\ Fault
    /\ want' = s /\ pos' = kept[s] /\ awaiting' = FALSE
    /\ client' = "closed" /\ Disconnected /\ up' = <<>> /\ timer' = FALSE
    /\ UNCHANGED <<busvars, kept, seen>>

\* Clients of the protocol other than the browser may switch on their connection,
\* with or without an unsubscription first; none goes back to a session it left.
Move(s) ==
    /\ client = "open" /\ s # want /\ s \notin left /\ Fault
    /\ want' = s /\ pos' = NoPos /\ awaiting' = FALSE /\ timer' = TRUE
    /\ \E first \in {<<>>, <<Unsubscribe(want)>>} :
          up' = up \o Append(first, Subscribe(s, NoPos))
    /\ left' = left \cup {want}
    /\ UNCHANGED <<busvars, sub, queue, sending, hyds, verified, client, kept, seen>>

Scoped(f) == f.to # Global

\* Of another session, or a catalog, which cannot stand in for the first snapshot.
Foreign(f) == IF Scoped(f) THEN f.to # want ELSE pos = NoPos

\* The position says nothing about this frame.
Unplaced(f) == f.type # "snapshot" /\ (pos = NoPos \/ pos.epoch # f.epoch)

Known(f) ==
    /\ pos # NoPos /\ pos.epoch = f.epoch
    /\ f.cursor <= pos.cursor
    /\ f.cursor = pos.cursor => ~(f.type = "snapshot" /\ awaiting)

\* applyFrame: what the transcript itself does not take.
Refused(f) ==
    IF kept[want].epoch = f.epoch
    THEN f.cursor < kept[want].cursor \/ (f.type = "event" /\ f.cursor = kept[want].cursor)
    ELSE f.type = "event" /\ kept[want] # NoPos

Show(f) ==
    IF ~Scoped(f) \/ Refused(f)
    THEN UNCHANGED <<kept, seen>>
    ELSE /\ kept' = [kept EXCEPT ![want] = [cursor |-> f.cursor, epoch |-> f.epoch]]
         /\ seen' = [seen EXCEPT ![want] = IF f.type = "snapshot" THEN f.events ELSE @ + 1]

\* Some events (a finished run, a local delivery) make the browser ask for a snapshot.
Apply(f) ==
    /\ Show(f)
    /\ pos' = [cursor |-> f.cursor, epoch |-> f.epoch]
    /\ timer' = (timer /\ ~Scoped(f))
    /\ \/ awaiting' = (awaiting /\ ~Scoped(f)) /\ UNCHANGED up
       \/ /\ f.type = "event"
          /\ awaiting' = TRUE /\ up' = Append(up, Subscribe(want, NoPos))

\* A frame arrives (onmessage).
Arrive ==
    /\ client = "open" /\ sending # NoFrame
    /\ LET f == sending IN
       \/ /\ ~Foreign(f) /\ Unplaced(f)
          /\ Disconnected /\ up' = <<>>
          /\ client' = "closed" /\ pos' = NoPos /\ timer' = FALSE
          /\ UNCHANGED <<want, kept, awaiting, seen>>
       \/ /\ Foreign(f) \/ ~Unplaced(f)
          /\ sending' = NoFrame
          /\ IF Foreign(f) \/ Known(f)
             THEN UNCHANGED <<pos, kept, seen, timer, awaiting, up>>
             ELSE Apply(f)
          /\ UNCHANGED <<sub, queue, hyds, verified, left, client, want>>
    /\ UNCHANGED <<busvars, faults>>

\* The server closes: with 1008 the session is unavailable, else try again.
Closed ==
    /\ client = "open" /\ sub.code # 0
    /\ client' = IF sub.code = 1008 THEN "stopped" ELSE "closed"
    /\ Disconnected /\ up' = <<>> /\ timer' = FALSE
    /\ UNCHANGED <<busvars, want, pos, kept, awaiting, seen, faults>>

\* The connection breaks, or the handshake times out.
Break ==
    /\ client = "open" /\ Fault
    /\ client' = "closed" /\ Disconnected /\ up' = <<>> /\ timer' = FALSE
    /\ UNCHANGED <<busvars, want, pos, kept, awaiting, seen>>

\* The process restarts: a new epoch; the sessions are durable.
Restart ==
    /\ Fault
    /\ epoch' = epoch + 1 /\ log' = <<>> /\ ring' = {} /\ discarded' = 0
    /\ base' = [s \in Sessions |-> Made(s)]
    /\ client' = IF client = "stopped" THEN "stopped" ELSE "closed"
    /\ Disconnected /\ up' = <<>> /\ timer' = FALSE
    /\ UNCHANGED <<exists, want, pos, kept, awaiting, seen>>

-----------------------------------------------------------------------------

Serve ==
    \/ Receive \/ Send
    \/ \E i \in DOMAIN hyds :
        \/ BeginRead(i) \/ Read(i) \/ NotFound(i) \/ ReadAgain(i) \/ Outlived(i) \/ Hydrate(i)

Follow == Connect \/ TimerFires \/ Arrive \/ Closed

Next ==
    \/ Serve \/ Follow
    \/ Publish("catalog", Global)
    \/ \E s \in exists : Publish("event", s) \/ Publish("snapshot", s) \/ DeleteSession(s)
    \/ \E i \in DOMAIN hyds : ReadFails(i)
    \/ \E s \in Sessions : Switch(s) \/ Move(s)
    \/ SendFails \/ Break \/ Restart

Spec == Init /\ [][Next]_vars

\* The tasks of the connection and the handlers of the browser go on.
Fairness ==
    /\ WF_vars(Receive) /\ WF_vars(Send) /\ WF_vars(Follow)
    /\ WF_vars(\E i \in DOMAIN hyds : BeginRead(i) \/ Read(i) \/ NotFound(i) \/ ReadAgain(i)
                                       \/ Outlived(i) \/ Hydrate(i))

FairSpec == Spec /\ Fairness

-----------------------------------------------------------------------------
(* Properties *)

\* What the browser shows is exactly what its position, and that of each transcript
\* it keeps, stand for: no event was missed and none was shown twice, through queues
\* that overflow, rings that forget, late hydrations, switches and reconnects ("A
\* gap or restart requests a fresh snapshot").
PositionHonest ==
    /\ pos.epoch = epoch => pos.cursor <= cursor /\ seen[want] = Upto(want, pos.cursor)
    /\ \A s \in Sessions :
          /\ kept[s].epoch = epoch => seen[s] = Upto(s, kept[s].cursor)
          /\ seen[s] <= Made(s)

\* A connection is eligible for a session (it gets its events, and may decide its
\* approvals) only while its membership was verified for that subscription, and
\* nothing of another session is in its queue: late hydrations publish nothing.
OnlyWhatIsSubscribed ==
    /\ (sub.ready \/ sub.hydrating) => sub.code = 0 /\ verified = sub.session
    /\ \A k \in DOMAIN queue : queue[k].to \in {sub.session, Global}

\* Of a deleted session nothing can be sent any more: it is not in the ring, not
\* queued and nobody is subscribed; and no catalog or snapshot (which lists the
\* sessions too) from before a deletion is kept for a replay.
DeletedIsPrivate ==
    /\ (sub.ready \/ sub.hydrating) => sub.session \in exists
    /\ \A i \in ring :
          /\ log[i].to \in exists \cup {Global}
          /\ log[i].type # "event" => \A j \in i..cursor : log[j].type # "deleted"
    /\ \A k \in DOMAIN queue : queue[k].to \in exists \cup {Global}

\* Nothing of another session, or of a deleted one, can reach the connection.
NothingForeign == OnlyWhatIsSubscribed /\ DeletedIsPrivate

\* When no more events come and no more faults occur, the browser shows every
\* event of its session, or was told that a session it had followed is gone.
CatchesUp ==
    <>[](\/ client = "stopped" /\ exists # Sessions
         \/ pos # NoPos /\ seen[want] = Made(want))
=============================================================================
