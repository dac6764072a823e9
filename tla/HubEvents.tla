------------------------------- MODULE HubEvents -------------------------------
(***************************************************************************)
(* The EVENT plane of the hub: the queue every session has for the events  *)
(* of all its channels (channel/event_channel.hpp), the log and its replay *)
(* ring (channel/log_channel.hpp), and Hub::publishEvent, pumpEventDrain,  *)
(* replayEventsOnGrant and publishLog, with every handler that grants or   *)
(* takes back a channel, opens or shuts the readiness gate, takes away or  *)
(* gives back a link, or emits an event itself.                            *)
(*                                                                         *)
(* An event is its number, in the order the hub made them, and its         *)
(* channel; bodies are left out.  A slot and the identity in it are one    *)
(* session s; HubSessions says which slot an identity gets.                *)
(*                                                                         *)
(* An event handed to the link counts as sent whether or not the link took *)
(* it: pumpEventDrain does not look at the result.                         *)
(***************************************************************************)
EXTENDS Naturals, Sequences, FiniteSets, FiniteSetsExt, SequencesExt

CONSTANTS
    Sessions,        \* the sessions that can hold a slot
    Log,             \* channel 0x0008, the one with a replay ring
    SessionEvents,   \* 0x0007
    PairingEvents,   \* 0x000B
    SafetyEvents,    \* 0x000E
    UserEvents,      \* the EVENT channels of the application
    Catalog,         \* the EVENT channels this hub's catalog declares
    QueueDepth,      \* event_queue_depth_per_subscriber
    RingDepth,       \* log_replay_depth_default, the size of _logRing
    ReplayDepth,     \* the replay_depth the catalog declares for the log
    MaxEvents,       \* bound: events made
    MaxDropped       \* bound: what one session's drop counter reaches

Fixed    == {Log, SessionEvents, PairingEvents, SafetyEvents}
Channels == Fixed \cup UserEvents

ASSUME EventConstants ==
    /\ UserEvents \cap Fixed = {}
    /\ Catalog \subseteq Channels
    /\ {QueueDepth, RingDepth} \subseteq Nat \ {0}
    /\ {ReplayDepth, MaxEvents, MaxDropped} \subseteq Nat

VARIABLES
    sess,    \* [Sessions -> Session]
    made,    \* history: the number of events made
    ring     \* _logRing: the numbers of the newest log lines, oldest first

eventVars == <<sess, made, ring>>

Event == [ch : Channels, n : 1 .. MaxEvents]

(* HubSession as far as events see it, and its link.  Three fields are     *)
(* history: `owed' is what the session's grants cover and was not handed   *)
(* to the link yet, `last' the number of the last event handed to it that  *)
(* is not a replayed one, and `inOrder' whether each of these had a larger *)
(* number than the one before.                                             *)
Session ==
    [state : {"FREE", "LIVE", "STALE"}, linked : BOOLEAN, ready : BOOLEAN,
     subs : SUBSET Channels, queue : Seq(Event), dropped : Nat,
     owed : SUBSET Event, last : 0 .. MaxEvents, inOrder : BOOLEAN]

NoSession ==
    [state |-> "FREE", linked |-> FALSE, ready |-> FALSE, subs |-> {},
     queue |-> << >>, dropped |-> 0, owed |-> {}, last |-> 0,
     inOrder |-> TRUE]

(* What the handlers pass on between two of their steps *)
Now        == [sess |-> sess, made |-> made]
Becomes(h) == sess' = h.sess /\ made' = h.made

EventInit ==
    /\ sess = [s \in Sessions |-> NoSession]
    /\ made = 0
    /\ ring = << >>

------------------------------------------------------------------------------
(* The queue and the ring *)

(* How many members of q do not fit into k places, and the newest k *)
Excess(q, k) == IF Len(q) > k THEN Len(q) - k ELSE 0
Newest(q, k) == SubSeq(q, Excess(q, k) + 1, Len(q))

(* EventQueue::push of these events, one after the other: a full queue     *)
(* drops its oldest event, and counts it                                   *)
PushEvents(p, es) ==
    LET all == p.queue \o es
    IN  [p EXCEPT !.queue = Newest(all, QueueDepth),
                  !.dropped = @ + Excess(all, QueueDepth),
                  !.owed = @ \cup ToSet(es)]

(* EventReplayRing::push *)
RingPush(r, n) == Newest(Append(r, n), RingDepth)

(* replayEventsOnGrant with forEachNewest: what a grant of these channels  *)
(* puts into the session's queue is the tail of the ring, oldest first     *)
Replay(chs) ==
    LET tail == Newest(ring, ReplayDepth)
    IN  [i \in 1 .. (IF Log \in chs THEN Len(tail) ELSE 0) |->
            [ch |-> Log, n |-> tail[i]]]

(* EventQueue::pop until the queue q is empty: the places of what goes to  *)
(* the link.  An event whose grant has gone is skipped.                    *)
Popped(p, q) == {i \in DOMAIN q : q[i].ch \in p.subs}

(* sendFrameTo of each of them, in the order of the queue *)
Handed(p, q) ==
    LET sent    == Popped(p, q)
        ordered == {i \in sent : q[i].ch # Log}
    IN  [p EXCEPT
           !.queue = << >>,
           !.owed = @ \ {q[i] : i \in sent},
           !.last = IF ordered = {} THEN @ ELSE q[Max(ordered)].n,
           !.inOrder = /\ @
                       /\ \A i \in ordered : p.last < q[i].n
                       /\ \A i, j \in ordered : i < j => q[i].n < q[j].n]

(* Mutant: a session that is not ready loses what waits for it *)
Drained_ungated(p) ==
    IF ~p.linked THEN p
    ELSE IF p.ready THEN Handed(p, p.queue) ELSE [p EXCEPT !.queue = << >>]

(* Mutant: the newest event leaves the queue first *)
Drained_lifo(p) ==
    IF p.ready /\ p.linked THEN Handed(p, Reverse(p.queue)) ELSE p

(* pumpEventDrain: nothing moves before the session is ready and has a     *)
(* link; then the queue empties, oldest first                              *)
Drained(p) == IF p.ready /\ p.linked THEN Handed(p, p.queue) ELSE p

------------------------------------------------------------------------------
(* Publication.  h is the hub between two steps of a handler. *)

(* anySubscribed: STALE and parked sessions count *)
AnySubscribed(h, ch) == \E s \in Sessions : ch \in h.sess[s].subs

(* publishEvent: into the queue of every subscriber, then every queue that *)
(* may is drained                                                          *)
PublishEvent(h, ch) ==
    LET e == [ch |-> ch, n |-> h.made + 1]
        pushed == [s \in Sessions |-> IF ch \in h.sess[s].subs
                                      THEN PushEvents(h.sess[s], <<e>>)
                                      ELSE h.sess[s]]
    IN  [sess |-> IF AnySubscribed(h, ch)
                  THEN [s \in Sessions |-> Drained(pushed[s])] ELSE pushed,
         made |-> h.made + 1]

(* An event with no subscriber leaves no trace *)
Emit(h, ch) == IF AnySubscribed(h, ch) THEN PublishEvent(h, ch) ELSE h

(* emitSessionEvent(kind, session_id) *)
EmitSessionEvent(h) == Emit(h, SessionEvents)

(* emitTakeoverEvent, out of handleIntent or handleStream *)
EmitTakeoverEvent == Becomes(EmitSessionEvent(Now)) /\ UNCHANGED ring

(* emitPairingEvent *)
EmitPairingEvent == Becomes(Emit(Now, PairingEvents)) /\ UNCHANGED ring

(* emitSafetyEdgeEvents: an event for each latch that moved, and two move  *)
(* in one step at most                                                     *)
EmitSafetyEdgeEvents ==
    LET once == Emit(Now, SafetyEvents)
    IN  /\ Becomes(once) \/ Becomes(Emit(once, SafetyEvents))
        /\ UNCHANGED ring

(* Hub::publishEvent, called by the application for a channel of its own *)
PublishUserEvent(ch) == Becomes(Emit(Now, ch)) /\ UNCHANGED ring

(* publishLog: the ring first, subscribers or not *)
PublishLog ==
    /\ ring' = RingPush(ring, made + 1)
    /\ Becomes(PublishEvent(Now, Log))

------------------------------------------------------------------------------
(* Sessions and their grants *)

(* SubscriptionTable::upsert of each wish, with its replay *)
GrantedSubs(p, chs) == PushEvents([p EXCEPT !.subs = @ \cup chs], Replay(chs))

(* dropSubscription: what is queued stays queued *)
Without(p, chs) ==
    [p EXCEPT !.subs = @ \ chs, !.owed = {e \in @ : e.ch \notin chs}]

(* handleHello with these wishes on a slot that is free, or whose session  *)
(* it replaces.  The session is ready if the catalog etag matched.         *)
Hello(s, wishes, matched) ==
    /\ sess[s].state \in {"FREE", "LIVE"}
    /\ sess' = [sess EXCEPT ![s] =
         GrantedSubs([NoSession EXCEPT !.state = "LIVE", !.linked = TRUE,
                                       !.ready = matched],
                     wishes)]
    /\ UNCHANGED <<made, ring>>

(* A handler runs on a LIVE session: reviveIfStale comes before it *)
Heard(s) == sess[s].state = "LIVE" /\ sess[s].linked

(* handleSubscribe: a channel that is granted already is granted, and      *)
(* replayed, again                                                         *)
Subscribe(s, ch) ==
    /\ Heard(s)
    /\ sess' = [sess EXCEPT ![s] = GrantedSubs(@, {ch})]
    /\ UNCHANGED <<made, ring>>

(* handleUnsubscribe *)
Unsubscribe(s, ch) ==
    /\ Heard(s)
    /\ sess' = [sess EXCEPT ![s] = Without(@, {ch})]
    /\ UNCHANGED <<made, ring>>

(* handleCatalogReady *)
CatalogReady(s) ==
    /\ Heard(s)
    /\ sess' = [sess EXCEPT ![s].ready = TRUE]
    /\ UNCHANGED <<made, ring>>

(* catalogChanged.  The channels whose entry changed or vanished are       *)
(* withdrawn from every session; if one of them is fixed, every session    *)
(* waits for its CATALOG_READY again.                                      *)
CatalogChanged(withdrawn) ==
    /\ sess' = [s \in Sessions |->
         [Without(sess[s], withdrawn) EXCEPT
            !.ready = @ /\ withdrawn \subseteq UserEvents]]
    /\ UNCHANGED <<made, ring>>

(* pumpEventDrain in update() *)
Drain(s) ==
    /\ sess[s].queue # << >>
    /\ sess' = [sess EXCEPT ![s] = Drained(@)]
    /\ UNCHANGED <<made, ring>>

------------------------------------------------------------------------------
(* Silence, loss and return *)

(* markStale: the session hears of its own staleness like any other *)
Staled(h, s) == EmitSessionEvent([h EXCEPT !.sess[s].state = "STALE"])

(* pumpDeadman and pumpIdleReap *)
MarkStale(s) ==
    /\ Heard(s)
    /\ Becomes(Staled(Now, s))
    /\ UNCHANGED ring

(* parkAndDetach, out of detachTransport or a critical stall: stale first, *)
(* with the link still there, then the link goes                           *)
ParkAndDetach(s) ==
    LET h == IF sess[s].state = "LIVE" THEN Staled(Now, s) ELSE Now
    IN  /\ sess[s].linked
        /\ Becomes([h EXCEPT !.sess[s].linked = FALSE])
        /\ UNCHANGED ring

(* reviveIfStale: any frame on the link the session still has *)
ReviveIfStale(s) ==
    /\ sess[s].state = "STALE" /\ sess[s].linked
    /\ Becomes(EmitSessionEvent([Now EXCEPT !.sess[s].state = "LIVE"]))
    /\ UNCHANGED ring

(* handleReattach: the session moves to a new link with its queue.  The    *)
(* tripwire comes first, so its event drains the queue under the readiness *)
(* of before; then a mismatched etag shuts the gate, and the session       *)
(* resumes unless the WELCOME cannot be written.                           *)
HandleReattach(s, matched, tripped, welcomed) ==
    LET moved   == [Now EXCEPT !.sess[s].linked = TRUE]
        watched == IF tripped THEN Emit(moved, PairingEvents) ELSE moved
        gated   == [watched EXCEPT !.sess[s].ready = @ /\ matched]
    IN  /\ sess[s].state = "STALE"
        /\ Becomes(IF welcomed
                   THEN EmitSessionEvent([gated EXCEPT !.sess[s].state = "LIVE"])
                   ELSE gated)
        /\ UNCHANGED ring

(* teardownSession, by GOODBYE, eviction, timeout or a duplicate *)
Teardown(s) ==
    /\ sess[s].state # "FREE"
    /\ sess' = [sess EXCEPT ![s] = NoSession]
    /\ UNCHANGED <<made, ring>>

------------------------------------------------------------------------------
(* The bounds are on the step, whatever takes it *)
Bounded ==
    /\ made' <= MaxEvents
    /\ \A s \in Sessions : sess'[s].dropped <= MaxDropped

EventNext ==
    /\ \/ EmitTakeoverEvent \/ EmitPairingEvent \/ EmitSafetyEdgeEvents
       \/ PublishLog
       \/ \E ch \in UserEvents : PublishUserEvent(ch)
       \/ \E s \in Sessions :
            \/ \E wishes \in SUBSET Catalog, m \in BOOLEAN : Hello(s, wishes, m)
            \/ \E ch \in Catalog : Subscribe(s, ch) \/ Unsubscribe(s, ch)
            \/ CatalogReady(s) \/ Drain(s)
            \/ MarkStale(s) \/ ParkAndDetach(s) \/ ReviveIfStale(s)
            \/ \E m, t, w \in BOOLEAN : HandleReattach(s, m, t, w)
            \/ Teardown(s)
       \/ \E ws \in (SUBSET Catalog) \ {{}} : CatalogChanged(ws)
    /\ Bounded

EventSpec == EventInit /\ [][EventNext]_eventVars

------------------------------------------------------------------------------
(* The values the variables take; a queue and the ring stay within depth.  *)
EventTypeOK ==
    /\ sess \in [Sessions -> Session]
    /\ \A s \in Sessions : Len(sess[s].queue) <= QueueDepth
    /\ made \in 0 .. MaxEvents
    /\ ring \in Seq(1 .. MaxEvents) /\ Len(ring) <= RingDepth

(* SPEC 9.4, EventQueue and pumpEventDrain: whatever the grants, the gate  *)
(* and the links do in between, and although publishEvent drains every     *)
(* session out of every handler, a session is handed the events of all its *)
(* channels in the order the hub made them, and none of them twice (log    *)
(* lines, which are replayed, aside).                                      *)
EventsInOrder == \A s \in Sessions : sess[s].inOrder

(* SPEC 9.4, "visible, never silent": of everything made on a channel      *)
(* since it was granted, and of the log's replay, what was not handed to   *)
(* the link and is not waiting is accounted for in eventsDropped().  Being *)
(* silent, parked, moved to another link or not yet ready loses nothing    *)
(* that is not counted.                                                    *)
NeverSilent ==
    \A s \in Sessions :
        Cardinality(sess[s].owed \ ToSet(sess[s].queue)) <= sess[s].dropped
=============================================================================
