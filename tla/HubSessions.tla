----------------------------- MODULE HubSessions -----------------------------
(***************************************************************************)
(* The session layer of the Valence hub (hub/hub_impl.hpp): the fixed      *)
(* array of slots, each a transport and at most one session, and what a    *)
(* session holds on lease: motion sources (session/safety.hpp) and trial   *)
(* writes.  Sessions are opened by HELLO, go STALE on silence, on a lost   *)
(* transport or on a stalled link, resume on any frame or on a HELLO from  *)
(* a new transport, and end through teardownSession.                       *)
(*                                                                         *)
(* The hub is single-threaded: update() walks the slots in order, drains   *)
(* the frames each transport has delivered, then runs the three timers on  *)
(* that slot.  `cursor' is the slot update() is at, 0 between two calls;   *)
(* the application's own calls happen at cursor 0.  Frames come in any     *)
(* number and any order: the network decides.                              *)
(***************************************************************************)
EXTENDS Naturals, FiniteSets, FiniteSetsExt

CONSTANTS
    MaxSessions,      \* kHubMaxSessions
    Instances,        \* client instance ids
    Sids,             \* session ids the generator can hand out
    NoSid,            \* "0": no session
    NoInst,           \* the instance id of a slot that holds no session
    Sources,          \* motion sources (SourceOwnershipTable)
    SourceAccess,     \* the access level a source's intents require
    TrialKeys,        \* settings that can be written on trial
    Tokens,           \* the roles a token or an approval can prove
    Bindings,         \* the bindings transports come on
    Congestion,       \* what setCongestionLevel reports: is it level >= 2?
    DeadmanWindows,   \* deadman windows HELLO's wish can be clamped to
    IdleReapMs,       \* idle_reap_multiplier * ping_interval_idle_ms
    ReadyTimeoutMs,   \* catalog_ready_timeout_ms
    StallEvictMs,     \* never_shed_stall_eviction_ms
    MaxStep,          \* bound: the longest gap between two update() calls
    MaxNow,           \* bound: the clock stops here
    MaxEtag           \* bound: number of catalog changes

Watch     == 0
Control   == 1
Configure == 2
Roles     == Watch .. Configure

Slots == 1 .. (MaxSessions + 1)     \* kSlotCapacity
NoStall == MaxNow + 1               \* criticalStalling = false

ASSUME SessionConstants ==
    /\ MaxSessions \in Nat \ {0}
    /\ NoSid \notin Sids
    /\ NoInst \notin Instances
    /\ SourceAccess \in Roles
    /\ Tokens \subseteq Roles
    /\ Bindings \subseteq {"net", "cable"}
    /\ Congestion \subseteq BOOLEAN
    /\ DeadmanWindows \subseteq Nat
    /\ IdleReapMs \in Nat /\ ReadyTimeoutMs \in Nat \ {0} /\ StallEvictMs \in Nat
    /\ MaxStep \in Nat /\ MaxNow \in Nat /\ MaxEtag \in Nat

VARIABLES
    now,      \* _lastUpdateMs
    cursor,   \* the slot update() is pumping, 0 outside update()
    etag,     \* _etag, as the number of the catalog it is the hash of
    port,     \* [Slots -> Port]: the transport side of each Slot
    sess,     \* [Slots -> Session]: Slot::session
    owner,    \* [Sources -> session id]: SourceOwnershipTable, the owners
    ownerRole,\* [Sources -> Roles]: and the role recorded at acquisition
    trial     \* [TrialKeys -> session id]: who holds the trial on a key

vars == <<now, cursor, etag, port, sess, owner, ownerRole, trial>>

States == {"FREE", "VALIDATING", "LIVE", "STALE"}
Links  == {"none", "net", "cable"}

(* What Slot keeps of the link.  "cable" is a serial or in-process binding. *)
Port == [link : Links, congested : BOOLEAN, stall : 0 .. NoStall]

(* HubSession.  parkedAt is a history field: when a STALE session went     *)
(* STALE, while staleSince is the field the code itself keeps.             *)
Session ==
    [state : States, id : Sids \cup {NoSid}, inst : Instances \cup {NoInst},
     role : Roles, deadman : DeadmanWindows \cup {0},
     matched : BOOLEAN, ready : BOOLEAN, readyEtag : 0 .. MaxEtag,
     mismatch : BOOLEAN, grantedAt : 0 .. MaxNow, lastRx : 0 .. MaxNow,
     staleSince : 0 .. MaxNow, parkedAt : 0 .. MaxNow]

(* HubSession::reset() *)
NoSession ==
    [state |-> "FREE", id |-> NoSid, inst |-> NoInst, role |-> Watch,
     deadman |-> 0, matched |-> FALSE, ready |-> FALSE, readyEtag |-> 0,
     mismatch |-> FALSE, grantedAt |-> 0, lastRx |-> 0,
     staleSince |-> 0, parkedAt |-> 0]

NoPort == [link |-> "none", congested |-> FALSE, stall |-> NoStall]

Occupied == {s \in Slots : sess[s].state # "FREE"}
Attached == {s \in Slots : port[s].link # "none"}
UsedIds  == {sess[s].id : s \in Occupied}
Owns(s)  == \E x \in Sources : owner[x] = sess[s].id

(* timeReached(now, t) *)
Reached(t) == now >= t

------------------------------------------------------------------------------
(* Leases: what ends with the session, whichever door it leaves by *)

(* Mutant: the release is forgotten *)
OwnersWithout_leak(own, ids) == own

(* SourceOwnershipTable::releaseAllOf for every id in ids *)
OwnersWithout(own, ids) ==
    [x \in Sources |-> IF own[x] \in ids THEN NoSid ELSE own[x]]

RolesWithout(own, roles, ids) ==
    [x \in Sources |-> IF own[x] \in ids THEN Watch ELSE roles[x]]

(* endSessionTrials for every id in ids *)
TrialsWithout(tr, ids) ==
    [k \in TrialKeys |-> IF tr[k] \in ids THEN NoSid ELSE tr[k]]

(* releaseSessionSources + endSessionTrials of the sessions in slots S *)
EndLeases(S) ==
    LET ids == {sess[s].id : s \in S \cap Occupied}
    IN  /\ owner'     = OwnersWithout(owner, ids)
        /\ ownerRole' = RolesWithout(owner, ownerRole, ids)
        /\ trial'     = TrialsWithout(trial, ids)

(* Mutant: a deadline is kept where the code keeps the moment *)
MarkedStale_deadline(e) ==
    [e EXCEPT !.state = "STALE", !.staleSince = now + IdleReapMs, !.parkedAt = now]

(* The session a slot holds after markStale *)
MarkedStale(e) ==
    [e EXCEPT !.state = "STALE", !.staleSince = now, !.parkedAt = now]

(* Mutant: the transport goes, the session stays as it was *)
Parked_untouched(e) == e

(* parkAndDetach marks stale only a session that is not STALE already *)
Parked(e) == IF e.state \in {"FREE", "STALE"} THEN e ELSE MarkedStale(e)

(* reviveIfStale; the READY_TIMEOUT window restarts if not ready *)
Revived(e) ==
    IF e.state # "STALE" THEN e
    ELSE [e EXCEPT !.state = "LIVE", !.staleSince = 0, !.parkedAt = 0,
                   !.grantedAt = IF e.ready THEN @ ELSE now]

(* What pumpSlot does for every frame before it dispatches it *)
Touched(e) ==
    IF e.state = "FREE" THEN e ELSE Revived([e EXCEPT !.lastRx = now])

------------------------------------------------------------------------------
(* trackCriticalSend: the stall clock of a congested link.  ans is the     *)
(* fate of the frame the handler answers with: "ok", "fail", or "none"     *)
(* when it sends nothing on the never-shed plane.                          *)
Answers == {"none", "ok", "fail"}

StallExpired(s, ans) ==
    /\ ans = "fail"
    /\ port[s].congested
    /\ port[s].stall # NoStall
    /\ Reached(port[s].stall + StallEvictMs)

PortAfterSend(s, ans) ==
    CASE ans = "none" \/ port[s].link = "none" -> port[s]
      [] StallExpired(s, ans)                 -> NoPort
      [] ans = "ok" \/ ~port[s].congested     -> [port[s] EXCEPT !.stall = NoStall]
      [] OTHER -> [port[s] EXCEPT !.stall = IF @ = NoStall THEN now ELSE @]

(* A frame handler that leaves the session of slot s as e and answers: a   *)
(* stalled link parks the session, which ends its leases as own, roles, tr *)
(* have them by then.                                                      *)
Settle(s, e, own, roles, tr, ans) ==
    LET lost == IF StallExpired(s, ans) THEN {e.id} \ {NoSid} ELSE {}
    IN  /\ port' = [port EXCEPT ![s] = PortAfterSend(s, ans)]
        /\ sess' = [sess EXCEPT ![s] = IF StallExpired(s, ans) THEN Parked(e) ELSE e]
        /\ owner'     = OwnersWithout(own, lost)
        /\ ownerRole' = RolesWithout(own, roles, lost)
        /\ trial'     = TrialsWithout(tr, lost)

------------------------------------------------------------------------------
(* Transports *)

(* Mutant: the STALE test is dropped *)
EvictableStale_any(cands) ==
    {a \in cands \cap Occupied : \A b \in cands \cap Occupied :
        sess[a].role < sess[b].role \/ (sess[a].role = sess[b].role /\ a <= b)}

(* findEvictableStale over the STALE slots of cands: lowest role, then     *)
(* oldest staleSince, then lowest index.                                   *)
EvictableStale(cands) ==
    LET before(a, b) ==
            \/ sess[a].role < sess[b].role
            \/ /\ sess[a].role = sess[b].role
               /\ \/ sess[a].staleSince < sess[b].staleSince
                  \/ sess[a].staleSince = sess[b].staleSince /\ a <= b
        stale == {s \in cands : sess[s].state = "STALE"}
    IN  {a \in stale : \A b \in stale : before(a, b)}

(* attachTransport: the first slot with neither transport nor session,     *)
(* else the slot of a STALE session, which ends even if open() then fails. *)
AttachTransport ==
    /\ cursor = 0
    /\ \E kind \in Bindings, opens \in BOOLEAN :
         LET empty  == {s \in Slots : s \notin Attached /\ s \notin Occupied}
             victim == EvictableStale(Slots)
             link   == IF opens THEN kind ELSE "none"
         IN  \/ \E s \in empty :
                  /\ \A r \in empty : s <= r
                  /\ port' = [port EXCEPT ![s].link = link]
                  /\ UNCHANGED <<sess, owner, ownerRole, trial>>
             \/ /\ empty = {}
                /\ \E v \in victim :
                     /\ port' = [port EXCEPT ![v].link = link]
                     /\ sess' = [sess EXCEPT ![v] = NoSession]
                     /\ EndLeases({v})
    /\ UNCHANGED <<now, cursor, etag>>

(* detachTransport -> parkAndDetach, on the transport layer's word *)
DetachTransport ==
    /\ cursor = 0
    /\ \E s \in Attached :
         /\ port' = [port EXCEPT ![s] = NoPort]
         /\ sess' = [sess EXCEPT ![s] = Parked(@)]
         /\ EndLeases(IF sess[s].state = "STALE" THEN {} ELSE {s})
    /\ UNCHANGED <<now, cursor, etag>>

(* setCongestionLevel: only level >= 2 keeps the stall clock *)
SetCongestionLevel ==
    /\ cursor = 0
    /\ \E s \in Attached, high \in Congestion :
         port' = [port EXCEPT ![s].congested = high,
                              ![s].stall = IF high THEN @ ELSE NoStall]
    /\ UNCHANGED <<now, cursor, etag, sess, owner, ownerRole, trial>>

------------------------------------------------------------------------------
(* HELLO *)

(* tierOf: a cable outranks any token *)
TierOf(s, role) == IF port[s].link = "cable" THEN Configure ELSE role

(* Reading(s): update() is at slot s and its transport has a frame *)
Reading(s) == cursor = s /\ s \in Attached

(* handleReattach: the STALE session d moves to slot s with its grants,    *)
(* id and readiness.  role is what the trust observation leaves of it,     *)
(* tag what HELLO says of the catalog: "match", "differ" or "absent".      *)
ReattachedSession(s, d, role, tag, welcomed) ==
    LET e == sess[d] IN
    [e EXCEPT
       !.state      = IF welcomed THEN "LIVE" ELSE "STALE",
       !.role       = TierOf(s, role),
       !.matched    = tag = "match",
       !.ready      = @ /\ tag = "match",
       !.readyEtag  = IF e.ready /\ tag = "match" THEN etag ELSE @,
       !.mismatch   = CASE tag = "match" -> @ /\ ~e.ready
                        [] OTHER -> tag = "differ",
       !.grantedAt  = IF tag = "match" THEN @ ELSE now,
       !.staleSince = 0,
       !.parkedAt   = IF welcomed THEN 0 ELSE @,
       !.lastRx     = now]

HandleReattach(s, d, role, tag, welcomed) ==
    /\ sess' = [sess EXCEPT ![s] = ReattachedSession(s, d, role, tag, welcomed),
                            ![d] = NoSession]
    /\ port' = [port EXCEPT ![s].congested = FALSE, ![s].stall = NoStall,
                            ![d].link = "none"]
    /\ EndLeases({s})

(* The session handleHello opens: VALIDATING until WELCOME is written *)
FreshSession(s, i, inst, role, window, tag, welcomed) ==
    [NoSession EXCEPT
       !.state = IF welcomed THEN "LIVE" ELSE "VALIDATING",
       !.id = i, !.inst = inst, !.role = TierOf(s, role), !.deadman = window,
       !.matched = tag = "match", !.ready = tag = "match",
       !.readyEtag = IF tag = "match" THEN etag ELSE 0,
       !.grantedAt = now, !.lastRx = now]

(* Mutant: only parked sessions are searched *)
SlotsOfInstance_parked(inst, s) ==
    {d \in Occupied \ {s} : sess[d].inst = inst /\ sess[d].state = "STALE"}

(* findSlotByInstance(inst, &slot) *)
SlotsOfInstance(inst, s) ==
    {d \in Occupied \ {s} : sess[d].inst = inst}

(* occupiedCount(&slot) >= kHubMaxSessions *)
AtCapacity(others) == Cardinality(others) >= MaxSessions

(* The sessions a HELLO of inst on slot s competes with for a place, and   *)
(* the STALE one that yields when there is none.                           *)
Others(inst, s)  == Occupied \ (SlotsOfInstance(inst, s) \cup {s})
Yielding(inst, s) ==
    IF AtCapacity(Others(inst, s)) THEN EvictableStale(Others(inst, s)) ELSE {}

(* No place and nobody yields: NACK HUB_AT_CAPACITY, but the instance's    *)
(* other session has ended already.                                        *)
RefuseHello(s, inst) ==
    /\ AtCapacity(Others(inst, s)) /\ Yielding(inst, s) = {}
    /\ sess' = [x \in Slots |-> CASE x \in SlotsOfInstance(inst, s) -> NoSession
                                  [] x = s  -> Touched(sess[x])
                                  [] OTHER  -> sess[x]]
    /\ EndLeases(SlotsOfInstance(inst, s))
    /\ UNCHANGED port

(* The session s had, the instance's other one and the one that yields end *)
AdmitHello(s, inst, role, window, tag, welcomed) ==
    LET ended == SlotsOfInstance(inst, s) \cup Yielding(inst, s) \cup {s}
    IN  /\ AtCapacity(Others(inst, s)) => Yielding(inst, s) # {}
        /\ \E i \in Sids \ UsedIds :
             sess' = [x \in Slots |->
                        CASE x = s -> FreshSession(s, i, inst, role, window, tag, welcomed)
                          [] x \in ended \ {s} -> NoSession
                          [] OTHER -> sess[x]]
        /\ EndLeases(ended)
        /\ UNCHANGED port

(* A parked session of the instance whose role the token still proves *)
Resumable(s, inst, token) ==
    {d \in SlotsOfInstance(inst, s) :
       sess[d].state = "STALE" /\ sess[d].role = TierOf(s, token)}

(* handleHello: resume the parked session, or end whatever else the        *)
(* instance has and ask for admission.                                     *)
HandleHello(s) ==
    /\ Reading(s)
    /\ \E inst \in Instances, token \in Tokens, tag \in {"match", "differ", "absent"},
          window \in DeadmanWindows, welcomed \in BOOLEAN :
       \E role \in {token, Watch} :    \* applyTrustObservation may suspend it
         \/ \E d \in Resumable(s, inst, token) : HandleReattach(s, d, role, tag, welcomed)
         \/ Resumable(s, inst, token) = {} /\ RefuseHello(s, inst)
         \/ /\ Resumable(s, inst, token) = {}
            /\ AdmitHello(s, inst, role, window, tag, welcomed)
    /\ UNCHANGED <<now, cursor, etag>>

------------------------------------------------------------------------------
(* The other frames, read only while update() is at the slot *)

(* A frame that changes nothing but liveness (PING, CLOCK, UNSUBSCRIBE, an *)
(* e-stop frame, a frame that does not decode), or whose answer is on the  *)
(* never-shed plane (SUBSCRIBE's GRANT, a NACK) and so feeds the stall     *)
(* clock.                                                                  *)
OtherFrame(s) ==
    /\ Reading(s)
    /\ \E ans \in Answers :
         Settle(s, Touched(sess[s]), owner, ownerRole, trial,
                IF s \in Occupied THEN ans ELSE "none")
    /\ UNCHANGED <<now, cursor, etag>>

(* handleCatalogReady, for the etag of any catalog so far *)
HandleCatalogReady(s) ==
    /\ Reading(s) /\ s \in Occupied
    /\ \E e \in 0 .. etag :
         sess' = [sess EXCEPT ![s] =
                    [Touched(@) EXCEPT !.ready = TRUE, !.readyEtag = e,
                                       !.mismatch = e # etag]]
    /\ UNCHANGED <<now, cursor, etag, port, owner, ownerRole, trial>>

(* handleGoodbye; an AUTH that exhausts its attempts ends the same way *)
HandleGoodbye(s) ==
    /\ Reading(s) /\ s \in Occupied
    /\ sess' = [sess EXCEPT ![s] = NoSession]
    /\ EndLeases({s})
    /\ UNCHANGED <<now, cursor, etag, port>>

(* AUTH, or a pairing grant: the role changes, leases and grants do not *)
HandleAuth(s) ==
    /\ Reading(s) /\ s \in Occupied
    /\ \E role \in Tokens :
         sess' = [sess EXCEPT ![s] = [Touched(@) EXCEPT !.role = TierOf(s, role)]]
    /\ UNCHANGED <<now, cursor, etag, port, owner, ownerRole, trial>>

(* SourceOwnershipTable::acquire succeeds *)
CanAcquire(x, e, takeover) ==
    \/ owner[x] \in {NoSid, e.id}
    \/ takeover /\ e.role >= ownerRole[x]

(* An INTENT or STREAM bundle on a channel mapped to source x, past the    *)
(* gates before it.  The delegate may refuse to apply it: a source taken   *)
(* for it is then released, to nobody.                                     *)
ActivateSource(s) ==
    /\ Reading(s) /\ s \in Occupied
    /\ \E x \in Sources, takeover \in BOOLEAN, applied \in BOOLEAN, ans \in Answers :
         LET e     == Touched(sess[s])
             keeps == applied \/ owner[x] = e.id
             own   == [owner EXCEPT ![x] = IF keeps THEN e.id ELSE NoSid]
             role  == CASE owner[x] = e.id -> ownerRole[x]
                        [] keeps           -> e.role
                        [] OTHER           -> Watch
         IN  /\ e.ready /\ e.role >= SourceAccess
             /\ CanAcquire(x, e, takeover)
             /\ Settle(s, e, own, [ownerRole EXCEPT ![x] = role], trial, ans)
    /\ UNCHANGED <<now, cursor, etag>>

(* A trial write, or the commit, revert or plain write that ends it *)
WriteTrial(s) ==
    /\ Reading(s) /\ s \in Occupied
    /\ \E k \in TrialKeys, opens \in BOOLEAN, ans \in Answers :
         LET e == Touched(sess[s])
         IN  /\ e.ready /\ e.role >= Control
             /\ trial[k] \in {NoSid, e.id}
             /\ Settle(s, e, owner, ownerRole,
                       [trial EXCEPT ![k] = IF opens THEN e.id ELSE NoSid], ans)
    /\ UNCHANGED <<now, cursor, etag>>

(* The session of slot x after the operator on slot s has the session of   *)
(* slot v evicted, or given a role.                                        *)
AdminOrder(x, s, v, evict, role) ==
    LET e == IF x = s THEN Touched(sess[x]) ELSE sess[x]
    IN  CASE x # v          -> e
          [] x = v /\ evict -> NoSession
          [] OTHER          -> [e EXCEPT !.role = TierOf(x, role)]

AdminEnds(s, v, evict, ans) ==
    (IF evict THEN {v} ELSE {}) \cup (IF StallExpired(s, ans) THEN {s} ELSE {})

(* An operator's session_admin intent: evict ends a session, pair_approve  *)
(* changes its role.  The evict echo goes out before the teardown, the     *)
(* approval's after the grant; either may find the operator's own link     *)
(* stalled and park the operator.                                          *)
HandleAdminIntent(s) ==
    /\ Reading(s) /\ s \in Occupied
    /\ Touched(sess[s]).ready /\ sess[s].role = Configure
    /\ \E v \in Occupied, ans \in {"ok", "fail"}, role \in Tokens, evict \in BOOLEAN :
         /\ evict \/ v \in Attached
         /\ port' = [port EXCEPT ![s] = PortAfterSend(s, ans)]
         /\ sess' = [x \in Slots |-> IF x = s /\ StallExpired(s, ans)
                                     THEN Parked(AdminOrder(x, s, v, evict, role))
                                     ELSE AdminOrder(x, s, v, evict, role)]
         /\ EndLeases(AdminEnds(s, v, evict, ans))
    /\ UNCHANGED <<now, cursor, etag>>

------------------------------------------------------------------------------
(* The timers, once per slot and update() *)

(* Mutant: owners get the idle window *)
DeadmanFires_idle(s) ==
    sess[s].state = "LIVE" /\ Owns(s) /\ Reached(sess[s].lastRx + IdleReapMs)

(* pumpDeadman: a silent owner goes STALE *)
DeadmanFires(s) ==
    /\ sess[s].state = "LIVE" /\ Owns(s)
    /\ Reached(sess[s].lastRx + sess[s].deadman)

(* Mutant: measured from the last frame, so a PING restarts the window *)
ReadyTimesOut_lastRx(s) ==
    /\ s \in Occupied /\ sess[s].state # "STALE" /\ ~sess[s].ready
    /\ Reached(sess[s].lastRx + ReadyTimeoutMs)

(* pumpReadyTimeout: a session that never adopted the catalog ends *)
ReadyTimesOut(s) ==
    /\ s \in Occupied /\ sess[s].state # "STALE" /\ ~sess[s].ready
    /\ Reached(sess[s].grantedAt + ReadyTimeoutMs)

(* pumpIdleReap: a silent session that owns nothing goes STALE *)
IdleReaps(s) ==
    /\ sess[s].state = "LIVE" /\ ~Owns(s)
    /\ Reached(sess[s].lastRx + IdleReapMs)

(* update() has drained slot s: its timers in order, then the next slot.   *)
(* After the last slot pumpQuietRelease releases the sources gone quiet.   *)
PumpTimers(s) ==
    /\ cursor = s
    /\ LET stale == s \in Attached /\ DeadmanFires(s)
           ends  == s \in Attached /\ ~stale /\ ReadyTimesOut(s)
           idle  == s \in Attached /\ ~stale /\ ~ends /\ IdleReaps(s)
           last  == s = MaxSessions + 1
           ids   == IF stale \/ ends \/ idle THEN {sess[s].id} \ {NoSid} ELSE {}
           own   == OwnersWithout(owner, ids)
           roles == RolesWithout(owner, ownerRole, ids)
       IN  /\ cursor' = IF last THEN 0 ELSE s + 1
           /\ sess' = [sess EXCEPT ![s] =
                         IF ends THEN NoSession
                         ELSE IF stale \/ idle THEN MarkedStale(@) ELSE @]
           /\ trial' = TrialsWithout(trial, ids)
           /\ \E quiet \in SUBSET Sources :
                /\ last \/ quiet = {}
                /\ owner'     = [x \in Sources |-> IF x \in quiet THEN NoSid ELSE own[x]]
                /\ ownerRole' = [x \in Sources |-> IF x \in quiet THEN Watch ELSE roles[x]]
    /\ UNCHANGED <<now, etag, port>>

(* The next call of update(): the clock has moved, the walk starts *)
BeginUpdate ==
    /\ cursor = 0
    /\ \E d \in 1 .. MaxStep :
         /\ now + d <= MaxNow
         /\ now' = now + d
    /\ cursor' = 1
    /\ UNCHANGED <<etag, port, sess, owner, ownerRole, trial>>

------------------------------------------------------------------------------
(* The application's calls, between two updates *)

(* Mutant: a STALE session, which hears nothing of it, is passed over *)
Told_served(e, resync, tag) ==
    IF e.state = "STALE" THEN e
    ELSE IF resync
    THEN [e EXCEPT !.ready = FALSE, !.mismatch = FALSE, !.grantedAt = now]
    ELSE [e EXCEPT !.mismatch = e.ready /\ e.readyEtag # tag]

(* What a session knows once the catalog has etag tag: a user-space change *)
(* keeps a ready session ready on its old etag, a re-sync revokes          *)
(* readiness and restarts the READY window.                                *)
Told(e, resync, tag) ==
    IF resync
    THEN [e EXCEPT !.ready = FALSE, !.mismatch = FALSE, !.grantedAt = now]
    ELSE [e EXCEPT !.mismatch = e.ready /\ e.readyEtag # tag]

(* catalogChanged.  ans is the fate of the CHANNEL_WITHDRAWN and catalog   *)
(* STATE frames, one for every session with a transport.                   *)
CatalogChanged ==
    /\ cursor = 0 /\ etag < MaxEtag
    /\ etag' = etag + 1
    /\ \E resync \in BOOLEAN, ans \in [Attached \cap Occupied -> Answers] :
         LET parks == {s \in Attached \cap Occupied : StallExpired(s, ans[s])}
         IN  /\ port' = [s \in Slots |-> IF s \in Attached \cap Occupied
                                         THEN PortAfterSend(s, ans[s]) ELSE port[s]]
             /\ sess' = [s \in Slots |->
                           IF s \in Occupied
                           THEN Told(IF s \in parks THEN Parked(sess[s]) ELSE sess[s],
                                     resync, etag + 1)
                           ELSE sess[s]]
             /\ EndLeases({s \in parks : sess[s].state # "STALE"})
    /\ UNCHANGED <<now, cursor>>

(* approvePendingConfigure: the button at the machine grants configure to  *)
(* the one session that asked for it.                                      *)
ApprovePendingConfigure ==
    /\ cursor = 0
    /\ \E s \in Attached \cap Occupied :
         sess' = [sess EXCEPT ![s].role = Configure]
    /\ UNCHANGED <<now, cursor, etag, port, owner, ownerRole, trial>>

(* goodbyeAll and demoteAllToWatch: evictSlot on every session, or on      *)
(* every one above watch                                                   *)
EvictAll ==
    /\ cursor = 0
    /\ \E least \in {Watch, Control} :
         LET out == {s \in Occupied : sess[s].role >= least}
         IN  /\ sess' = [s \in Slots |-> IF s \in out THEN NoSession ELSE sess[s]]
             /\ port' = [s \in Slots |->
                           IF s \in out THEN [NoPort EXCEPT !.link = port[s].link]
                           ELSE port[s]]
             /\ EndLeases(out)
    /\ UNCHANGED <<now, cursor, etag>>

------------------------------------------------------------------------------
Init ==
    /\ now = 0 /\ cursor = 0 /\ etag = 0
    /\ port = [s \in Slots |-> NoPort]
    /\ sess = [s \in Slots |-> NoSession]
    /\ owner = [x \in Sources |-> NoSid]
    /\ ownerRole = [x \in Sources |-> Watch]
    /\ trial = [k \in TrialKeys |-> NoSid]

Frame(s) ==
    \/ HandleHello(s)
    \/ OtherFrame(s)
    \/ HandleCatalogReady(s)
    \/ HandleGoodbye(s)
    \/ HandleAuth(s)
    \/ ActivateSource(s)
    \/ WriteTrial(s)
    \/ HandleAdminIntent(s)

Next ==
    \/ AttachTransport
    \/ DetachTransport
    \/ SetCongestionLevel
    \/ CatalogChanged
    \/ ApprovePendingConfigure
    \/ EvictAll
    \/ BeginUpdate
    \/ \E s \in Slots : Frame(s) \/ PumpTimers(s)

Spec == Init /\ [][Next]_vars

------------------------------------------------------------------------------
(* Properties *)

(* Every variable keeps the type its field has in Slot, HubSession and the *)
(* ownership table.                                                        *)
TypeOK ==
    /\ now \in 0 .. MaxNow /\ cursor \in 0 .. (MaxSessions + 1)
    /\ etag \in 0 .. MaxEtag
    /\ port \in [Slots -> Port]
    /\ sess \in [Slots -> Session]
    /\ owner \in [Sources -> Sids \cup {NoSid}]
    /\ ownerRole \in [Sources -> Roles]
    /\ trial \in [TrialKeys -> Sids \cup {NoSid}]

(* A session the hub is serving: it has one and it is not STALE *)
Serving(s) == sess[s].state \in {"VALIDATING", "LIVE"}

(* SPEC 6.9: every door a session leaves by, and every way it goes STALE,  *)
(* releases its sources and ends its trials.  So each lease is held by a   *)
(* session the hub is serving, and nobody is locked out by a dead id.      *)
LeasesAreServed ==
    /\ \A x \in Sources : owner[x] # NoSid =>
         \E s \in Slots : Serving(s) /\ sess[s].id = owner[x]
    /\ \A k \in TrialKeys : trial[k] # NoSid =>
         \E s \in Slots : Serving(s) /\ sess[s].id = trial[k]

(* handleHello and handleReattach never leave two sessions with one        *)
(* identity: neither the same session id nor the same client instance.     *)
OneSessionPerIdentity ==
    \A s, t \in Occupied : s # t =>
        sess[s].id # sess[t].id /\ sess[s].inst # sess[t].inst

(* A session is served only while its slot has a transport: the walk of    *)
(* update() skips a slot without one, so no timer would ever end it.       *)
ServedIsAttached == \A s \in Slots : Serving(s) => s \in Attached

(* The degraded flag the hub reports is exact: a ready session operates    *)
(* against the hub's own etag unless readyEtagMismatch says otherwise,     *)
(* across catalog changes, staleness and reattaching.                      *)
DegradedIsKnown ==
    \A s \in Occupied : sess[s].ready =>
        (sess[s].mismatch <=> sess[s].readyEtag # etag)

(* 11.3: between two updates no LIVE session owns a source it has been     *)
(* silent about for its whole deadman window.                              *)
DeadmanBoundsOwnership ==
    cursor = 0 => \A s \in Slots :
        (sess[s].state = "LIVE" /\ Owns(s)) => now < sess[s].lastRx + sess[s].deadman

(* RFC-015: between two updates no served session is past the READY window *)
(* and still not ready, however often the window was restarted.            *)
ReadyWindowBounded ==
    cursor = 0 => \A s \in Slots :
        (Serving(s) /\ ~sess[s].ready) => now < sess[s].grantedAt + ReadyTimeoutMs

(* Some slot gets a transport it did not have, or a session that is new *)
Arrival ==
    \/ \E s \in Slots : port[s].link = "none" /\ port'[s].link # "none"
    \/ \E s \in Slots : sess'[s].id \notin UsedIds \cup {NoSid}

(* RFC-042 item 5: slot pressure ends STALE sessions only.  An arrival     *)
(* ends a session that is not STALE only if it came on that very slot or   *)
(* claims that session's instance.                                         *)
PressureSparesLive ==
    [][Arrival => \A s \in Occupied :
         \/ sess[s].state = "STALE"
         \/ sess'[s].id = sess[s].id
         \/ s = cursor
         \/ cursor # 0 /\ sess'[cursor].inst = sess[s].inst]_vars

(* "Motion never restarts because a socket reopened" (SPEC 6.8): a session *)
(* that comes back from STALE comes back owning nothing.                   *)
ResumesWithoutControl ==
    [][\A s \in Occupied, t \in Slots :
         (sess[s].state = "STALE" /\ sess'[t].id = sess[s].id /\ sess'[t].state = "LIVE"
            /\ ~ActivateSource(t))
         => \A x \in Sources : owner'[x] # sess[s].id]_vars

-----------------------------------------------------------------------------
(* Four statements of the documents that the code does not keep; the README *)
(* says, under Divergences, how each is refuted.                            *)

(* Reclaiming takes the lowest tier and, within it, the session that has   *)
(* been STALE longest, as parkedAt has it.                                 *)
ReclaimsLongestStale ==
    \A v \in EvictableStale(Slots), s \in Occupied :
        sess[s].state = "STALE" =>
            \/ sess[v].role < sess[s].role
            \/ sess[v].role = sess[s].role /\ sess[v].parkedAt <= sess[s].parkedAt

(* SPEC 6.4: a HELLO whose etag equals the hub's makes the session ready   *)
(* on the WELCOME.                                                         *)
EtagMatchIsReady ==
    [][\A s \in Slots :
         (sess'[s].id # sess[s].id /\ sess'[s].state = "LIVE" /\ sess'[s].matched)
         => sess'[s].ready]_vars

(* session.hpp: "VALIDATING is bounded (2 s recommended)".  No session     *)
(* stays VALIDATING longer than the longest of the hub's own windows.      *)
ValidatingIsBounded ==
    \A s \in Slots : sess[s].state = "VALIDATING" =>
        now <= sess[s].grantedAt + Max({IdleReapMs, ReadyTimeoutMs})

(* pumpDeadman's comment: "VALIDATING/GRANTED never own a source". *)
ValidatingOwnsNothing ==
    \A s \in Slots : sess[s].state = "VALIDATING" => ~Owns(s)
=============================================================================
