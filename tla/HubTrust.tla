------------------------------ MODULE HubTrust ------------------------------
(***************************************************************************)
(* Who may do what: the trust ledger of the hub, the ceremonies that write *)
(* it (session/pairing.hpp) and the handlers that read it or change it     *)
(* (hub/hub_impl.hpp): HELLO with a token, AUTH with a proof, PAIR_REQ     *)
(* with a PIN or bare (a knock), the presence window, the administrator's  *)
(* pair_approve, pair_deny, revoke and evict, and the application's own    *)
(* calls.  A knock waits for an operator while its session lives; a        *)
(* changed client version suspends a device and queues the same question.  *)
(*                                                                         *)
(* Sessions are those of HubSessions, reduced to what trust depends on:    *)
(* which device, which role, parked or not.  Deadlines are the time left;  *)
(* update() is what makes time pass, and it expires windows and knocks     *)
(* before any frame of that update() is handled.                           *)
(*                                                                         *)
(* A device names itself in PAIR_REQ, as Client::sendPairReq does.  Labels *)
(* (kind, name, presentation mode), wall-clock stamps and the roster's     *)
(* generation number are left out.                                         *)
(***************************************************************************)
EXTENDS Integers, FiniteSets

CONSTANTS
    Slots,          \* the hub's slots
    Instances,      \* client instance ids
    Sids,           \* session ids
    NoSid, NoInst,  \* none
    Versions,       \* client_ver values
    NoVer,          \* no client_ver
    MaxPaired,      \* PairingManager::kMaxPaired
    MaxPending,     \* pairing_pending_max
    PairingWindow,  \* pairing_window_default_s, in updates
    PinStrikes,     \* PIN failures that close the window
    AuthStrikes,    \* auth_attempts_max
    PresenceRole,   \* setPresenceDefaultRole
    AutoKeepMax,    \* setTrustChangeAutoKeepMax
    KnockEnabled,   \* setKnockApproveEnabled
    DelegateRoles,  \* what the application's validateToken may answer
    Bindings,       \* the bindings transports come on
    Asks,           \* the roles a knock asks for and an approval gives
    Reported        \* the client_ver values HELLO brings, NoVer for none

Watch     == 0
Control   == 1
Configure == 2
Roles     == Watch .. Configure

ASSUME TrustConstants ==
    /\ IsFiniteSet(Instances)
    /\ NoSid \notin Sids /\ NoInst \notin Instances /\ NoVer \notin Versions
    /\ MaxPaired \in Nat /\ MaxPending \in Nat /\ PairingWindow \in Nat \ {0}
    /\ PinStrikes \in Nat \ {0} /\ AuthStrikes \in Nat \ {0}
    /\ PresenceRole \in Roles /\ AutoKeepMax \in Roles
    /\ KnockEnabled \in BOOLEAN
    /\ DelegateRoles \subseteq Roles /\ Asks \subseteq Roles
    /\ Bindings \subseteq {"net", "cable"}
    /\ Reported \subseteq Versions \cup {NoVer}

VARIABLES
    link,      \* what each slot's transport is, "none" without one
    sess,      \* the session in each slot
    ledger,    \* PairingManager::_entries, by device
    dirty,     \* PairingManager::_dirty
    saved,     \* the ledger blob in non-volatile memory
    pending,   \* PendingPairingList, by device
    shown,     \* the retained pending-pairing snapshot (0x000A)
    roster,    \* the count in the retained roster snapshot (0x000D)
    pin,       \* the PIN window: time left and failures
    presence   \* the presence window: time left

vars == <<link, sess, ledger, dirty, saved, pending, shown, roster, pin,
          presence>>

NoEntry == [state |-> "none", role |-> Watch, version |-> NoVer]
(* No PIN window; openWindow() clears the failures, so what a closed one   *)
(* counted is never read.                                                  *)
PinClosed == [left |-> 0, fails |-> 0]
NoKnock == [sid |-> NoSid, left |-> 0, asked |-> Watch, reapproval |-> FALSE]
NoSession == [sid |-> NoSid, inst |-> NoInst, role |-> Watch, ver |-> NoVer,
              stale |-> FALSE, strikes |-> 0]

(* PairedEntry.                                                            *)
Entry == [state : {"none", "trusted", "recognized_pending"}, role : Roles,
          version : Versions \cup {NoVer}]
(* PendingKnock.                                                           *)
Knock == [sid : Sids \cup {NoSid}, left : 0 .. PairingWindow, asked : Roles,
          reapproval : BOOLEAN]
(* The fields of HubSession and Slot that trust reads.                     *)
Session == [sid : Sids \cup {NoSid}, inst : Instances \cup {NoInst},
            role : Roles, ver : Versions \cup {NoVer}, stale : BOOLEAN,
            strikes : 0 .. AuthStrikes]

-----------------------------------------------------------------------------
(* Reading the state.                                                      *)

Occupied == {s \in Slots : sess[s].sid # NoSid}
SlotsOf(sid) == {s \in Occupied : sess[s].sid = sid}
Paired(L) == {i \in Instances : L[i].state # "none"}
Waiting(P) == {i \in Instances : P[i].sid # NoSid}
TierOf(s, role) == IF link[s] = "cable" THEN Configure ELSE role

PresenceGrantRole == IF Paired(ledger) # {} THEN PresenceRole ELSE Configure

(* A token is 16 random bytes: what matters of the one a device presents   *)
(* is whether it is the one its entry holds.                               *)
Tokens == {"absent", "other", "entry's"}
Presentable(i) == {"absent", "other"} \cup (IF i \in Paired(ledger) THEN {"entry's"} ELSE {})

(* validate(): token t of device i proves this role.                       *)
Validate(i, t) ==
    IF ledger[i].state = "trusted" /\ t = "entry's"
    THEN ledger[i].role ELSE Watch

(* tokenRole(): the ledger first, the delegate's answer d if still watch.  *)
TokenRole(i, t, d) == IF Validate(i, t) # Watch THEN Validate(i, t) ELSE d

-----------------------------------------------------------------------------
(* The list of knocks.                                                     *)

HasRoom(P, i) == i \in Waiting(P) \/ Cardinality(Waiting(P)) < MaxPending

(* add(): a knock of a waiting device is refreshed, keeping what it asked. *)
PendingAdd(P, i, sid) ==
    [P EXCEPT ![i] = [sid |-> sid, left |-> PairingWindow, asked |-> @.asked,
                      reapproval |-> @.reapproval]]

PendingRemove(P, who) == [i \in Instances |-> IF i \in who THEN NoKnock ELSE P[i]]

(* dropBySession(): a departed session's knocks.                           *)
KnocksOf(sids) == {i \in Waiting(pending) : pending[i].sid \in sids}

(* publishPendingPairingState().                                           *)
Snapshot(P, window) == [waiting |-> Waiting(P), window |-> window > 0]

-----------------------------------------------------------------------------
(* observeHello(): the change tripwire.                                    *)

VersionChanged(e, v) ==
    /\ e.state = "trusted"
    /\ v # NoVer /\ e.version # NoVer /\ e.version # v

Suspends(e, v) == VersionChanged(e, v) /\ e.role > AutoKeepMax

Observed(e, v) ==
    IF Suspends(e, v) THEN [e EXCEPT !.state = "recognized_pending"]
    ELSE IF VersionChanged(e, v) \/ (e.state # "none" /\ e.version = NoVer)
    THEN [e EXCEPT !.version = v]
    ELSE e

(* Mutant: the suspension itself is not marked for writing.                *)
DisturbsUnlessSuspended(e, v) ==
    (e.state = "trusted" \/ Observed(e, v) # e) /\ ~Suspends(e, v)

(* Whether the observation must be written back: a version or a state      *)
(* changed, or last_seen moved on a device that is not suspended.          *)
Disturbs(e, v) == e.state = "trusted" \/ Observed(e, v) # e

(* Mutant: the role is taken from the entry whatever its state.            *)
EffectiveRoleUnchecked(e) == e.role

EffectiveRole(e) == IF e.state = "trusted" THEN e.role ELSE Watch

(* applyTrustObservation() on device i of session sid, whose knocks are P: *)
(* a suspension queues the question, if the list has room.                 *)
AfterTripwire(P, i, sid, v) ==
    IF Suspends(ledger[i], v) /\ HasRoom(P, i)
    THEN [PendingAdd(P, i, sid) EXCEPT ![i].reapproval = TRUE]
    ELSE P

-----------------------------------------------------------------------------
(* grant(): device i gets a fresh token at role; the labels issuePairGrant *)
(* copies from the session include its version.                            *)

LedgerHasRoom(i) == i \in Paired(ledger) \/ Cardinality(Paired(ledger)) < MaxPaired

Granted(e, role, ver) ==
    [state |-> "trusted", role |-> role,
     version |-> IF ver # NoVer THEN ver ELSE e.version]

(* issuePairGrant() to the session in slot s, leaving `window' of the      *)
(* presence window; L is the ledger it starts from.                        *)
IssuePairGrant(s, i, role, L, window) ==
    /\ ledger' = [L EXCEPT ![i] = Granted(@, role, sess[s].ver)]
    /\ dirty' = TRUE
    /\ sess' = [sess EXCEPT ![s].role = TierOf(s, role)]
    /\ pending' = PendingRemove(pending, {i})
    /\ presence' = window
    /\ shown' = Snapshot(pending', window)
    /\ roster' = Cardinality(Paired(ledger'))
    /\ UNCHANGED <<link, saved, pin>>

(* Mutant: knocks outlive their session.                                   *)
TeardownKeepsKnocks(gone) ==
    /\ sess' = [s \in Slots |-> IF s \in gone THEN NoSession ELSE sess[s]]
    /\ UNCHANGED <<pending, shown>>

(* teardownSession() of the slots in gone: their knocks go with them.      *)
Teardown(gone) ==
    LET lost == KnocksOf({sess[s].sid : s \in gone})
    IN  /\ sess' = [s \in Slots |-> IF s \in gone THEN NoSession ELSE sess[s]]
        /\ pending' = PendingRemove(pending, lost)
        /\ shown' = IF lost # {} THEN Snapshot(pending', presence) ELSE shown

-----------------------------------------------------------------------------
Init ==
    /\ link = [s \in Slots |-> "none"]
    /\ sess = [s \in Slots |-> NoSession]
    /\ ledger = [i \in Instances |-> NoEntry]
    /\ dirty = FALSE
    /\ saved = [i \in Instances |-> NoEntry]
    /\ pending = [i \in Instances |-> NoKnock]
    /\ shown = [waiting |-> {}, window |-> FALSE]
    /\ roster = 0
    /\ pin = PinClosed
    /\ presence = 0

(* What the trust handlers leave alone.                                    *)
windows  == <<pin, presence>>
accounts == <<ledger, dirty, saved, roster>>

-----------------------------------------------------------------------------
(* Sessions, as far as trust sees them.                                    *)

Attach(s, b) ==
    /\ link[s] = "none" /\ s \notin Occupied
    /\ link' = [link EXCEPT ![s] = b]
    /\ UNCHANGED <<sess, accounts, pending, shown, windows>>

(* Mutant: the knocks are dropped without publishing the worklist.         *)
LoseLinkUnpublished(s) ==
    /\ link[s] # "none"
    /\ link' = [link EXCEPT ![s] = "none"]
    /\ IF s \in Occupied /\ ~sess[s].stale
       THEN /\ sess' = [sess EXCEPT ![s] = [@ EXCEPT !.stale = TRUE, !.strikes = 0]]
            /\ pending' = PendingRemove(pending, KnocksOf({sess[s].sid}))
            /\ UNCHANGED shown
       ELSE UNCHANGED <<sess, pending, shown>>
    /\ UNCHANGED <<accounts, windows>>

(* parkAndDetach(): a live session is parked and loses its knocks and its  *)
(* strikes; one that was parked already keeps them.                        *)
LoseLink(s) ==
    /\ link[s] # "none"
    /\ link' = [link EXCEPT ![s] = "none"]
    /\ IF s \in Occupied /\ ~sess[s].stale
       THEN LET lost == KnocksOf({sess[s].sid})
            IN  /\ sess' = [sess EXCEPT ![s] = [@ EXCEPT !.stale = TRUE, !.strikes = 0]]
                /\ pending' = PendingRemove(pending, lost)
                /\ shown' = IF lost # {} THEN Snapshot(pending', presence) ELSE shown
       ELSE UNCHANGED <<sess, pending, shown>>
    /\ UNCHANGED <<accounts, windows>>

(* pumpDeadman() or pumpIdleReap(): silence parks a session on its link.   *)
FallSilent(s) ==
    /\ s \in Occupied /\ ~sess[s].stale /\ link[s] # "none"
    /\ sess' = [sess EXCEPT ![s].stale = TRUE]
    /\ UNCHANGED <<link, accounts, pending, shown, windows>>

(* reviveIfStale(): any frame on its own link.                             *)
Revive(s) ==
    /\ s \in Occupied /\ sess[s].stale /\ link[s] # "none"
    /\ sess' = [sess EXCEPT ![s].stale = FALSE]
    /\ UNCHANGED <<link, accounts, pending, shown, windows>>

(* A session ends: GOODBYE, a timer, a slot reclaimed.                     *)
EndSession(s) ==
    /\ s \in Occupied
    /\ Teardown({s})
    /\ UNCHANGED <<link, accounts, windows>>

-----------------------------------------------------------------------------
(* HELLO on slot s from device i with token t and version v; d   *)
(* is what the delegate would answer.                                      *)

SlotsNaming(i, s) == {x \in Occupied \ {s} : sess[x].inst = i}

(* The handler's tail: the session `base' is installed in slot s, the      *)
(* slots in gone are vacated and the knocks in lost dropped; a token then  *)
(* runs the tripwire.                                                      *)
Admit(s, i, base, gone, lost, t, v, role) ==
    LET kept    == PendingRemove(pending, lost)
        fires   == t # "absent" /\ Suspends(ledger[i], v)
        after   == IF t # "absent" THEN Observed(ledger[i], v) ELSE ledger[i]
        settled == IF t # "absent" /\ ledger[i].state # "none"
                   THEN EffectiveRole(after) ELSE role
    IN  /\ sess' = [x \in Slots |->
                      IF x = s THEN [base EXCEPT !.role = TierOf(s, settled)]
                      ELSE IF x \in gone THEN NoSession ELSE sess[x]]
        /\ ledger' = [ledger EXCEPT ![i] = after]
        /\ dirty' = (dirty \/ (t # "absent" /\ Disturbs(ledger[i], v)))
        /\ pending' = IF t # "absent" THEN AfterTripwire(kept, i, base.sid, v) ELSE kept
        /\ shown' = IF lost # {} \/ fires THEN Snapshot(pending', presence) ELSE shown
        /\ roster' = IF fires THEN Cardinality(Paired(ledger')) ELSE roster
        /\ UNCHANGED <<saved, windows>>

(* A parked session of device i whose role the token still proves is taken *)
(* over with its id, its knocks and its grants; its old link is closed.    *)
HelloReattach(s, x, t, v, d) ==
    LET i == sess[x].inst IN
    /\ link[s] # "none" /\ x \in Occupied \ {s} /\ sess[x].stale
    /\ t \in Presentable(i)
    /\ TierOf(s, TokenRole(i, t, d)) = sess[x].role
    /\ Admit(s, i, [sess[x] EXCEPT !.ver = v, !.stale = FALSE, !.strikes = 0],
             {x}, KnocksOf({sess[s].sid}), t, v, sess[x].role)
    /\ link' = [link EXCEPT ![x] = "none"]

HelloFresh(s, i, t, v, d, sid) ==
    LET role == TierOf(s, TokenRole(i, t, d))
        dups == SlotsNaming(i, s)
    IN
    /\ link[s] # "none" /\ t \in Presentable(i)
    /\ \A x \in dups : sess[x].stale => sess[x].role # role
    /\ sid \notin {sess[x].sid : x \in Occupied}
    /\ Admit(s, i, [NoSession EXCEPT !.sid = sid, !.inst = i, !.ver = v],
             dups, KnocksOf({sess[x].sid : x \in dups \cup {s}}), t, v, role)
    /\ UNCHANGED link

(* handleAuth(): a proof made with token t.                               *)
Live(s) == s \in Occupied /\ ~sess[s].stale /\ link[s] # "none"

AuthRefused(s, t) ==
    LET i == sess[s].inst IN
    /\ Live(s) /\ t \in Presentable(i)
    /\ t # "entry's"
    /\ IF sess[s].strikes + 1 < AuthStrikes
       THEN /\ sess' = [sess EXCEPT ![s].strikes = @ + 1]
            /\ UNCHANGED <<pending, shown>>
       ELSE Teardown({s})
    /\ UNCHANGED <<link, accounts, windows>>

AuthAccepted(s) ==
    LET i == sess[s].inst
        v == sess[s].ver
    IN
    /\ Live(s) /\ ledger[i].state # "none"
    /\ ledger' = [ledger EXCEPT ![i] = Observed(@, v)]
    /\ dirty' = (dirty \/ Disturbs(ledger[i], v))
    /\ sess' = [sess EXCEPT ![s] =
                  [@ EXCEPT !.strikes = 0,
                            !.role = TierOf(s, EffectiveRole(ledger'[i]))]]
    /\ pending' = AfterTripwire(pending, i, sess[s].sid, v)
    /\ shown' = IF Suspends(ledger[i], v) THEN Snapshot(pending', presence) ELSE shown
    /\ roster' = Cardinality(Paired(ledger'))
    /\ UNCHANGED <<link, saved, windows>>

-----------------------------------------------------------------------------
(* handlePairReq() with a PIN proof; on the cable it is a knock.           *)

PinRefused(s) ==
    /\ Live(s) /\ link[s] = "net" /\ pin.left > 0
    /\ pin' = IF pin.fails + 1 >= PinStrikes THEN PinClosed
              ELSE [pin EXCEPT !.fails = @ + 1]
    /\ UNCHANGED <<link, sess, accounts, pending, shown, presence>>

(* The right PIN grants control and leaves both windows and the device's   *)
(* own knock, if it has one, as they are.                                  *)
PinAccepted(s) ==
    LET i == sess[s].inst IN
    /\ Live(s) /\ link[s] = "net" /\ pin.left > 0
    /\ LedgerHasRoom(i)
    /\ ledger' = [ledger EXCEPT ![i] = Granted(@, Control, sess[s].ver)]
    /\ dirty' = TRUE
    /\ sess' = [sess EXCEPT ![s].role = Control]
    /\ roster' = Cardinality(Paired(ledger'))
    /\ pin' = [pin EXCEPT !.fails = 0]
    /\ UNCHANGED <<link, saved, pending, shown, presence>>

-----------------------------------------------------------------------------
(* handleKnock(): a PAIR_REQ without a proof, asking for a role.           *)

InWindow(asked) == presence > 0 /\ asked <= PresenceGrantRole

(* On the cable it is granted at once.                                     *)
KnockOnCable(s, asked) ==
    /\ Live(s) /\ link[s] = "cable" /\ LedgerHasRoom(sess[s].inst)
    /\ IssuePairGrant(s, sess[s].inst, IF asked # Watch THEN asked ELSE Configure,
                      ledger, presence)

(* In the presence window it is granted, and spends the window.            *)
KnockInWindow(s, asked) ==
    /\ Live(s) /\ link[s] = "net" /\ InWindow(asked)
    /\ LedgerHasRoom(sess[s].inst)
    /\ IssuePairGrant(s, sess[s].inst,
                      IF asked # Watch THEN asked ELSE PresenceGrantRole, ledger, 0)

(* With the ledger full the window is spent on a refusal.                  *)
KnockWastesWindow(s, asked) ==
    /\ Live(s) /\ link[s] = "net" /\ InWindow(asked)
    /\ ~LedgerHasRoom(sess[s].inst)
    /\ presence' = 0
    /\ UNCHANGED <<link, sess, accounts, pending, shown, pin>>

(* Otherwise it waits for an operator, if there is room to wait.           *)
KnockWaits(s, asked) ==
    LET i == sess[s].inst IN
    /\ Live(s) /\ link[s] = "net" /\ ~InWindow(asked)
    /\ KnockEnabled /\ HasRoom(pending, i)
    /\ pending' = [PendingAdd(pending, i, sess[s].sid) EXCEPT ![i].asked = asked]
    /\ shown' = Snapshot(pending', presence)
    /\ UNCHANGED <<link, sess, accounts, windows>>

-----------------------------------------------------------------------------
(* handleAdminIntent(), for a session a that holds configure.              *)

Admin(a) == Live(a) /\ sess[a].role = Configure

PairApprove(a, i, role) ==
    /\ Admin(a) /\ i \in Waiting(pending) /\ role <= sess[a].role
    /\ \E j \in SlotsOf(pending[i].sid) :
         /\ link[j] # "none" /\ LedgerHasRoom(i)
         /\ IssuePairGrant(j, i, role, ledger, presence)

(* The knocker has no link: the knock is dropped instead of granted.       *)
KnockerGone(i) ==
    /\ \A j \in SlotsOf(pending[i].sid) : link[j] = "none"
    /\ pending' = PendingRemove(pending, {i})
    /\ shown' = Snapshot(pending', presence)
    /\ UNCHANGED <<link, sess, accounts, windows>>

ApproveGone(a, i) ==
    /\ Admin(a) /\ i \in Waiting(pending)
    /\ KnockerGone(i)

(* Mutant: the roster is not republished.                                  *)
PairDenyUnannounced(a, i) ==
    /\ Admin(a) /\ i \in Waiting(pending)
    /\ pending' = PendingRemove(pending, {i})
    /\ shown' = Snapshot(pending', presence)
    /\ IF pending[i].reapproval
       THEN /\ ledger' = [ledger EXCEPT ![i] = NoEntry]
            /\ dirty' = (dirty \/ i \in Paired(ledger))
       ELSE UNCHANGED <<ledger, dirty>>
    /\ UNCHANGED <<link, sess, saved, roster, windows>>

(* Denying a re-approval revokes the device.                               *)
PairDeny(a, i) ==
    /\ Admin(a) /\ i \in Waiting(pending)
    /\ pending' = PendingRemove(pending, {i})
    /\ shown' = Snapshot(pending', presence)
    /\ IF pending[i].reapproval
       THEN /\ ledger' = [ledger EXCEPT ![i] = NoEntry]
            /\ dirty' = (dirty \/ i \in Paired(ledger))
            /\ roster' = Cardinality(Paired(ledger'))
       ELSE UNCHANGED <<ledger, dirty, roster>>
    /\ UNCHANGED <<link, sess, saved, windows>>

(* Mutant: the question about a revoked device stays in the list.          *)
RevokeLeavesQuestion(a, i) ==
    /\ Admin(a) /\ i \in Paired(ledger)
    /\ ledger' = [ledger EXCEPT ![i] = NoEntry]
    /\ dirty' = TRUE
    /\ roster' = Cardinality(Paired(ledger'))
    /\ UNCHANGED <<link, sess, saved, pending, shown, windows>>

(* Revoking clears the entry and any question about it; the session keeps  *)
(* its role until its next HELLO.                                          *)
Revoke(a, i) ==
    /\ Admin(a) /\ i \in Paired(ledger)
    /\ ledger' = [ledger EXCEPT ![i] = NoEntry]
    /\ dirty' = TRUE
    /\ pending' = PendingRemove(pending, {i})
    /\ shown' = Snapshot(pending', presence)
    /\ roster' = Cardinality(Paired(ledger'))
    /\ UNCHANGED <<link, sess, saved, windows>>

Evict(a, s) ==
    /\ Admin(a) /\ s \in Occupied
    /\ Teardown({s})
    /\ UNCHANGED <<link, accounts, windows>>

-----------------------------------------------------------------------------
(* The application: windows, the press at the machine, demotion.           *)

OpenPairingWindow ==
    /\ pin' = [left |-> PairingWindow, fails |-> 0]
    /\ UNCHANGED <<link, sess, accounts, pending, shown, presence>>

ClosePairingWindow ==
    /\ pin' = PinClosed
    /\ UNCHANGED <<link, sess, accounts, pending, shown, presence>>

OpenPresenceWindow ==
    /\ presence = 0
    /\ presence' = PairingWindow
    /\ shown' = Snapshot(pending, PairingWindow)
    /\ UNCHANGED <<link, sess, accounts, pending, pin>>

ClosePresenceWindow ==
    /\ presence > 0
    /\ presence' = 0
    /\ shown' = Snapshot(pending, 0)
    /\ UNCHANGED <<link, sess, accounts, pending, pin>>

AsksConfigure == {i \in Waiting(pending) : pending[i].asked = Configure}

(* approvePendingConfigure(): exactly one device asks for configure.  With *)
(* a full ledger a watch entry makes room (the least recently seen: the    *)
(* stamps are left out, so any).                                           *)
Droppable(i) ==
    IF LedgerHasRoom(i) THEN {i}
    ELSE {j \in Paired(ledger) : ledger[j].role = Watch}

ApproveAtMachine(i, old) ==
    /\ AsksConfigure = {i} /\ old \in Droppable(i)
    /\ \E j \in SlotsOf(pending[i].sid) :
         /\ link[j] # "none"
         /\ IssuePairGrant(j, i, Configure,
                           IF old = i THEN ledger ELSE [ledger EXCEPT ![old] = NoEntry],
                           presence)

GoneAtMachine(i) ==
    /\ AsksConfigure = {i}
    /\ KnockerGone(i)

(* demoteAllToWatch(): the ledger, the knocks, the windows, the sessions.  *)
DemoteAll ==
    /\ ledger' = [i \in Instances |-> [ledger[i] EXCEPT !.role = Watch]]
    /\ dirty' = (dirty \/ ledger' # ledger)
    /\ pending' = PendingRemove(pending, Instances)
    /\ pin' = PinClosed
    /\ presence' = 0
    /\ sess' = [s \in Slots |-> IF sess[s].role # Watch THEN NoSession ELSE sess[s]]
    /\ shown' = Snapshot(pending', 0)
    /\ roster' = Cardinality(Paired(ledger'))
    /\ UNCHANGED <<link, saved>>

-----------------------------------------------------------------------------
(* update(): one unit of time, then pumpPairing().                         *)
Less(n) == IF n = 0 THEN 0 ELSE n - 1

Update ==
    LET ended == {i \in Waiting(pending) : pending[i].left <= 1} IN
    /\ pending' = [i \in Instances |->
                     IF i \in ended THEN NoKnock
                     ELSE [pending[i] EXCEPT !.left = Less(@)]]
    /\ presence' = Less(presence)
    /\ pin' = IF pin.left <= 1 THEN PinClosed ELSE [pin EXCEPT !.left = @ - 1]
    /\ shown' = IF ended # {} \/ presence = 1 THEN Snapshot(pending', presence') ELSE shown
    /\ UNCHANGED <<link, sess, accounts>>

(* The application writes the ledger when it is dirty.                     *)
Save ==
    /\ dirty
    /\ saved' = ledger /\ dirty' = FALSE
    /\ UNCHANGED <<link, sess, ledger, pending, shown, roster, windows>>

(* A restart: the hub is built with an empty ledger, publishes its seeds,  *)
(* and then decodes the blob, which marks the ledger dirty, or keeps the   *)
(* empty ledger if the blob is damaged.                                    *)
Restart(intact) ==
    /\ link' = [s \in Slots |-> "none"]
    /\ sess' = [s \in Slots |-> NoSession]
    /\ ledger' = IF intact THEN saved ELSE [i \in Instances |-> NoEntry]
    /\ saved' = ledger'
    /\ dirty' = intact
    /\ pending' = [i \in Instances |-> NoKnock]
    /\ shown' = [waiting |-> {}, window |-> FALSE]
    /\ roster' = 0
    /\ pin' = PinClosed
    /\ presence' = 0

-----------------------------------------------------------------------------
Sessions ==
    \E s \in Slots :
       \/ \E b \in Bindings : Attach(s, b)
       \/ LoseLink(s)
       \/ FallSilent(s)
       \/ Revive(s)
       \/ EndSession(s)

Hello ==
    \E s \in Slots, t \in Tokens, v \in Reported, d \in DelegateRoles :
       \/ \E x \in Slots : HelloReattach(s, x, t, v, d)
       \/ \E i \in Instances, sid \in Sids : HelloFresh(s, i, t, v, d, sid)

Prove ==
    \E s \in Slots :
       \/ \E t \in Tokens : AuthRefused(s, t)
       \/ AuthAccepted(s)
       \/ PinRefused(s)
       \/ PinAccepted(s)

Ask ==
    \E s \in Slots, asked \in Asks :
       \/ KnockOnCable(s, asked)
       \/ KnockInWindow(s, asked)
       \/ KnockWastesWindow(s, asked)
       \/ KnockWaits(s, asked)

Administer ==
    \E a \in Slots :
       \/ \E i \in Instances, role \in Asks : PairApprove(a, i, role)
       \/ \E i \in Instances : ApproveGone(a, i)
       \/ \E i \in Instances : PairDeny(a, i)
       \/ \E i \in Instances : Revoke(a, i)
       \/ \E s \in Slots : Evict(a, s)

Application ==
    \/ OpenPairingWindow
    \/ ClosePairingWindow
    \/ OpenPresenceWindow
    \/ ClosePresenceWindow
    \/ \E i \in Instances, old \in Instances : ApproveAtMachine(i, old)
    \/ \E i \in Instances : GoneAtMachine(i)
    \/ DemoteAll
    \/ Update

(* The application asks dirty() after each call into the hub, and saves;   *)
(* the crash to fear is the one between the change and the save.           *)
Next ==
    \/ ~dirty /\ Sessions
    \/ ~dirty /\ Hello
    \/ ~dirty /\ Prove
    \/ ~dirty /\ Ask
    \/ ~dirty /\ Administer
    \/ ~dirty /\ Application
    \/ Save
    \/ \E intact \in BOOLEAN : Restart(intact)

Spec == Init /\ [][Next]_vars

-----------------------------------------------------------------------------
(* Type correctness.                                                       *)
TypeOK ==
    /\ link \in [Slots -> Bindings \cup {"none"}]
    /\ sess \in [Slots -> Session]
    /\ ledger \in [Instances -> Entry]
    /\ dirty \in BOOLEAN
    /\ saved \in [Instances -> Entry]
    /\ pending \in [Instances -> Knock]
    /\ shown \in [waiting : SUBSET Instances, window : BOOLEAN]
    /\ roster \in Nat
    /\ pin \in [left : 0 .. PairingWindow, fails : Nat]
    /\ presence \in 0 .. PairingWindow

(* A knock can be answered: it belongs to a session that is still there    *)
(* and that is the knocking device's (knocks die with their session,       *)
(* teardownSession and parkAndDetach; a reattach keeps id and device).     *)
KnocksAreBound ==
    \A i \in Waiting(pending) :
       \E s \in Occupied : sess[s].sid = pending[i].sid /\ sess[s].inst = i

(* A waiting re-approval is about a device in the ledger: what an operator *)
(* revoked, or a full ledger dropped, cannot come back by answering a      *)
(* question that was left in the list.                                     *)
ReapprovalIsKnown ==
    \A i \in Waiting(pending) : pending[i].reapproval => i \in Paired(ledger)

(* While a device is suspended its session may only look, whichever way it *)
(* presents its token: HELLO, AUTH, a resumed session.  The cable is its   *)
(* own proof.                                                              *)
SuspendedOnlyLooks ==
    \A s \in Occupied :
       (link[s] = "net" /\ ledger[sess[s].inst].state = "recognized_pending")
          => sess[s].role = Watch

(* The retained worklist names exactly the devices that wait: no path adds *)
(* or drops a knock without publishing it.                                 *)
WorklistIsCurrent == shown.waiting = Waiting(pending)

(* A ledger that is not marked dirty is the one in non-volatile memory, so *)
(* a restart loses only what the application was told to write.            *)
CleanIsSaved == ~dirty => saved = ledger

(* Whoever enters or leaves the ledger while the hub runs is counted in    *)
(* the retained roster by the end of the same handler.                     *)
MembershipIsAnnounced ==
    [][Paired(ledger') # Paired(ledger)
         => \/ roster' = Cardinality(Paired(ledger'))
            \/ \E intact \in BOOLEAN : Restart(intact)]_vars
=============================================================================
