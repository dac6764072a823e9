--------------------------- MODULE HubTrust_proofs ---------------------------
(***************************************************************************)
(* Theorems about HubTrust.  A handler changes the list of knocks by a few *)
(* operations (a knock is added, some are removed, some expire) and the    *)
(* ledger by a few others (a grant, a removal, an observation); the first  *)
(* lemmas say what these do to Waiting and Paired.                         *)
(***************************************************************************)
EXTENDS HubTrust, FiniteSetTheorems, TLAPS

Knocks  == [Instances -> Knock]
Ledgers == [Instances -> Entry]

(* The empty records of pairing.hpp and session.hpp have their types.      *)
LEMMA EmptyTypes ==
    /\ NoKnock \in Knock /\ NoEntry \in Entry /\ NoSession \in Session
    /\ NoKnock.sid = NoSid /\ ~NoKnock.reapproval
    /\ NoEntry.state = "none" /\ NoSession.sid = NoSid
  BY TrustConstants
     DEF TrustConstants, NoKnock, NoEntry, NoSession, Knock, Entry, Session, Roles,
         Watch, Configure

(* PendingPairingList::remove takes exactly the devices in who.            *)
LEMMA RemoveKnocks ==
    ASSUME NEW P \in Knocks, NEW who
    PROVE  /\ PendingRemove(P, who) \in Knocks
           /\ Waiting(PendingRemove(P, who)) = Waiting(P) \ who
           /\ \A i \in Instances \ who : PendingRemove(P, who)[i] = P[i]
           /\ \A i \in Instances \cap who : PendingRemove(P, who)[i] = NoKnock
  BY EmptyTypes DEF PendingRemove, Waiting, Knocks

(* PendingPairingList::add makes i wait on behalf of session sid.          *)
LEMMA AddKnock ==
    ASSUME NEW P \in Knocks, NEW i \in Instances, NEW sid \in Sids
    PROVE  /\ PendingAdd(P, i, sid) \in Knocks
           /\ Waiting(PendingAdd(P, i, sid)) = Waiting(P) \cup {i}
           /\ PendingAdd(P, i, sid)[i].sid = sid
           /\ \A j \in Instances \ {i} : PendingAdd(P, i, sid)[j] = P[j]
  BY TrustConstants DEF TrustConstants, PendingAdd, Knocks, Knock, Waiting

(* observeHello never makes or removes an entry.                           *)
LEMMA ObserveEntry ==
    ASSUME NEW e \in Entry, NEW v \in Versions \cup {NoVer}
    PROVE  /\ Observed(e, v) \in Entry
           /\ Observed(e, v).state = "none" <=> e.state = "none"
           /\ Observed(e, v).role = e.role
           /\ Suspends(e, v) => e.state = "trusted"
                                /\ Observed(e, v).state = "recognized_pending"
  BY DEF Observed, Entry, Suspends, VersionChanged

(* grant() makes an entry, trusted.                                        *)
LEMMA GrantEntry ==
    ASSUME NEW e \in Entry, NEW v \in Versions \cup {NoVer}, NEW role \in Roles
    PROVE  Granted(e, role, v) \in Entry /\ Granted(e, role, v).state = "trusted"
  BY DEF Granted, Entry

(* The roster counts a number of devices.                                  *)
LEMMA PairedIsCounted == \A L : Cardinality(Paired(L)) \in Nat
  <1>1. \A L : Paired(L) \subseteq Instances
    BY DEF Paired
  <1> QED
    BY <1>1, TrustConstants, FS_Subset, FS_CardinalityType DEF TrustConstants


-----------------------------------------------------------------------------
(* The inductive invariant.  A reapproval question is only ever asked      *)
(* about a device above watch, and nothing takes such a device out of the  *)
(* ledger or down to watch while the question stands: a full ledger drops  *)
(* watch entries only.                                                     *)
Named == \A s \in Slots : sess[s].sid # NoSid => sess[s].inst \in Instances
Asked(P, L) ==
    \A i \in Instances :
       P[i].reapproval => L[i].state # "none" /\ L[i].role # Watch
IInv == TypeOK /\ Named /\ Asked(pending, ledger) /\ WorklistIsCurrent /\ CleanIsSaved

Announced == Paired(ledger') # Paired(ledger) => roster' = Cardinality(Paired(ledger'))

Frames == [waiting : SUBSET Instances, window : BOOLEAN]

(* A published snapshot lists who waits.                                   *)
LEMMA SnapshotIs ==
    ASSUME NEW P, NEW w \in Nat
    PROVE  Snapshot(P, w) \in Frames /\ Snapshot(P, w).waiting = Waiting(P)
  BY DEF Snapshot, Frames, Waiting

(* A role on a link is a role.                                             *)
LEMMA TierIsRole ==
    ASSUME NEW s, NEW role \in Roles
    PROVE  TierOf(s, role) \in Roles
  BY DEF TierOf, Roles, Configure, Watch

(* A step that leaves the ledger alone and publishes what it does to the   *)
(* knocks.                                                                 *)
LEMMA QuietStep ==
    ASSUME IInv,
           link' \in [Slots -> Bindings \cup {"none"}],
           sess' \in [Slots -> Session], Named',
           UNCHANGED accounts,
           pending' \in Knocks,
           \A i \in Instances : pending'[i].reapproval => pending[i].reapproval,
           shown' \in Frames, shown'.waiting = Waiting(pending'),
           pin' \in [left : 0 .. PairingWindow, fails : Nat],
           presence' \in 0 .. PairingWindow
    PROVE  IInv' /\ Announced
  BY DEF IInv, TypeOK, accounts, Asked, WorklistIsCurrent, CleanIsSaved,
         Announced, Knocks, Frames

(* Knocks leave the list and the worklist is published if any did.         *)
LEMMA DropStep ==
    ASSUME IInv, NEW who,
           link' \in [Slots -> Bindings \cup {"none"}],
           sess' \in [Slots -> Session], Named',
           UNCHANGED accounts, UNCHANGED windows,
           pending' = PendingRemove(pending, who),
           \/ shown' = Snapshot(pending', presence)
           \/ who = {} /\ shown' = shown
    PROVE  IInv' /\ Announced
  <1>1. pending \in Knocks /\ presence \in Nat /\ presence \in 0 .. PairingWindow
        /\ pin \in [left : 0 .. PairingWindow, fails : Nat]
        /\ shown \in Frames /\ shown.waiting = Waiting(pending)
    BY TrustConstants DEF IInv, TypeOK, Knocks, Frames, WorklistIsCurrent, TrustConstants
  <1>2. /\ pending' \in Knocks
        /\ Waiting(pending') = Waiting(pending) \ who
        /\ \A i \in Instances : pending'[i].reapproval => pending[i].reapproval
    BY <1>1, RemoveKnocks, EmptyTypes
  <1>3. shown' \in Frames /\ shown'.waiting = Waiting(pending')
    BY <1>1, <1>2, SnapshotIs
  <1> QED
    BY <1>1, <1>2, <1>3, QuietStep DEF windows

(* teardownSession().                                                      *)
LEMMA TeardownStep ==
    ASSUME IInv, NEW gone, Teardown(gone), UNCHANGED <<link, accounts, windows>>
    PROVE  IInv' /\ Announced
  <1>1. sess' \in [Slots -> Session] /\ Named'
    BY EmptyTypes DEF IInv, TypeOK, Named, Teardown
  <1>2. link' \in [Slots -> Bindings \cup {"none"}]
    BY DEF IInv, TypeOK
  <1> DEFINE lost == KnocksOf({sess[s].sid : s \in gone})
  <1>3. /\ pending' = PendingRemove(pending, lost)
        /\ \/ shown' = Snapshot(pending', presence)
           \/ lost = {} /\ shown' = shown
    BY DEF Teardown
  <1> HIDE DEF lost
  <1> QED
    BY <1>1, <1>2, <1>3, DropStep


-----------------------------------------------------------------------------
(* Links and sessions.                                                     *)

(* What of a session changes keeps its type, its id and its device.        *)
LEMMA StaleField ==
    ASSUME NEW r \in Session, NEW b \in BOOLEAN
    PROVE  LET q == [r EXCEPT !.stale = b]
           IN  q \in Session /\ q.sid = r.sid /\ q.inst = r.inst
  BY DEF Session

(* A role is given.                                                        *)
LEMMA RoleField ==
    ASSUME NEW r \in Session, NEW role \in Roles
    PROVE  LET q == [r EXCEPT !.role = role]
           IN  q \in Session /\ q.sid = r.sid /\ q.inst = r.inst
  BY DEF Session

(* A failed proof is counted.                                              *)
LEMMA StrikesField ==
    ASSUME NEW r \in Session, NEW n \in 0 .. AuthStrikes
    PROVE  LET q == [r EXCEPT !.strikes = n]
           IN  q \in Session /\ q.sid = r.sid /\ q.inst = r.inst
  BY DEF Session

(* A strike count starts at zero.                                          *)
LEMMA NoStrikes == 0 \in 0 .. AuthStrikes
  BY TrustConstants DEF TrustConstants

(* parkAndDetach() keeps the id and the device.                            *)
LEMMA ParkedFields ==
    ASSUME NEW r \in Session
    PROVE  LET q == [r EXCEPT !.stale = TRUE, !.strikes = 0]
           IN  q \in Session /\ q.sid = r.sid /\ q.inst = r.inst
  BY NoStrikes DEF Session

(* handleAuth() keeps the id and the device.                               *)
LEMMA ProvenFields ==
    ASSUME NEW r \in Session, NEW role \in Roles
    PROVE  LET q == [r EXCEPT !.strikes = 0, !.role = role]
           IN  q \in Session /\ q.sid = r.sid /\ q.inst = r.inst
  BY NoStrikes DEF Session

(* handleReattach() keeps the id and the device.                           *)
LEMMA ResumedFields ==
    ASSUME NEW r \in Session, NEW v \in Versions \cup {NoVer}
    PROVE  LET q == [r EXCEPT !.ver = v, !.stale = FALSE, !.strikes = 0]
           IN  q \in Session /\ q.sid = r.sid /\ q.inst = r.inst
  BY NoStrikes DEF Session

(* One slot's session is replaced by one of the same id and device.        *)
LEMMA OneSlot ==
    ASSUME sess \in [Slots -> Session], Named, NEW s \in Slots, NEW r \in Session,
           r.sid = sess[s].sid, r.inst = sess[s].inst,
           sess' = [sess EXCEPT ![s] = r]
    PROVE  sess' \in [Slots -> Session] /\ Named'
  BY DEF Named

(* The knocks, the ledger and the windows stay as they are.                *)
LEMMA SlotsOnly ==
    ASSUME IInv, sess' \in [Slots -> Session], Named',
           link' \in [Slots -> Bindings \cup {"none"}],
           UNCHANGED <<accounts, pending, shown, windows>>
    PROVE  IInv' /\ Announced
  <1>1. pending' \in Knocks /\ shown' \in Frames /\ shown'.waiting = Waiting(pending')
    BY DEF IInv, TypeOK, Knocks, Frames, WorklistIsCurrent
  <1>2. presence' \in 0 .. PairingWindow
        /\ pin' \in [left : 0 .. PairingWindow, fails : Nat]
    BY DEF IInv, TypeOK, windows
  <1> QED
    BY <1>1, <1>2, QuietStep

(* attach().                                                               *)
LEMMA AttachStep ==
    ASSUME IInv, NEW s \in Slots, NEW b \in Bindings, Attach(s, b)
    PROVE  IInv' /\ Announced
  <1>1. /\ sess' \in [Slots -> Session] /\ Named'
        /\ link' \in [Slots -> Bindings \cup {"none"}]
    BY DEF IInv, TypeOK, Attach, Named
  <1> QED
    BY <1>1, SlotsOnly DEF Attach

(* parkAndDetach().                                                        *)
LEMMA LoseLinkStep ==
    ASSUME IInv, NEW s \in Slots, LoseLink(s)
    PROVE  IInv' /\ Announced
  <1> DEFINE r == [sess[s] EXCEPT !.stale = TRUE, !.strikes = 0]
             lost == KnocksOf({sess[s].sid})
  <1>1. link' \in [Slots -> Bindings \cup {"none"}]
    BY DEF IInv, TypeOK, LoseLink
  <1>2. CASE s \in Occupied /\ ~sess[s].stale
    <2>1. sess' \in [Slots -> Session] /\ Named'
      <3>1. sess[s] \in Session /\ sess \in [Slots -> Session] /\ Named
        BY DEF IInv, TypeOK
      <3>2. r \in Session /\ r.sid = sess[s].sid /\ r.inst = sess[s].inst
        BY <3>1, ParkedFields
      <3>3. sess' = [sess EXCEPT ![s] = r]
        BY <1>2 DEF LoseLink
      <3> HIDE DEF r
      <3> QED
        BY <3>1, <3>2, <3>3, OneSlot
    <2>2. /\ pending' = PendingRemove(pending, lost)
          /\ \/ shown' = Snapshot(pending', presence)
             \/ lost = {} /\ shown' = shown
      BY <1>2 DEF LoseLink
    <2>3. UNCHANGED accounts /\ UNCHANGED windows
      BY DEF LoseLink
    <2> HIDE DEF lost
    <2> QED
      BY <1>1, <2>1, <2>2, <2>3, DropStep
  <1>3. CASE ~(s \in Occupied /\ ~sess[s].stale)
    <2>1. UNCHANGED <<sess, pending, shown, accounts, windows>>
      BY <1>3 DEF LoseLink
    <2>2. sess' \in [Slots -> Session] /\ Named'
      BY <2>1 DEF IInv, TypeOK, Named
    <2> QED
      BY <1>1, <2>1, <2>2, SlotsOnly
  <1> QED
    BY <1>2, <1>3

(* A session is parked on its link, or heard again.                        *)
LEMMA SilenceStep ==
    ASSUME IInv, NEW s \in Slots, FallSilent(s) \/ Revive(s)
    PROVE  IInv' /\ Announced
  <1>1. PICK b \in BOOLEAN : sess' = [sess EXCEPT ![s] = [sess[s] EXCEPT !.stale = b]]
    BY DEF FallSilent, Revive
  <1>2. sess[s] \in Session /\ sess \in [Slots -> Session] /\ Named
    BY DEF IInv, TypeOK
  <1>3. sess' \in [Slots -> Session] /\ Named'
    BY <1>1, <1>2, StaleField, OneSlot
  <1>4. /\ link' \in [Slots -> Bindings \cup {"none"}]
        /\ UNCHANGED <<accounts, pending, shown, windows>>
    BY DEF FallSilent, Revive, IInv, TypeOK
  <1> QED
    BY <1>3, <1>4, SlotsOnly

(* GOODBYE, a timer, a reclaimed slot.                                     *)
LEMMA EndSessionStep ==
    ASSUME IInv, NEW s \in Slots, EndSession(s)
    PROVE  IInv' /\ Announced
  BY TeardownStep DEF EndSession

(* Every change of links and sessions.                                     *)
LEMMA SessionsStep ==
    ASSUME IInv, Sessions
    PROVE  IInv' /\ Announced
  BY AttachStep, LoseLinkStep, SilenceStep, EndSessionStep DEF Sessions


-----------------------------------------------------------------------------
(* HELLO and AUTH.                                                         *)

(* A verdict of the delegate or of the ledger is a role.                   *)
LEMMA ProofIsRole ==
    ASSUME ledger \in Ledgers, NEW i \in Instances, NEW t, NEW d \in Roles
    PROVE  /\ TokenRole(i, t, d) \in Roles
           /\ EffectiveRole(ledger[i]) \in Roles
  BY DEF TokenRole, Validate, EffectiveRole, Ledgers, Entry, Roles, Watch, Configure

(* applyTrustObservation(): the question it may queue is about a device    *)
(* above watch.                                                            *)
LEMMA TripwireKnocks ==
    ASSUME ledger \in Ledgers, NEW P \in Knocks, NEW i \in Instances,
           NEW sid \in Sids, NEW v \in Versions \cup {NoVer}, Asked(P, ledger)
    PROVE  LET Q == AfterTripwire(P, i, sid, v)
               L == [ledger EXCEPT ![i] = Observed(ledger[i], v)]
           IN  /\ Q \in Knocks /\ L \in Ledgers
               /\ Asked(Q, L) /\ Asked(P, L)
               /\ Paired(L) = Paired(ledger)
               /\ ~Suspends(ledger[i], v) => Q = P
  <1> DEFINE Q == AfterTripwire(P, i, sid, v)
             L == [ledger EXCEPT ![i] = Observed(ledger[i], v)]
             A == PendingAdd(P, i, sid)
  <1>1. ledger[i] \in Entry
    BY DEF Ledgers
  <1>2. /\ Observed(ledger[i], v) \in Entry
        /\ Observed(ledger[i], v).state = "none" <=> ledger[i].state = "none"
        /\ Observed(ledger[i], v).role = ledger[i].role
    BY <1>1, ObserveEntry
  <1>3. L \in Ledgers /\ Paired(L) = Paired(ledger)
    BY <1>2 DEF Ledgers, Paired
  <1>4. \A K : Asked(K, ledger) => Asked(K, L)
    BY <1>2 DEF Asked, Ledgers
  <1>5. CASE Suspends(ledger[i], v) /\ HasRoom(P, i)
    <2>1. Q = [A EXCEPT ![i].reapproval = TRUE]
      BY <1>5 DEF AfterTripwire
    <2>2. A \in Knocks /\ \A j \in Instances \ {i} : A[j] = P[j]
      BY AddKnock
    <2> HIDE DEF A, Q
    <2>3. Q \in Knocks /\ \A j \in Instances \ {i} : Q[j] = P[j]
      <3>1. [A[i] EXCEPT !.reapproval = TRUE] \in Knock
        BY <2>2 DEF Knocks, Knock
      <3>2. Q = [A EXCEPT ![i] = [A[i] EXCEPT !.reapproval = TRUE]]
        BY <2>1
      <3> QED
        BY <2>2, <3>1, <3>2 DEF Knocks
    <2>4. ledger[i].state # "none" /\ ledger[i].role # Watch
      BY <1>1, <1>5, TrustConstants
         DEF Suspends, VersionChanged, Entry, TrustConstants, Roles, Watch, Configure
    <2>5. Asked(Q, ledger)
      BY <2>3, <2>4 DEF Asked
    <2> QED
      BY <1>3, <1>4, <1>5, <2>3, <2>5 DEF Q
  <1>6. CASE ~(Suspends(ledger[i], v) /\ HasRoom(P, i))
    BY <1>3, <1>4, <1>6 DEF AfterTripwire
  <1> QED
    BY <1>5, <1>6

(* Removing knocks leaves no question behind.                              *)
LEMMA RemoveAsked ==
    ASSUME NEW P \in Knocks, NEW L, NEW who, Asked(P, L)
    PROVE  Asked(PendingRemove(P, who), L)
  BY RemoveKnocks, EmptyTypes DEF Asked

(* The tail of handleHello() and handleReattach().                         *)
LEMMA AdmitStep ==
    ASSUME IInv, NEW s \in Slots, NEW i \in Instances, NEW base \in Session,
           base.sid \in Sids, base.inst = i,
           NEW gone, NEW lost, NEW t, NEW v \in Versions \cup {NoVer},
           NEW role \in Roles,
           Admit(s, i, base, gone, lost, t, v, role),
           link' \in [Slots -> Bindings \cup {"none"}]
    PROVE  IInv' /\ Announced
  <1> DEFINE kept    == PendingRemove(pending, lost)
             L       == [ledger EXCEPT ![i] = Observed(ledger[i], v)]
             Q       == AfterTripwire(kept, i, base.sid, v)
             after   == IF t # "absent" THEN Observed(ledger[i], v) ELSE ledger[i]
             settled == IF t # "absent" /\ ledger[i].state # "none"
                        THEN EffectiveRole(after) ELSE role
             fires   == t # "absent" /\ Suspends(ledger[i], v)
  <1>1. /\ pending \in Knocks /\ ledger \in Ledgers /\ presence \in Nat
        /\ presence \in 0 .. PairingWindow /\ shown \in Frames
        /\ shown.waiting = Waiting(pending)
        /\ Asked(pending, ledger) /\ sess \in [Slots -> Session] /\ Named
        /\ ledger[i] \in Entry
    BY TrustConstants
       DEF IInv, TypeOK, Knocks, Ledgers, Frames, WorklistIsCurrent, TrustConstants
  <1>2. /\ kept \in Knocks /\ Asked(kept, ledger)
        /\ Waiting(kept) = Waiting(pending) \ lost
    BY <1>1, RemoveKnocks, RemoveAsked
  <1> HIDE DEF kept
  <1>3. /\ Q \in Knocks /\ L \in Ledgers /\ Asked(Q, L) /\ Asked(kept, L)
        /\ Paired(L) = Paired(ledger)
        /\ ~Suspends(ledger[i], v) => Q = kept
    BY <1>1, <1>2, TripwireKnocks
  <1>4. /\ ledger' = [ledger EXCEPT ![i] = after]
        /\ pending' = IF t # "absent" THEN Q ELSE kept
        /\ dirty' = (dirty \/ (t # "absent" /\ Disturbs(ledger[i], v)))
        /\ shown' = IF lost # {} \/ fires THEN Snapshot(pending', presence) ELSE shown
        /\ roster' = IF fires THEN Cardinality(Paired(ledger')) ELSE roster
        /\ UNCHANGED <<saved, pin, presence>>
    BY DEF Admit, kept, windows
  <1> HIDE DEF Q
  <1>5. /\ ledger' \in Ledgers /\ Paired(ledger') = Paired(ledger)
        /\ pending' \in Knocks /\ Asked(pending', ledger')
    <2>1. CASE t # "absent"
      <3>1. ledger' = L /\ pending' = Q
        BY <1>4, <2>1
      <3> QED
        BY <1>3, <3>1
    <2>2. CASE t = "absent"
      <3>1. ledger' = ledger /\ pending' = kept
        BY <1>1, <1>4, <2>2 DEF Ledgers
      <3> QED
        BY <1>1, <1>2, <3>1
    <2> QED
      BY <2>1, <2>2
  <1>6. shown' \in Frames /\ shown'.waiting = Waiting(pending')
    <2>1. CASE lost # {} \/ fires
      BY <1>1, <1>4, <2>1, SnapshotIs
    <2>2. CASE lost = {} /\ ~fires
      <3>1. pending' = kept
        BY <1>3, <1>4, <2>2
      <3> QED
        BY <1>1, <1>2, <1>4, <2>2, <3>1
    <2> QED
      BY <2>1, <2>2
  <1>7. sess' \in [Slots -> Session] /\ Named'
    <2>1. settled \in Roles
      <3>1. Observed(ledger[i], v) \in Entry
        BY <1>1, ObserveEntry
      <3>2. after \in Entry
        BY <1>1, <3>1
      <3>3. EffectiveRole(after) \in Roles
        BY <3>2 DEF EffectiveRole, Entry, Roles, Watch, Configure
      <3> QED
        BY <3>3
    <2> HIDE DEF settled
    <2>2. TierOf(s, settled) \in Roles
      BY <2>1, TierIsRole
    <2> DEFINE new == [base EXCEPT !.role = TierOf(s, settled)]
    <2>3. new \in Session /\ new.sid = base.sid /\ new.inst = i
      BY <2>2, RoleField
    <2>4. sess' = [x \in Slots |->
                     IF x = s THEN new
                     ELSE IF x \in gone THEN NoSession ELSE sess[x]]
      BY DEF Admit, settled
    <2> HIDE DEF new
    <2> QED
      BY <1>1, <2>3, <2>4, EmptyTypes DEF Named
  <1>8. CleanIsSaved'
    <2>1. CASE t # "absent" /\ Disturbs(ledger[i], v)
      BY <1>4, <2>1 DEF CleanIsSaved
    <2>2. CASE ~(t # "absent" /\ Disturbs(ledger[i], v))
      <3>1. after = ledger[i]
        BY <2>2 DEF Disturbs
      <3>2. ledger' = ledger /\ dirty' = dirty
        BY <1>1, <1>4, <2>2, <3>1 DEF Ledgers, IInv, TypeOK
      <3> QED
        BY <1>4, <3>2 DEF IInv, CleanIsSaved
    <2> QED
      BY <2>1, <2>2
  <1>9. dirty' \in BOOLEAN /\ roster' \in Nat
    BY <1>4, PairedIsCounted DEF IInv, TypeOK
  <1>10. Announced
    BY <1>5 DEF Announced
  <1> QED
    BY <1>1, <1>4, <1>5, <1>6, <1>7, <1>8, <1>9, <1>10
       DEF IInv, TypeOK, Knocks, Ledgers, Frames, WorklistIsCurrent


(* handleHello() and handleReattach().                                     *)
LEMMA HelloStep ==
    ASSUME IInv, Hello
    PROVE  IInv' /\ Announced
  <1>1. PICK s \in Slots, t \in Tokens, v \in Reported, d \in DelegateRoles :
          \/ \E x \in Slots : HelloReattach(s, x, t, v, d)
          \/ \E i \in Instances, sid \in Sids : HelloFresh(s, i, t, v, d, sid)
    BY DEF Hello
  <1>2. v \in Versions \cup {NoVer} /\ d \in Roles
    BY TrustConstants DEF TrustConstants
  <1>3. sess \in [Slots -> Session] /\ Named /\ ledger \in Ledgers
    BY DEF IInv, TypeOK, Ledgers
  <1>4. ASSUME NEW x \in Slots, HelloReattach(s, x, t, v, d)
        PROVE  IInv' /\ Announced
    <2> DEFINE i    == sess[x].inst
               base == [sess[x] EXCEPT !.ver = v, !.stale = FALSE, !.strikes = 0]
               lost == KnocksOf({sess[s].sid})
    <2>1. sess[x] \in Session /\ sess[x].sid # NoSid /\ i \in Instances
      BY <1>3, <1>4 DEF HelloReattach, Occupied, Named
    <2>2. base \in Session /\ base.sid = sess[x].sid /\ base.inst = i
      BY <1>2, <2>1, ResumedFields
    <2>3. base.sid \in Sids /\ sess[x].role \in Roles
      BY <2>1, <2>2 DEF Session
    <2>4. Admit(s, i, base, {x}, lost, t, v, sess[x].role)
      BY <1>4 DEF HelloReattach
    <2>5. link' \in [Slots -> Bindings \cup {"none"}]
      BY <1>4 DEF HelloReattach, IInv, TypeOK
    <2> HIDE DEF base, lost
    <2> QED
      BY <1>2, <2>1, <2>2, <2>3, <2>4, <2>5, AdmitStep
  <1>5. ASSUME NEW i \in Instances, NEW sid \in Sids, HelloFresh(s, i, t, v, d, sid)
        PROVE  IInv' /\ Announced
    <2> DEFINE base == [NoSession EXCEPT !.sid = sid, !.inst = i, !.ver = v]
               role == TierOf(s, TokenRole(i, t, d))
               dups == SlotsNaming(i, s)
               lost == KnocksOf({sess[x].sid : x \in dups \cup {s}})
    <2>1. base \in Session /\ base.sid = sid /\ base.inst = i
      BY <1>2, EmptyTypes DEF Session
    <2>2. role \in Roles
      BY <1>2, <1>3, ProofIsRole, TierIsRole
    <2>3. Admit(s, i, base, dups, lost, t, v, role)
      BY <1>5 DEF HelloFresh
    <2>4. link' \in [Slots -> Bindings \cup {"none"}]
      BY <1>5 DEF HelloFresh, IInv, TypeOK
    <2> HIDE DEF base, lost, dups, role
    <2> QED
      BY <1>2, <2>1, <2>2, <2>3, <2>4, AdmitStep
  <1> QED
    BY <1>1, <1>4, <1>5

(* A live session has an id and names a device.                            *)
LEMMA LiveIs ==
    ASSUME IInv, NEW s \in Slots, Live(s)
    PROVE  /\ sess[s] \in Session /\ sess[s].sid \in Sids
           /\ sess[s].inst \in Instances /\ sess[s].ver \in Versions \cup {NoVer}
  BY DEF IInv, TypeOK, Named, Live, Occupied, Session

(* handleAuth() with a wrong proof.                                        *)
LEMMA AuthRefusedStep ==
    ASSUME IInv, NEW s \in Slots, NEW t, AuthRefused(s, t)
    PROVE  IInv' /\ Announced
  <1>1. sess[s] \in Session /\ sess \in [Slots -> Session] /\ Named
    BY DEF IInv, TypeOK
  <1>2. UNCHANGED <<link, accounts, windows>>
    BY DEF AuthRefused
  <1>3. CASE sess[s].strikes + 1 < AuthStrikes
    <2> DEFINE n == sess[s].strikes + 1
    <2>1. n \in 0 .. AuthStrikes
      BY <1>1, <1>3, TrustConstants DEF Session, TrustConstants
    <2>2. /\ sess' = [sess EXCEPT ![s] = [sess[s] EXCEPT !.strikes = n]]
          /\ UNCHANGED <<pending, shown>>
      BY <1>3 DEF AuthRefused
    <2> HIDE DEF n
    <2>3. sess' \in [Slots -> Session] /\ Named'
      BY <1>1, <2>1, <2>2, StrikesField, OneSlot
    <2>4. link' \in [Slots -> Bindings \cup {"none"}]
      BY <1>2 DEF IInv, TypeOK
    <2> QED
      BY <1>2, <2>2, <2>3, <2>4, SlotsOnly
  <1>4. CASE ~(sess[s].strikes + 1 < AuthStrikes)
    <2>1. Teardown({s})
      BY <1>4 DEF AuthRefused
    <2> QED
      BY <1>2, <2>1, TeardownStep
  <1> QED
    BY <1>3, <1>4

(* handleAuth() with the right one; the tripwire runs.                     *)
LEMMA AuthAcceptedStep ==
    ASSUME IInv, NEW s \in Slots, AuthAccepted(s)
    PROVE  IInv' /\ Announced
  <1> DEFINE i == sess[s].inst
             v == sess[s].ver
             L == [ledger EXCEPT ![i] = Observed(ledger[i], v)]
             Q == AfterTripwire(pending, i, sess[s].sid, v)
  <1>1. /\ sess[s] \in Session /\ sess[s].sid \in Sids /\ i \in Instances
        /\ v \in Versions \cup {NoVer}
    BY LiveIs DEF AuthAccepted
  <1>2. /\ pending \in Knocks /\ ledger \in Ledgers /\ presence \in Nat
        /\ shown \in Frames /\ shown.waiting = Waiting(pending)
        /\ Asked(pending, ledger) /\ sess \in [Slots -> Session] /\ Named
        /\ ledger[i] \in Entry
    BY <1>1, TrustConstants
       DEF IInv, TypeOK, Knocks, Ledgers, Frames, WorklistIsCurrent, TrustConstants
  <1>3. /\ Q \in Knocks /\ L \in Ledgers /\ Asked(Q, L)
        /\ Paired(L) = Paired(ledger)
        /\ ~Suspends(ledger[i], v) => Q = pending
    BY <1>1, <1>2, TripwireKnocks
  <1>4. /\ ledger' = L /\ pending' = Q
        /\ dirty' = (dirty \/ Disturbs(ledger[i], v))
        /\ shown' = IF Suspends(ledger[i], v) THEN Snapshot(pending', presence) ELSE shown
        /\ roster' = Cardinality(Paired(ledger'))
        /\ UNCHANGED <<link, saved, pin, presence>>
    BY DEF AuthAccepted, windows
  <1>5. sess' \in [Slots -> Session] /\ Named'
    <2> DEFINE role == TierOf(s, EffectiveRole(ledger'[i]))
    <2>1. EffectiveRole(ledger'[i]) \in Roles
      BY <1>1, <1>3, <1>4 DEF EffectiveRole, Ledgers, Entry, Roles, Watch, Configure
    <2>2. role \in Roles
      BY <2>1, TierIsRole
    <2>3. sess' = [sess EXCEPT ![s] = [sess[s] EXCEPT !.strikes = 0, !.role = role]]
      BY DEF AuthAccepted
    <2> HIDE DEF role
    <2> QED
      BY <1>1, <1>2, <2>2, <2>3, ProvenFields, OneSlot
  <1> HIDE DEF Q
  <1>6. shown' \in Frames /\ shown'.waiting = Waiting(pending')
    <2>1. CASE Suspends(ledger[i], v)
      BY <1>2, <1>4, <2>1, SnapshotIs
    <2>2. CASE ~Suspends(ledger[i], v)
      BY <1>2, <1>3, <1>4, <2>2
    <2> QED
      BY <2>1, <2>2
  <1>7. CleanIsSaved'
    <2>1. CASE Disturbs(ledger[i], v)
      BY <1>4, <2>1 DEF CleanIsSaved
    <2>2. CASE ~Disturbs(ledger[i], v)
      <3>1. Observed(ledger[i], v) = ledger[i]
        BY <2>2 DEF Disturbs
      <3>2. ledger' = ledger /\ dirty' = dirty
        BY <1>2, <1>4, <2>2, <3>1 DEF Ledgers, IInv, TypeOK
      <3> QED
        BY <1>4, <3>2 DEF IInv, CleanIsSaved
    <2> QED
      BY <2>1, <2>2
  <1>8. dirty' \in BOOLEAN /\ roster' \in Nat
    BY <1>4, PairedIsCounted DEF IInv, TypeOK
  <1>9. Announced
    BY <1>4 DEF Announced
  <1> QED
    BY <1>3, <1>4, <1>5, <1>6, <1>7, <1>8, <1>9
       DEF IInv, TypeOK, Knocks, Ledgers, Frames, WorklistIsCurrent


-----------------------------------------------------------------------------
(* Pairing: the PIN, the knocks, the grants.                               *)

(* handlePairReq() with a wrong PIN.                                       *)
LEMMA PinRefusedStep ==
    ASSUME IInv, NEW s \in Slots, PinRefused(s)
    PROVE  IInv' /\ Announced
  <1>1. /\ sess' \in [Slots -> Session] /\ Named'
        /\ link' \in [Slots -> Bindings \cup {"none"}]
        /\ pending' \in Knocks /\ shown' \in Frames
        /\ shown'.waiting = Waiting(pending')
        /\ presence' \in 0 .. PairingWindow
    BY DEF IInv, TypeOK, PinRefused, Named, Knocks, Frames, WorklistIsCurrent
  <1>2. pin' \in [left : 0 .. PairingWindow, fails : Nat]
    BY TrustConstants DEF IInv, TypeOK, PinRefused, PinClosed, TrustConstants
  <1>3. UNCHANGED accounts /\ pending' = pending
    BY DEF PinRefused
  <1> QED
    BY <1>1, <1>2, <1>3, QuietStep

(* No question stands about device i if it is given watch, nor about any   *)
(* other whose entry L changes.                                            *)
Spared(i, role, L) ==
    \A j \in Instances :
       pending'[j].reapproval =>
          /\ pending[j].reapproval
          /\ j = i => role # Watch
          /\ j # i => L[j] = ledger[j]

(* A device enters the ledger at a role above watch, or with no question   *)
(* about it in the list; whoever leaves it had none either.                *)
LEMMA GrantStep ==
    ASSUME IInv, NEW s \in Slots, NEW i \in Instances, NEW role \in Roles,
           NEW tier \in Roles, NEW L \in Ledgers,
           ledger' = [L EXCEPT ![i] = Granted(L[i], role, sess[s].ver)],
           dirty' = TRUE,
           sess' = [sess EXCEPT ![s].role = tier],
           roster' = Cardinality(Paired(ledger')),
           UNCHANGED <<link, saved>>,
           pending' \in Knocks,
           Spared(i, role, L),
           shown' \in Frames, shown'.waiting = Waiting(pending'),
           pin' \in [left : 0 .. PairingWindow, fails : Nat],
           presence' \in 0 .. PairingWindow
    PROVE  IInv' /\ Announced
  <1>1. sess[s] \in Session /\ sess \in [Slots -> Session] /\ Named
        /\ sess[s].ver \in Versions \cup {NoVer} /\ L[i] \in Entry
    BY DEF IInv, TypeOK, Session, Ledgers
  <1>2. /\ Granted(L[i], role, sess[s].ver) \in Entry
        /\ Granted(L[i], role, sess[s].ver).state = "trusted"
        /\ Granted(L[i], role, sess[s].ver).role = role
    BY <1>1, GrantEntry DEF Granted
  <1>3. /\ ledger' \in Ledgers
        /\ ledger'[i].state = "trusted" /\ ledger'[i].role = role
        /\ \A j \in Instances \ {i} : ledger'[j] = L[j]
    BY <1>2 DEF Ledgers
  <1>4. Asked(pending', ledger')
    BY <1>3 DEF IInv, Asked, Spared
  <1>5. sess' \in [Slots -> Session] /\ Named'
    BY <1>1, RoleField, OneSlot
  <1>6. roster' \in Nat
    BY PairedIsCounted
  <1> QED
    BY <1>3, <1>4, <1>5, <1>6
       DEF IInv, TypeOK, Knocks, Ledgers, Frames, WorklistIsCurrent, CleanIsSaved,
           Announced

(* handlePairReq() with the right one: control is above watch.             *)
LEMMA PinAcceptedStep ==
    ASSUME IInv, NEW s \in Slots, PinAccepted(s)
    PROVE  IInv' /\ Announced
  <1>1. sess[s].inst \in Instances
    BY LiveIs DEF PinAccepted
  <1>2. /\ Control \in Roles /\ Control # Watch
    BY DEF Control, Roles, Watch, Configure
  <1>3. /\ ledger \in Ledgers /\ pending' \in Knocks /\ shown' \in Frames
        /\ shown'.waiting = Waiting(pending') /\ presence' \in 0 .. PairingWindow
        /\ pin' \in [left : 0 .. PairingWindow, fails : Nat]
    BY DEF IInv, TypeOK, PinAccepted, Knocks, Ledgers, Frames, WorklistIsCurrent
  <1>4. /\ ledger' = [ledger EXCEPT ![sess[s].inst] =
                          Granted(ledger[sess[s].inst], Control, sess[s].ver)]
        /\ dirty' = TRUE /\ sess' = [sess EXCEPT ![s].role = Control]
        /\ roster' = Cardinality(Paired(ledger'))
        /\ UNCHANGED <<link, saved>> /\ pending' = pending
    BY DEF PinAccepted
  <1>5. Spared(sess[s].inst, Control, ledger)
    BY <1>2, <1>4 DEF Spared
  <1> QED
    BY <1>1, <1>2, <1>3, <1>4, <1>5, GrantStep

(* issuePairGrant(), from the ledger as it is or without an entry about    *)
(* which nothing is asked.                                                 *)
LEMMA IssueStep ==
    ASSUME IInv, NEW s \in Slots, NEW i \in Instances, NEW role \in Roles,
           NEW L \in Ledgers,
           \A j \in Instances \ {i} : pending[j].reapproval => L[j] = ledger[j],
           NEW window \in 0 .. PairingWindow,
           IssuePairGrant(s, i, role, L, window)
    PROVE  IInv' /\ Announced
  <1>1. pending \in Knocks /\ window \in Nat /\ TierOf(s, role) \in Roles
        /\ pin \in [left : 0 .. PairingWindow, fails : Nat]
    BY TierIsRole, TrustConstants DEF IInv, TypeOK, Knocks, TrustConstants
  <1>2. /\ pending' = PendingRemove(pending, {i})
        /\ shown' = Snapshot(pending', window)
        /\ presence' = window /\ pin' = pin
    BY DEF IssuePairGrant
  <1>3. /\ pending' \in Knocks /\ pending'[i] = NoKnock
        /\ \A j \in Instances \ {i} : pending'[j] = pending[j]
    BY <1>1, <1>2, RemoveKnocks
  <1>4. Spared(i, role, L)
    BY <1>3, EmptyTypes DEF Spared
  <1>5. shown' \in Frames /\ shown'.waiting = Waiting(pending')
    BY <1>1, <1>2, SnapshotIs
  <1>6. /\ ledger' = [L EXCEPT ![i] = Granted(L[i], role, sess[s].ver)]
        /\ dirty' = TRUE
        /\ sess' = [sess EXCEPT ![s].role = TierOf(s, role)]
        /\ roster' = Cardinality(Paired(ledger'))
        /\ UNCHANGED <<link, saved>>
    BY DEF IssuePairGrant
  <1>7. /\ pin' \in [left : 0 .. PairingWindow, fails : Nat]
        /\ presence' \in 0 .. PairingWindow
    BY <1>1, <1>2
  <1> DEFINE tier == TierOf(s, role)
  <1>8. tier \in Roles /\ sess' = [sess EXCEPT ![s].role = tier]
    BY <1>1, <1>6
  <1> HIDE DEF tier
  <1> QED
    BY <1>3, <1>4, <1>5, <1>6, <1>7, <1>8, GrantStep

(* Every proof.                                                            *)
LEMMA ProveStep ==
    ASSUME IInv, Prove
    PROVE  IInv' /\ Announced
  BY AuthRefusedStep, AuthAcceptedStep, PinRefusedStep, PinAcceptedStep DEF Prove


(* handleKnock().                                                          *)
LEMMA AskStep ==
    ASSUME IInv, Ask
    PROVE  IInv' /\ Announced
  <1>1. PICK s \in Slots, asked \in Asks :
          \/ KnockOnCable(s, asked) \/ KnockInWindow(s, asked)
          \/ KnockWastesWindow(s, asked) \/ KnockWaits(s, asked)
    BY DEF Ask
  <1> DEFINE i == sess[s].inst
  <1>2. asked \in Roles /\ Configure \in Roles /\ PresenceGrantRole \in Roles
        /\ 0 \in 0 .. PairingWindow
    BY TrustConstants
       DEF TrustConstants, PresenceGrantRole, Roles, Watch, Configure
  <1>3. i \in Instances /\ sess[s].sid \in Sids
    BY <1>1, LiveIs DEF KnockOnCable, KnockInWindow, KnockWastesWindow, KnockWaits
  <1>4. /\ ledger \in Ledgers /\ pending \in Knocks /\ shown \in Frames
        /\ shown.waiting = Waiting(pending)
        /\ presence \in 0 .. PairingWindow /\ presence \in Nat
        /\ pin \in [left : 0 .. PairingWindow, fails : Nat]
        /\ sess \in [Slots -> Session] /\ Named
        /\ link \in [Slots -> Bindings \cup {"none"}]
    BY TrustConstants
       DEF IInv, TypeOK, Knocks, Ledgers, Frames, WorklistIsCurrent, TrustConstants
  <1>5. CASE KnockOnCable(s, asked)
    <2> DEFINE role == IF asked # Watch THEN asked ELSE Configure
    <2>1. role \in Roles /\ IssuePairGrant(s, i, role, ledger, presence)
      BY <1>2, <1>5 DEF KnockOnCable
    <2> HIDE DEF role
    <2> QED
      BY <1>3, <1>4, <2>1, IssueStep
  <1>6. CASE KnockInWindow(s, asked)
    <2> DEFINE role == IF asked # Watch THEN asked ELSE PresenceGrantRole
    <2>1. role \in Roles /\ IssuePairGrant(s, i, role, ledger, 0)
      BY <1>2, <1>6 DEF KnockInWindow
    <2> HIDE DEF role
    <2> QED
      BY <1>2, <1>3, <1>4, <2>1, IssueStep
  <1>7. CASE KnockWastesWindow(s, asked)
    <2>1. /\ UNCHANGED <<link, sess, pending, shown, pin>> /\ UNCHANGED accounts
          /\ presence' = 0
      BY <1>7 DEF KnockWastesWindow
    <2>2. Named'
      BY <1>4, <2>1 DEF Named
    <2>3. Waiting(pending') = Waiting(pending)
      BY <2>1
    <2> QED
      BY <1>2, <1>4, <2>1, <2>2, <2>3, QuietStep
  <1>8. CASE KnockWaits(s, asked)
    <2> DEFINE A == PendingAdd(pending, i, sess[s].sid)
    <2>1. A \in Knocks /\ \A j \in Instances \ {i} : A[j] = pending[j]
      BY <1>3, <1>4, AddKnock
    <2>2. A[i].reapproval = pending[i].reapproval
      BY <1>3, <1>4 DEF PendingAdd, Knocks, Knock
    <2>3. /\ pending' = [A EXCEPT ![i].asked = asked]
          /\ shown' = Snapshot(pending', presence)
          /\ UNCHANGED <<link, sess, pin, presence>> /\ UNCHANGED accounts
      BY <1>8 DEF KnockWaits, windows
    <2> HIDE DEF A
    <2>4. /\ pending' \in Knocks
          /\ \A j \in Instances : pending'[j].reapproval = A[j].reapproval
      BY <1>2, <2>1, <2>3 DEF Knocks, Knock
    <2>5. \A j \in Instances : pending'[j].reapproval => pending[j].reapproval
      BY <2>1, <2>2, <2>4
    <2>6. shown' \in Frames /\ shown'.waiting = Waiting(pending')
      BY <1>4, <2>3, SnapshotIs
    <2>7. Named'
      BY <1>4, <2>3 DEF Named
    <2> QED
      BY <1>4, <2>3, <2>4, <2>5, <2>6, <2>7, QuietStep
  <1> QED
    BY <1>1, <1>5, <1>6, <1>7, <1>8

-----------------------------------------------------------------------------
(* The administrator and the application.                                  *)

(* An answer to a knock whose session has no link.                         *)
LEMMA KnockerGoneStep ==
    ASSUME IInv, NEW i \in Instances, KnockerGone(i)
    PROVE  IInv' /\ Announced
  <1>1. /\ sess' \in [Slots -> Session] /\ Named'
        /\ link' \in [Slots -> Bindings \cup {"none"}]
    BY DEF IInv, TypeOK, KnockerGone, Named
  <1> QED
    BY <1>1, DropStep DEF KnockerGone

(* A device leaves the ledger, and the question about it the list.         *)
LEMMA ForgetStep ==
    ASSUME IInv, NEW i \in Instances, i \in Paired(ledger),
           ledger' = [ledger EXCEPT ![i] = NoEntry], dirty' = TRUE,
           pending' = PendingRemove(pending, {i}),
           shown' = Snapshot(pending', presence),
           roster' = Cardinality(Paired(ledger')),
           UNCHANGED <<link, sess, saved, pin, presence>>
    PROVE  IInv' /\ Announced
  <1>1. pending \in Knocks /\ presence \in Nat /\ ledger \in Ledgers
        /\ Asked(pending, ledger)
    BY TrustConstants DEF IInv, TypeOK, Knocks, Ledgers, TrustConstants
  <1>2. /\ pending' \in Knocks /\ pending'[i] = NoKnock
        /\ \A j \in Instances \ {i} : pending'[j] = pending[j]
    BY <1>1, RemoveKnocks
  <1>3. /\ ledger' \in Ledgers
        /\ \A j \in Instances \ {i} : ledger'[j] = ledger[j]
    BY <1>1, EmptyTypes DEF Ledgers
  <1>4. Asked(pending', ledger')
    BY <1>1, <1>2, <1>3, EmptyTypes DEF Asked
  <1>5. shown' \in Frames /\ shown'.waiting = Waiting(pending')
    BY <1>1, SnapshotIs
  <1>6. roster' \in Nat
    BY PairedIsCounted
  <1> QED
    BY <1>2, <1>3, <1>4, <1>5, <1>6
       DEF IInv, TypeOK, Named, Knocks, Ledgers, Frames, WorklistIsCurrent,
           CleanIsSaved, Announced

(* pair_deny: a denied re-approval forgets a device of the ledger.         *)
LEMMA PairDenyStep ==
    ASSUME IInv, NEW a \in Slots, NEW i \in Instances, PairDeny(a, i)
    PROVE  IInv' /\ Announced
  <1>1. CASE pending[i].reapproval
    <2>1. i \in Paired(ledger)
      BY <1>1 DEF IInv, Asked, Paired
    <2> QED
      BY <1>1, <2>1, ForgetStep DEF PairDeny, windows
  <1>2. CASE ~pending[i].reapproval
    <2>1. /\ sess' \in [Slots -> Session] /\ Named'
          /\ link' \in [Slots -> Bindings \cup {"none"}]
      BY DEF IInv, TypeOK, PairDeny, Named
    <2>2. UNCHANGED accounts /\ UNCHANGED windows
      BY <1>2 DEF PairDeny, accounts
    <2> QED
      BY <2>1, <2>2, DropStep DEF PairDeny
  <1> QED
    BY <1>1, <1>2

(* handleAdminIntent().                                                    *)
LEMMA AdministerStep ==
    ASSUME IInv, Administer
    PROVE  IInv' /\ Announced
  <1>1. PICK a \in Slots :
          \/ \E i \in Instances, role \in Asks : PairApprove(a, i, role)
          \/ \E i \in Instances : ApproveGone(a, i)
          \/ \E i \in Instances : PairDeny(a, i)
          \/ \E i \in Instances : Revoke(a, i)
          \/ \E s \in Slots : Evict(a, s)
    BY DEF Administer
  <1>2. ASSUME NEW i \in Instances, NEW role \in Asks, PairApprove(a, i, role)
        PROVE  IInv' /\ Announced
    <2>1. PICK j \in SlotsOf(pending[i].sid) :
             IssuePairGrant(j, i, role, ledger, presence)
      BY <1>2 DEF PairApprove
    <2>2. j \in Slots /\ role \in Roles
      BY TrustConstants DEF SlotsOf, Occupied, TrustConstants
    <2>3. ledger \in Ledgers /\ presence \in 0 .. PairingWindow
      BY DEF IInv, TypeOK, Ledgers
    <2> QED
      BY <2>1, <2>2, <2>3, IssueStep
  <1>3. ASSUME NEW i \in Instances, ApproveGone(a, i)
        PROVE  IInv' /\ Announced
    BY <1>3, KnockerGoneStep DEF ApproveGone
  <1>4. ASSUME NEW i \in Instances, Revoke(a, i)
        PROVE  IInv' /\ Announced
    BY <1>4, ForgetStep DEF Revoke, windows
  <1>5. ASSUME NEW s \in Slots, Evict(a, s)
        PROVE  IInv' /\ Announced
    BY <1>5, TeardownStep DEF Evict
  <1> QED
    BY <1>1, <1>2, <1>3, <1>4, <1>5, PairDenyStep


(* The windows open and close; the worklist says whether one is open.      *)
LEMMA WindowStep ==
    ASSUME IInv,
           \/ OpenPairingWindow \/ ClosePairingWindow
           \/ OpenPresenceWindow \/ ClosePresenceWindow
    PROVE  IInv' /\ Announced
  <1>1. /\ 0 \in 0 .. PairingWindow /\ PairingWindow \in 0 .. PairingWindow
        /\ PairingWindow \in Nat
    BY TrustConstants DEF TrustConstants
  <1>2. /\ UNCHANGED <<link, sess, pending>> /\ UNCHANGED accounts
    BY DEF OpenPairingWindow, ClosePairingWindow, OpenPresenceWindow,
           ClosePresenceWindow
  <1>3. /\ pin' \in [left : 0 .. PairingWindow, fails : Nat]
        /\ presence' \in 0 .. PairingWindow
    BY <1>1 DEF IInv, TypeOK, OpenPairingWindow, ClosePairingWindow,
           OpenPresenceWindow, ClosePresenceWindow, PinClosed
  <1>4. shown' \in Frames /\ shown'.waiting = Waiting(pending')
    <2>1. CASE shown' = shown
      BY <1>2, <2>1 DEF IInv, TypeOK, Frames, WorklistIsCurrent
    <2>2. CASE shown' = Snapshot(pending, PairingWindow) \/ shown' = Snapshot(pending, 0)
      BY <1>1, <1>2, <2>2, SnapshotIs
    <2> QED
      BY <2>1, <2>2 DEF OpenPairingWindow, ClosePairingWindow,
           OpenPresenceWindow, ClosePresenceWindow
  <1>5. /\ sess' \in [Slots -> Session] /\ Named' /\ pending' \in Knocks
        /\ link' \in [Slots -> Bindings \cup {"none"}]
    BY <1>2 DEF IInv, TypeOK, Named, Knocks
  <1> QED
    BY <1>2, <1>3, <1>4, <1>5, QuietStep

(* approvePendingConfigure(): a question is never about the watch entry    *)
(* that makes room.                                                        *)
LEMMA ApproveAtMachineStep ==
    ASSUME IInv, NEW i \in Instances, NEW old \in Instances, ApproveAtMachine(i, old)
    PROVE  IInv' /\ Announced
  <1> DEFINE L == IF old = i THEN ledger ELSE [ledger EXCEPT ![old] = NoEntry]
  <1>1. /\ ledger \in Ledgers /\ presence \in 0 .. PairingWindow
        /\ Asked(pending, ledger)
    BY DEF IInv, TypeOK, Ledgers
  <1>2. L \in Ledgers
    BY <1>1, EmptyTypes DEF Ledgers
  <1>3. old # i => ledger[old].role = Watch
    BY DEF ApproveAtMachine, Droppable
  <1>4. \A j \in Instances \ {i} : pending[j].reapproval => L[j] = ledger[j]
    BY <1>1, <1>3 DEF Asked, Ledgers
  <1>5. PICK j \in SlotsOf(pending[i].sid) :
           IssuePairGrant(j, i, Configure, L, presence)
    BY DEF ApproveAtMachine
  <1>6. j \in Slots /\ Configure \in Roles
    BY DEF SlotsOf, Occupied, Roles, Watch, Configure
  <1> HIDE DEF L
  <1> QED
    BY <1>1, <1>2, <1>4, <1>5, <1>6, IssueStep

(* demoteAllToWatch().                                                     *)
LEMMA DemoteAllStep ==
    ASSUME IInv, DemoteAll
    PROVE  IInv' /\ Announced
  <1>1. /\ ledger \in Ledgers /\ pending \in Knocks
        /\ sess \in [Slots -> Session] /\ Named /\ 0 \in 0 .. PairingWindow
        /\ 0 \in Nat
    BY TrustConstants DEF IInv, TypeOK, Ledgers, Knocks, TrustConstants
  <1>2. ledger' \in Ledgers
    <2>1. Watch \in Roles
      BY DEF Roles, Watch, Configure
    <2>2. ASSUME NEW i \in Instances
          PROVE  [ledger[i] EXCEPT !.role = Watch] \in Entry
      BY <1>1, <2>1 DEF Ledgers, Entry
    <2>3. ledger' = [i \in Instances |-> [ledger[i] EXCEPT !.role = Watch]]
      BY DEF DemoteAll
    <2> QED
      BY <2>2, <2>3 DEF Ledgers
  <1>3. /\ pending' \in Knocks /\ \A i \in Instances : pending'[i] = NoKnock
    BY <1>1, RemoveKnocks DEF DemoteAll
  <1>4. Asked(pending', ledger')
    BY <1>3, EmptyTypes DEF Asked
  <1>5. shown' \in Frames /\ shown'.waiting = Waiting(pending')
    BY <1>1, SnapshotIs DEF DemoteAll
  <1>6. sess' \in [Slots -> Session] /\ Named'
    BY <1>1, EmptyTypes DEF DemoteAll, Named
  <1>7. /\ roster' \in Nat /\ roster' = Cardinality(Paired(ledger'))
        /\ dirty' \in BOOLEAN /\ saved' = saved
        /\ link' \in [Slots -> Bindings \cup {"none"}]
    BY PairedIsCounted DEF DemoteAll, IInv, TypeOK
  <1>8. CleanIsSaved'
    <2>1. CASE ledger' # ledger
      BY <2>1 DEF DemoteAll, CleanIsSaved
    <2>2. CASE ledger' = ledger
      BY <1>7, <2>2 DEF DemoteAll, IInv, CleanIsSaved
    <2> QED
      BY <2>1, <2>2
  <1>9. /\ pin' \in [left : 0 .. PairingWindow, fails : Nat]
        /\ presence' \in 0 .. PairingWindow
    BY <1>1 DEF DemoteAll, PinClosed
  <1> QED
    BY <1>2, <1>3, <1>4, <1>5, <1>6, <1>7, <1>8, <1>9
       DEF IInv, TypeOK, Knocks, Ledgers, Frames, WorklistIsCurrent, Announced

(* pumpPairing(): time passes, windows and knocks expire.                  *)
LEMMA UpdateStep ==
    ASSUME IInv, Update
    PROVE  IInv' /\ Announced
  <1> DEFINE ended == {i \in Waiting(pending) : pending[i].left <= 1}
  <1>1. /\ pending \in Knocks /\ shown \in Frames
        /\ shown.waiting = Waiting(pending)
        /\ PairingWindow \in Nat /\ presence \in 0 .. PairingWindow
        /\ pin \in [left : 0 .. PairingWindow, fails : Nat]
    BY TrustConstants
       DEF IInv, TypeOK, Knocks, Frames, WorklistIsCurrent, TrustConstants
  <1>2. ASSUME NEW i \in Instances
        PROVE  LET k == [pending[i] EXCEPT !.left = Less(pending[i].left)]
               IN  /\ k \in Knock /\ k.sid = pending[i].sid
                   /\ k.reapproval = pending[i].reapproval
    <2>1. pending[i] \in Knock
      BY <1>1 DEF Knocks
    <2>2. Less(pending[i].left) \in 0 .. PairingWindow
      BY <1>1, <2>1 DEF Less, Knock
    <2> QED
      BY <2>1, <2>2 DEF Knock
  <1>3. pending' = [i \in Instances |->
                      IF i \in ended THEN NoKnock
                      ELSE [pending[i] EXCEPT !.left = Less(pending[i].left)]]
    BY DEF Update
  <1>4. /\ pending' \in Knocks
        /\ \A i \in Instances : pending'[i].reapproval => pending[i].reapproval
        /\ ended = {} => Waiting(pending') = Waiting(pending)
    <2> HIDE DEF ended
    <2> QED
      BY <1>2, <1>3, EmptyTypes DEF Knocks, Waiting
  <1>5. presence' \in 0 .. PairingWindow /\ presence' \in Nat
    BY <1>1 DEF Update, Less
  <1>6. pin' \in [left : 0 .. PairingWindow, fails : Nat]
    BY <1>1 DEF Update, PinClosed
  <1>7. shown' \in Frames /\ shown'.waiting = Waiting(pending')
    <2>1. \/ shown' = Snapshot(pending', presence')
          \/ ended = {} /\ shown' = shown
      BY DEF Update
    <2> HIDE DEF ended
    <2> QED
      BY <1>1, <1>4, <1>5, <2>1, SnapshotIs
  <1>8. /\ sess' \in [Slots -> Session] /\ Named' /\ UNCHANGED accounts
        /\ link' \in [Slots -> Bindings \cup {"none"}]
    BY DEF Update, IInv, TypeOK, Named
  <1> QED
    BY <1>4, <1>5, <1>6, <1>7, <1>8, QuietStep

(* What the application calls.                                             *)
LEMMA ApplicationStep ==
    ASSUME IInv, Application
    PROVE  IInv' /\ Announced
  BY WindowStep, ApproveAtMachineStep, KnockerGoneStep, DemoteAllStep, UpdateStep
     DEF Application, GoneAtMachine

(* The ledger is written.                                                  *)
LEMMA SaveStep ==
    ASSUME IInv, Save
    PROVE  IInv' /\ Announced
  BY DEF Save, IInv, TypeOK, Named, Asked, WorklistIsCurrent, CleanIsSaved,
         Announced, windows

(* A restart reads back what was saved; its empty list has no question.    *)
LEMMA RestartStep ==
    ASSUME IInv, NEW intact \in BOOLEAN, Restart(intact)
    PROVE  IInv'
  <1>1. ledger' \in Ledgers /\ saved' \in Ledgers /\ dirty' \in BOOLEAN
        /\ saved' = ledger'
    BY EmptyTypes DEF Restart, IInv, TypeOK, Ledgers
  <1>2. pending' \in Knocks /\ Asked(pending', ledger') /\ Waiting(pending') = {}
    BY EmptyTypes DEF Restart, Knocks, Asked, Waiting
  <1>3. sess' \in [Slots -> Session] /\ Named'
        /\ link' \in [Slots -> Bindings \cup {"none"}]
    BY EmptyTypes DEF Restart, Named
  <1>4. /\ pin' \in [left : 0 .. PairingWindow, fails : Nat]
        /\ presence' \in 0 .. PairingWindow /\ roster' \in Nat
        /\ shown' \in Frames /\ shown'.waiting = {}
    BY TrustConstants DEF Restart, PinClosed, Frames, TrustConstants
  <1> QED
    BY <1>1, <1>2, <1>3, <1>4
       DEF IInv, TypeOK, Knocks, Ledgers, Frames, WorklistIsCurrent, CleanIsSaved

(* A new hub.                                                              *)
LEMMA InitInv == Init => IInv
  <1> SUFFICES ASSUME Init PROVE IInv
    OBVIOUS
  <1>1. /\ ledger \in Ledgers /\ saved = ledger /\ pending \in Knocks
        /\ Asked(pending, ledger) /\ Waiting(pending) = {}
    BY EmptyTypes DEF Init, Ledgers, Knocks, Asked, Waiting
  <1>2. /\ sess \in [Slots -> Session] /\ Named
        /\ link \in [Slots -> Bindings \cup {"none"}]
    BY EmptyTypes DEF Init, Named
  <1>3. /\ pin \in [left : 0 .. PairingWindow, fails : Nat]
        /\ presence \in 0 .. PairingWindow /\ roster \in Nat
        /\ shown \in Frames /\ shown.waiting = {}
    BY TrustConstants DEF Init, PinClosed, Frames, TrustConstants
  <1>4. dirty \in BOOLEAN
    BY DEF Init
  <1> QED
    BY <1>1, <1>2, <1>3, <1>4
       DEF IInv, TypeOK, Knocks, Ledgers, Frames, WorklistIsCurrent, CleanIsSaved

(* Every step keeps the invariant, and announces who entered or left the   *)
(* ledger unless it is a restart.                                          *)
LEMMA NextInv ==
    ASSUME IInv, [Next]_vars
    PROVE  IInv' /\ (Announced \/ \E intact \in BOOLEAN : Restart(intact))
  <1>1. CASE UNCHANGED vars
    BY <1>1 DEF vars, IInv, TypeOK, Named, Asked, WorklistIsCurrent, CleanIsSaved,
                Announced
  <1>2. CASE Next
    BY <1>2, SessionsStep, HelloStep, ProveStep, AskStep, AdministerStep,
       ApplicationStep, SaveStep, RestartStep DEF Next
  <1> QED
    BY <1>1, <1>2

(* IInv holds of every behaviour.                                          *)
LEMMA Invariance == Spec => []IInv
  BY InitInv, NextInv, PTL DEF Spec

-----------------------------------------------------------------------------
(* The values of the trust state are what pairing.hpp declares, for any    *)
(* number of slots, devices and ids.                                       *)
THEOREM TrustTypesHold == Spec => []TypeOK
  <1>1. IInv => TypeOK
    BY DEF IInv
  <1> QED
    BY <1>1, Invariance, PTL

(* The retained worklist names exactly the devices that wait.              *)
THEOREM WorklistHolds == Spec => []WorklistIsCurrent
  <1>1. IInv => WorklistIsCurrent
    BY DEF IInv
  <1> QED
    BY <1>1, Invariance, PTL

(* A waiting re-approval is about a device that is in the ledger.          *)
THEOREM ReapprovalsHold == Spec => []ReapprovalIsKnown
  <1>1. IInv => ReapprovalIsKnown
    BY DEF IInv, Asked, ReapprovalIsKnown, Waiting, Paired
  <1> QED
    BY <1>1, Invariance, PTL

(* A ledger that is not marked dirty is the one in non-volatile memory.    *)
THEOREM CleanHolds == Spec => []CleanIsSaved
  <1>1. IInv => CleanIsSaved
    BY DEF IInv
  <1> QED
    BY <1>1, Invariance, PTL

(* Whoever enters or leaves the ledger is counted in the roster by the end *)
(* of the same handler, a restart excepted.                                *)
THEOREM MembershipHolds == Spec => MembershipIsAnnounced
  <1>1. IInv /\ [Next]_vars =>
          [Paired(ledger') # Paired(ledger)
             => \/ roster' = Cardinality(Paired(ledger'))
                \/ \E intact \in BOOLEAN : Restart(intact)]_vars
    BY NextInv DEF Announced
  <1> QED
    BY <1>1, Invariance, PTL DEF Spec, MembershipIsAnnounced


-----------------------------------------------------------------------------
(* Knocks and their sessions.  Knocks are dropped by session id, so that   *)
(* the right ones go needs that no two slots hold the same id, and that    *)
(* the right device is answered that no two hold the same device.          *)
OneEach ==
    \A s, x \in Slots :
       (s # x /\ sess[s].sid # NoSid /\ sess[x].sid # NoSid)
          => sess[s].sid # sess[x].sid /\ sess[s].inst # sess[x].inst

BInv == IInv /\ OneEach /\ KnocksAreBound

(* The sessions of the slots in gone end, the others stay as they are.     *)
Keeps(gone) ==
    \A x \in Slots :
       /\ x \in gone => sess'[x].sid = NoSid
       /\ x \notin gone => sess'[x].sid = sess[x].sid /\ sess'[x].inst = sess[x].inst

(* A knock that is left waited for a session that stays; a new one is for  *)
(* the device of one.                                                      *)
Answerable(gone) ==
    \A i \in Waiting(pending') :
       \/ /\ i \in Waiting(pending) /\ pending'[i].sid = pending[i].sid
          /\ \A x \in Slots \cap gone : sess[x].sid # pending[i].sid
       \/ \E s \in Slots \ gone :
             sess[s].sid # NoSid /\ pending'[i].sid = sess[s].sid /\ sess[s].inst = i

(* Such a step keeps each knock with its session.                          *)
LEMMA BoundStep ==
    ASSUME OneEach, KnocksAreBound, NEW gone, Keeps(gone), Answerable(gone)
    PROVE  OneEach' /\ KnocksAreBound'
  <1>1. OneEach'
    BY DEF OneEach, Keeps
  <1>2. ASSUME NEW i \in Waiting(pending')
        PROVE  \E s \in Occupied' : sess'[s].sid = pending'[i].sid /\ sess'[s].inst = i
    <2>1. CASE \E s \in Slots \ gone :
                  sess[s].sid # NoSid /\ pending'[i].sid = sess[s].sid /\ sess[s].inst = i
      BY <2>1 DEF Keeps, Occupied
    <2>2. CASE /\ i \in Waiting(pending) /\ pending'[i].sid = pending[i].sid
               /\ \A x \in Slots \cap gone : sess[x].sid # pending[i].sid
      <3>1. PICK s \in Occupied : sess[s].sid = pending[i].sid /\ sess[s].inst = i
        BY <2>2 DEF KnocksAreBound
      <3>2. s \in Slots \ gone /\ sess[s].sid # NoSid
        BY <2>2, <3>1 DEF Occupied
      <3> QED
        BY <2>2, <3>1, <3>2 DEF Keeps, Occupied
    <2> QED
      BY <2>1, <2>2 DEF Answerable
  <1> QED
    BY <1>1, <1>2 DEF KnocksAreBound

(* Some knocks go, those of every session that ends among them.            *)
LEMMA DroppedKnocks ==
    ASSUME IInv, NEW gone, NEW who,
           pending' = PendingRemove(pending, who),
           \A i \in Waiting(pending) :
              (\E x \in Slots \cap gone : sess[x].sid = pending[i].sid) => i \in who
    PROVE  Answerable(gone)
  <1>1. pending \in Knocks
    BY DEF IInv, TypeOK, Knocks
  <1>2. /\ Waiting(pending') = Waiting(pending) \ who
        /\ \A i \in Instances \ who : pending'[i] = pending[i]
    BY <1>1, RemoveKnocks
  <1> QED
    BY <1>2 DEF Answerable, Waiting

(* dropBySession() finds the knocks of a session that ends.                *)
LEMMA KnocksOfGone ==
    ASSUME NEW gone, NEW i \in Waiting(pending), NEW x \in Slots \cap gone,
           sess[x].sid = pending[i].sid
    PROVE  i \in KnocksOf({sess[s].sid : s \in gone})
  BY DEF KnocksOf

(* teardownSession() ends the knocks with the session.                     *)
LEMMA TeardownBound ==
    ASSUME BInv, NEW gone, Teardown(gone)
    PROVE  OneEach' /\ KnocksAreBound'
  <1>1. Keeps(gone)
    BY EmptyTypes DEF Teardown, Keeps
  <1>2. Answerable(gone)
    <2> DEFINE lost == KnocksOf({sess[s].sid : s \in gone})
    <2>1. pending' = PendingRemove(pending, lost)
      BY DEF Teardown
    <2>2. \A i \in Waiting(pending) :
             (\E x \in Slots \cap gone : sess[x].sid = pending[i].sid) => i \in lost
      BY KnocksOfGone
    <2> HIDE DEF lost
    <2> QED
      BY <2>1, <2>2, DroppedKnocks DEF BInv
  <1> QED
    BY <1>1, <1>2, BoundStep DEF BInv

(* No session ends, no knock comes; some may go.                           *)
LEMMA CalmBound ==
    ASSUME BInv, Keeps({}), NEW who,
           pending' = PendingRemove(pending, who) \/ pending' = pending
    PROVE  OneEach' /\ KnocksAreBound'
  <1>1. CASE pending' = PendingRemove(pending, who)
    <2>1. Answerable({})
      BY <1>1, DroppedKnocks DEF BInv
    <2> QED
      BY <2>1, BoundStep DEF BInv
  <1>2. CASE pending' = pending
    <2>1. Answerable({})
      BY <1>2 DEF Answerable, Waiting
    <2> QED
      BY <2>1, BoundStep DEF BInv
  <1> QED
    BY <1>1, <1>2

(* A slot's session changes in other fields only.                          *)
LEMMA SameSessions ==
    ASSUME sess \in [Slots -> Session],
           \/ sess' = sess
           \/ \E s \in Slots, r \in Session :
                 r.sid = sess[s].sid /\ r.inst = sess[s].inst /\ sess' = [sess EXCEPT ![s] = r]
    PROVE  Keeps({})
  BY DEF Keeps


(* Every change of links and sessions.                                     *)
LEMMA SessionsBound ==
    ASSUME BInv, Sessions
    PROVE  OneEach' /\ KnocksAreBound'
  <1>0. sess \in [Slots -> Session]
    BY DEF BInv, IInv, TypeOK
  <1>1. PICK s \in Slots :
          \/ \E b \in Bindings : Attach(s, b)
          \/ LoseLink(s) \/ FallSilent(s) \/ Revive(s) \/ EndSession(s)
    BY DEF Sessions
  <1>2. sess[s] \in Session
    BY <1>0
  <1>3. CASE \E b \in Bindings : Attach(s, b)
    <2>1. sess' = sess /\ pending' = pending
      BY <1>3 DEF Attach
    <2> QED
      BY <1>0, <2>1, SameSessions, CalmBound
  <1>4. CASE LoseLink(s)
    <2> DEFINE r == [sess[s] EXCEPT !.stale = TRUE, !.strikes = 0]
               lost == KnocksOf({sess[s].sid})
    <2>1. r \in Session /\ r.sid = sess[s].sid /\ r.inst = sess[s].inst
      BY <1>2, ParkedFields
    <2>2. \/ sess' = [sess EXCEPT ![s] = r] /\ pending' = PendingRemove(pending, lost)
          \/ sess' = sess /\ pending' = pending
      BY <1>4 DEF LoseLink
    <2> HIDE DEF r, lost
    <2> QED
      BY <1>0, <2>1, <2>2, SameSessions, CalmBound
  <1>5. CASE FallSilent(s) \/ Revive(s)
    <2>1. PICK b \in BOOLEAN : sess' = [sess EXCEPT ![s] = [sess[s] EXCEPT !.stale = b]]
      BY <1>5 DEF FallSilent, Revive
    <2> DEFINE r == [sess[s] EXCEPT !.stale = b]
    <2>2. r \in Session /\ r.sid = sess[s].sid /\ r.inst = sess[s].inst
      BY <1>2, StaleField
    <2>3. sess' = [sess EXCEPT ![s] = r] /\ pending' = pending
      BY <1>5, <2>1 DEF FallSilent, Revive
    <2> HIDE DEF r
    <2> QED
      BY <1>0, <2>2, <2>3, SameSessions, CalmBound
  <1>6. CASE EndSession(s)
    BY <1>6, TeardownBound DEF EndSession
  <1> QED
    BY <1>1, <1>3, <1>4, <1>5, <1>6

(* The question of the tripwire is asked for the session at hand.          *)
LEMMA TripwireAsks ==
    ASSUME NEW P \in Knocks, NEW i \in Instances, NEW sid \in Sids, NEW v,
           NEW j \in Waiting(AfterTripwire(P, i, sid, v))
    PROVE  LET Q == AfterTripwire(P, i, sid, v)
           IN  (j \in Waiting(P) /\ Q[j] = P[j]) \/ (j = i /\ Q[j].sid = sid)
  <1> DEFINE Q == AfterTripwire(P, i, sid, v)
             A == PendingAdd(P, i, sid)
  <1>1. CASE Q = P
    BY <1>1
  <1>2. CASE Q = [A EXCEPT ![i].reapproval = TRUE]
    <2>1. A \in Knocks /\ A[i].sid = sid /\ \A k \in Instances \ {i} : A[k] = P[k]
      BY AddKnock
    <2> HIDE DEF A
    <2>2. Q[i].sid = sid /\ \A k \in Instances \ {i} : Q[k] = P[k]
      BY <1>2, <2>1 DEF Knocks, Knock
    <2>3. j \in Instances /\ Q[j].sid # NoSid
      BY DEF Waiting
    <2> HIDE DEF Q
    <2> QED
      BY <2>2, <2>3 DEF Waiting, Q
  <1> QED
    BY <1>1, <1>2 DEF AfterTripwire

(* HELLO: the session base is installed in slot s.  No other slot keeps    *)
(* its id or its device, and every knock kept is answered in a slot that   *)
(* keeps its session, or in s.                                             *)
LEMMA AdmitBound ==
    ASSUME BInv, NEW s \in Slots, NEW i \in Instances, NEW base \in Session,
           base.sid \in Sids, base.inst = i,
           NEW gone, NEW lost, NEW t, NEW v, NEW role,
           Admit(s, i, base, gone, lost, t, v, role),
           \A x \in Slots \ {s} :
              (x \notin gone /\ sess[x].sid # NoSid)
                 => sess[x].sid # base.sid /\ sess[x].inst # i,
           \A k \in Waiting(pending) \ lost, x \in Slots :
              (sess[x].sid = pending[k].sid /\ (x \in gone \/ x = s))
                 => pending[k].sid = base.sid /\ k = i
    PROVE  OneEach' /\ KnocksAreBound'
  <1>1. sess \in [Slots -> Session] /\ pending \in Knocks
    BY DEF BInv, IInv, TypeOK, Knocks
  <1> DEFINE after   == IF t # "absent" THEN Observed(ledger[i], v) ELSE ledger[i]
             settled == IF t # "absent" /\ ledger[i].state # "none"
                        THEN EffectiveRole(after) ELSE role
             tier    == TierOf(s, settled)
  <1>2. sess' = [x \in Slots |->
                   IF x = s THEN [base EXCEPT !.role = tier]
                   ELSE IF x \in gone THEN NoSession ELSE sess[x]]
    BY DEF Admit
  <1> HIDE DEF tier
  <1>3. [base EXCEPT !.role = tier].sid = base.sid /\ [base EXCEPT !.role = tier].inst = i
    BY DEF Session
  <1>4. /\ sess'[s].sid = base.sid /\ sess'[s].inst = i
        /\ \A x \in Slots \ {s} :
              IF x \in gone THEN sess'[x].sid = NoSid ELSE sess'[x] = sess[x]
    BY <1>2, <1>3, EmptyTypes
  <1>5. OneEach'
    BY <1>4 DEF OneEach, BInv
  <1> DEFINE kept == PendingRemove(pending, lost)
  <1>6. /\ kept \in Knocks /\ Waiting(kept) = Waiting(pending) \ lost
        /\ \A k \in Instances \ lost : kept[k] = pending[k]
    BY <1>1, RemoveKnocks
  <1>7. pending' = kept \/ pending' = AfterTripwire(kept, i, base.sid, v)
    BY DEF Admit
  <1> HIDE DEF kept
  <1>8. ASSUME NEW k \in Waiting(pending')
        PROVE  \/ k \in Waiting(kept) /\ pending'[k] = kept[k]
               \/ k = i /\ pending'[k].sid = base.sid
    BY <1>6, <1>7, <1>8, TripwireAsks
  <1>9. ASSUME NEW k \in Waiting(pending')
        PROVE  \E x \in Occupied' : sess'[x].sid = pending'[k].sid /\ sess'[x].inst = k
    <2>0. base.sid # NoSid
      BY TrustConstants DEF TrustConstants
    <2>1. CASE k = i /\ pending'[k].sid = base.sid
      BY <1>4, <2>0, <2>1 DEF Occupied
    <2>2. CASE k \in Waiting(kept) /\ pending'[k] = kept[k]
      <3>1. k \in Waiting(pending) \ lost /\ pending'[k] = pending[k]
        BY <1>6, <2>2 DEF Waiting
      <3>2. PICK x \in Occupied : sess[x].sid = pending[k].sid /\ sess[x].inst = k
        BY <3>1 DEF BInv, KnocksAreBound
      <3>3. CASE x \in gone \/ x = s
        <4>1. pending[k].sid = base.sid /\ k = i
          BY <3>1, <3>2, <3>3 DEF Occupied
        <4> QED
          BY <1>4, <2>0, <3>1, <4>1 DEF Occupied
      <3>4. CASE x \notin gone /\ x # s
        BY <1>4, <3>1, <3>2, <3>4 DEF Occupied
      <3> QED
        BY <3>3, <3>4
    <2> QED
      BY <1>8, <1>9, <2>1, <2>2
  <1> QED
    BY <1>5, <1>9 DEF KnocksAreBound


(* A resumed session keeps its knocks in its new slot.                     *)
LEMMA ReattachBound ==
    ASSUME BInv, NEW s \in Slots, NEW x \in Slots, NEW t, NEW v \in Reported,
           NEW d, HelloReattach(s, x, t, v, d)
    PROVE  OneEach' /\ KnocksAreBound'
  <1> DEFINE i    == sess[x].inst
             base == [sess[x] EXCEPT !.ver = v, !.stale = FALSE, !.strikes = 0]
             lost == KnocksOf({sess[s].sid})
  <1>1. /\ x # s /\ sess[x] \in Session /\ sess[x].sid # NoSid /\ i \in Instances
        /\ v \in Versions \cup {NoVer}
    BY TrustConstants
       DEF BInv, IInv, TypeOK, HelloReattach, Occupied, Named, TrustConstants
  <1>2. /\ base \in Session /\ base.sid = sess[x].sid /\ base.inst = i
        /\ base.sid \in Sids
    BY <1>1, ResumedFields DEF Session
  <1>3. Admit(s, i, base, {x}, lost, t, v, sess[x].role)
    BY DEF HelloReattach
  <1> HIDE DEF base
  <1>4. \A y \in Slots \ {s} :
           (y \notin {x} /\ sess[y].sid # NoSid)
              => sess[y].sid # base.sid /\ sess[y].inst # i
    BY <1>1, <1>2 DEF BInv, OneEach
  <1>5. ASSUME NEW k \in Waiting(pending) \ lost, NEW y \in Slots,
               sess[y].sid = pending[k].sid, y \in {x} \/ y = s
        PROVE  pending[k].sid = base.sid /\ k = i
    <2>1. y = x
      BY <1>5 DEF KnocksOf
    <2>2. PICK z \in Occupied : sess[z].sid = pending[k].sid /\ sess[z].inst = k
      BY DEF BInv, KnocksAreBound
    <2>3. z = x
      BY <1>1, <1>5, <2>1, <2>2 DEF BInv, OneEach, Occupied
    <2> QED
      BY <1>2, <2>2, <2>3
  <1> HIDE DEF lost
  <1> QED
    BY <1>1, <1>2, <1>3, <1>4, <1>5, AdmitBound

(* A fresh session ends those of its device and of its slot.               *)
LEMMA FreshBound ==
    ASSUME BInv, NEW s \in Slots, NEW i \in Instances, NEW t, NEW v \in Reported,
           NEW d, NEW sid \in Sids, HelloFresh(s, i, t, v, d, sid)
    PROVE  OneEach' /\ KnocksAreBound'
  <1> DEFINE base == [NoSession EXCEPT !.sid = sid, !.inst = i, !.ver = v]
             dups == SlotsNaming(i, s)
             lost == KnocksOf({sess[x].sid : x \in dups \cup {s}})
             role == TierOf(s, TokenRole(i, t, d))
  <1>1. v \in Versions \cup {NoVer}
    BY TrustConstants DEF TrustConstants
  <1>2. base \in Session /\ base.sid = sid /\ base.inst = i
    BY <1>1, EmptyTypes DEF Session
  <1>3. Admit(s, i, base, dups, lost, t, v, role)
    BY DEF HelloFresh
  <1> HIDE DEF base, role
  <1>4. \A y \in Slots \ {s} :
           (y \notin dups /\ sess[y].sid # NoSid)
              => sess[y].sid # base.sid /\ sess[y].inst # i
    BY <1>2 DEF HelloFresh, SlotsNaming, Occupied
  <1>5. \A k \in Waiting(pending) \ lost, y \in Slots :
           (sess[y].sid = pending[k].sid /\ (y \in dups \/ y = s))
              => pending[k].sid = base.sid /\ k = i
    <2> HIDE DEF dups
    <2> QED
      BY DEF KnocksOf
  <1> HIDE DEF dups, lost
  <1> QED
    BY <1>2, <1>3, <1>4, <1>5, AdmitBound

(* handleHello() and handleReattach().                                     *)
LEMMA HelloBound ==
    ASSUME BInv, Hello
    PROVE  OneEach' /\ KnocksAreBound'
  BY ReattachBound, FreshBound DEF Hello

(* Every proof.                                                            *)
LEMMA ProveBound ==
    ASSUME BInv, Prove
    PROVE  OneEach' /\ KnocksAreBound'
  <1>0. sess \in [Slots -> Session] /\ pending \in Knocks
    BY DEF BInv, IInv, TypeOK, Knocks
  <1>1. PICK s \in Slots :
          \/ \E t \in Tokens : AuthRefused(s, t)
          \/ AuthAccepted(s) \/ PinRefused(s) \/ PinAccepted(s)
    BY DEF Prove
  <1>2. sess[s] \in Session
    BY <1>0
  <1>3. ASSUME NEW t \in Tokens, AuthRefused(s, t)
        PROVE  OneEach' /\ KnocksAreBound'
    <2>1. CASE sess[s].strikes + 1 < AuthStrikes
      <3> DEFINE n == sess[s].strikes + 1
                 r == [sess[s] EXCEPT !.strikes = n]
      <3>1. n \in 0 .. AuthStrikes
        BY <1>2, <2>1, TrustConstants DEF Session, TrustConstants
      <3>2. sess' = [sess EXCEPT ![s] = r] /\ pending' = pending
        BY <1>3, <2>1 DEF AuthRefused
      <3> HIDE DEF n
      <3>3. r \in Session /\ r.sid = sess[s].sid /\ r.inst = sess[s].inst
        BY <1>2, <3>1, StrikesField
      <3> HIDE DEF r
      <3> QED
        BY <1>0, <3>2, <3>3, SameSessions, CalmBound
    <2>2. CASE ~(sess[s].strikes + 1 < AuthStrikes)
      BY <1>3, <2>2, TeardownBound DEF AuthRefused
    <2> QED
      BY <2>1, <2>2
  <1>4. CASE AuthAccepted(s)
    <2> DEFINE role == TierOf(s, EffectiveRole(ledger'[sess[s].inst]))
               r == [sess[s] EXCEPT !.strikes = 0, !.role = role]
               Q == AfterTripwire(pending, sess[s].inst, sess[s].sid, sess[s].ver)
    <2>1. sess' = [sess EXCEPT ![s] = r] /\ pending' = Q
      BY <1>4 DEF AuthAccepted
    <2>2. r.sid = sess[s].sid /\ r.inst = sess[s].inst
      <3> HIDE DEF role
      <3> QED
        BY <1>2 DEF Session
    <2> HIDE DEF r
    <2>3. Keeps({})
      BY <1>0, <2>1, <2>2 DEF Keeps
    <2>4. sess[s].inst \in Instances /\ sess[s].sid \in Sids /\ sess[s].sid # NoSid
      BY <1>4, LiveIs, TrustConstants DEF AuthAccepted, BInv, TrustConstants
    <2>5. Answerable({})
      BY <1>0, <2>1, <2>4, TripwireAsks DEF Answerable
    <2> QED
      BY <2>3, <2>5, BoundStep DEF BInv
  <1>5. CASE PinRefused(s)
    <2>1. sess' = sess /\ pending' = pending
      BY <1>5 DEF PinRefused
    <2> QED
      BY <1>0, <2>1, SameSessions, CalmBound
  <1>6. CASE PinAccepted(s)
    <2>1. sess' = [sess EXCEPT ![s].role = Control] /\ pending' = pending
      BY <1>6 DEF PinAccepted
    <2>2. Keeps({})
      BY <1>0, <2>1 DEF Keeps, Session
    <2> QED
      BY <2>1, <2>2, CalmBound
  <1> QED
    BY <1>1, <1>3, <1>4, <1>5, <1>6

(* issuePairGrant() answers one knock.                                     *)
LEMMA IssueBound ==
    ASSUME BInv, NEW s \in Slots, NEW i, NEW role, NEW L, NEW window,
           IssuePairGrant(s, i, role, L, window)
    PROVE  OneEach' /\ KnocksAreBound'
  <1>1. sess \in [Slots -> Session]
    BY DEF BInv, IInv, TypeOK
  <1>2. PICK tier : sess' = [sess EXCEPT ![s].role = tier]
    BY DEF IssuePairGrant
  <1>3. Keeps({})
    BY <1>1, <1>2 DEF Keeps, Session
  <1>4. pending' = PendingRemove(pending, {i})
    BY DEF IssuePairGrant
  <1> QED
    BY <1>3, <1>4, CalmBound

(* handleKnock().                                                          *)
LEMMA AskBound ==
    ASSUME BInv, Ask
    PROVE  OneEach' /\ KnocksAreBound'
  <1>0. sess \in [Slots -> Session] /\ pending \in Knocks
    BY DEF BInv, IInv, TypeOK, Knocks
  <1>1. PICK s \in Slots, asked \in Asks :
          \/ KnockOnCable(s, asked) \/ KnockInWindow(s, asked)
          \/ KnockWastesWindow(s, asked) \/ KnockWaits(s, asked)
    BY DEF Ask
  <1>2. CASE KnockOnCable(s, asked)
    BY <1>2, IssueBound DEF KnockOnCable
  <1>3. CASE KnockInWindow(s, asked)
    BY <1>3, IssueBound DEF KnockInWindow
  <1>4. CASE KnockWastesWindow(s, asked)
    <2>1. sess' = sess /\ pending' = pending
      BY <1>4 DEF KnockWastesWindow
    <2> QED
      BY <1>0, <2>1, SameSessions, CalmBound
  <1>5. CASE KnockWaits(s, asked)
    <2> DEFINE i == sess[s].inst
               A == PendingAdd(pending, i, sess[s].sid)
    <2>1. i \in Instances /\ sess[s].sid \in Sids /\ sess[s].sid # NoSid
      BY <1>5, LiveIs, TrustConstants DEF KnockWaits, BInv, TrustConstants
    <2>2. /\ A \in Knocks /\ A[i].sid = sess[s].sid
          /\ \A j \in Instances \ {i} : A[j] = pending[j]
      BY <1>0, <2>1, AddKnock
    <2>3. sess' = sess /\ pending' = [A EXCEPT ![i].asked = asked]
      BY <1>5 DEF KnockWaits
    <2> HIDE DEF A
    <2>4. /\ pending'[i].sid = sess[s].sid
          /\ \A j \in Instances \ {i} : pending'[j] = pending[j]
      BY <2>1, <2>2, <2>3 DEF Knocks, Knock
    <2>5. Answerable({})
      BY <2>1, <2>4 DEF Answerable, Waiting
    <2>6. Keeps({})
      BY <1>0, <2>3, SameSessions
    <2> QED
      BY <2>5, <2>6, BoundStep DEF BInv
  <1> QED
    BY <1>1, <1>2, <1>3, <1>4, <1>5

(* handleAdminIntent().                                                    *)
LEMMA AdministerBound ==
    ASSUME BInv, Administer
    PROVE  OneEach' /\ KnocksAreBound'
  <1>0. sess \in [Slots -> Session]
    BY DEF BInv, IInv, TypeOK
  <1>1. PICK a \in Slots :
          \/ \E i \in Instances, role \in Asks : PairApprove(a, i, role)
          \/ \E i \in Instances : ApproveGone(a, i)
          \/ \E i \in Instances : PairDeny(a, i)
          \/ \E i \in Instances : Revoke(a, i)
          \/ \E s \in Slots : Evict(a, s)
    BY DEF Administer
  <1>2. ASSUME NEW i \in Instances, NEW role \in Asks, PairApprove(a, i, role)
        PROVE  OneEach' /\ KnocksAreBound'
    <2>1. PICK j \in SlotsOf(pending[i].sid) :
             IssuePairGrant(j, i, role, ledger, presence)
      BY <1>2 DEF PairApprove
    <2>2. j \in Slots
      BY DEF SlotsOf, Occupied
    <2> QED
      BY <2>1, <2>2, IssueBound
  <1>3. ASSUME NEW i \in Instances,
               ApproveGone(a, i) \/ PairDeny(a, i) \/ Revoke(a, i)
        PROVE  OneEach' /\ KnocksAreBound'
    <2>1. sess' = sess /\ pending' = PendingRemove(pending, {i})
      BY <1>3 DEF ApproveGone, KnockerGone, PairDeny, Revoke
    <2> QED
      BY <1>0, <2>1, SameSessions, CalmBound
  <1>4. ASSUME NEW s \in Slots, Evict(a, s)
        PROVE  OneEach' /\ KnocksAreBound'
    BY <1>4, TeardownBound DEF Evict
  <1> QED
    BY <1>1, <1>2, <1>3, <1>4

(* What the application calls.                                             *)
LEMMA ApplicationBound ==
    ASSUME BInv, Application
    PROVE  OneEach' /\ KnocksAreBound'
  <1>0. sess \in [Slots -> Session] /\ pending \in Knocks
    BY DEF BInv, IInv, TypeOK, Knocks
  <1>1. CASE \/ OpenPairingWindow \/ ClosePairingWindow
             \/ OpenPresenceWindow \/ ClosePresenceWindow
    <2>1. sess' = sess /\ pending' = pending
      BY <1>1 DEF OpenPairingWindow, ClosePairingWindow, OpenPresenceWindow,
                  ClosePresenceWindow
    <2> QED
      BY <1>0, <2>1, SameSessions, CalmBound
  <1>2. ASSUME NEW i \in Instances, NEW old \in Instances, ApproveAtMachine(i, old)
        PROVE  OneEach' /\ KnocksAreBound'
    <2>1. PICK j \in SlotsOf(pending[i].sid) :
             IssuePairGrant(j, i, Configure,
                IF old = i THEN ledger ELSE [ledger EXCEPT ![old] = NoEntry], presence)
      BY <1>2 DEF ApproveAtMachine
    <2>2. j \in Slots
      BY DEF SlotsOf, Occupied
    <2> QED
      BY <2>1, <2>2, IssueBound
  <1>3. ASSUME NEW i \in Instances, GoneAtMachine(i)
        PROVE  OneEach' /\ KnocksAreBound'
    <2>1. sess' = sess /\ pending' = PendingRemove(pending, {i})
      BY <1>3 DEF GoneAtMachine, KnockerGone
    <2> QED
      BY <1>0, <2>1, SameSessions, CalmBound
  <1>4. CASE DemoteAll
    <2> DEFINE gone == {s \in Slots : sess[s].role # Watch}
    <2>1. Keeps(gone)
      BY <1>4, EmptyTypes DEF DemoteAll, Keeps
    <2>2. pending' = PendingRemove(pending, Instances)
      BY <1>4 DEF DemoteAll
    <2> HIDE DEF gone
    <2>3. Answerable(gone)
      BY <2>2, DroppedKnocks DEF BInv, Waiting
    <2> QED
      BY <2>1, <2>3, BoundStep DEF BInv
  <1>5. CASE Update
    <2> DEFINE ended == {i \in Waiting(pending) : pending[i].left <= 1}
    <2>1. /\ sess' = sess
          /\ pending' = [i \in Instances |->
                           IF i \in ended THEN NoKnock
                           ELSE [pending[i] EXCEPT !.left = Less(pending[i].left)]]
      BY <1>5 DEF Update
    <2> HIDE DEF ended
    <2>2. ASSUME NEW i \in Waiting(pending')
          PROVE  i \in Waiting(pending) /\ pending'[i].sid = pending[i].sid
      <3>1. i \in Instances /\ pending'[i].sid # NoSid /\ pending[i] \in Knock
        BY <1>0 DEF Waiting, Knocks
      <3>2. \A n : [pending[i] EXCEPT !.left = n].sid = pending[i].sid
        BY <3>1 DEF Knock
      <3> QED
        BY <2>1, <3>1, <3>2, EmptyTypes DEF Waiting
    <2>3. Answerable({})
      BY <2>2 DEF Answerable
    <2>4. Keeps({})
      BY <1>0, <2>1, SameSessions
    <2> QED
      BY <2>3, <2>4, BoundStep DEF BInv
  <1> QED
    BY <1>1, <1>2, <1>3, <1>4, <1>5 DEF Application

(* The ledger is written, or the hub restarts without sessions.            *)
LEMMA RestBound ==
    ASSUME BInv, Save \/ UNCHANGED vars \/ \E intact \in BOOLEAN : Restart(intact)
    PROVE  OneEach' /\ KnocksAreBound'
  <1>1. CASE Save \/ UNCHANGED vars
    <2>1. sess' = sess /\ pending' = pending /\ sess \in [Slots -> Session]
      BY <1>1 DEF Save, vars, BInv, IInv, TypeOK
    <2> QED
      BY <2>1, SameSessions, CalmBound
  <1>2. CASE \E intact \in BOOLEAN : Restart(intact)
    BY <1>2, EmptyTypes DEF Restart, OneEach, KnocksAreBound, Waiting
  <1> QED
    BY <1>1, <1>2

(* Every step keeps the knocks with their sessions.                        *)
LEMMA BoundNext ==
    ASSUME BInv, [Next]_vars
    PROVE  BInv'
  <1>1. OneEach' /\ KnocksAreBound'
    BY SessionsBound, HelloBound, ProveBound, AskBound, AdministerBound,
       ApplicationBound, RestBound DEF Next
  <1> QED
    BY <1>1, NextInv DEF BInv

(* A waiting knock belongs to a session that is still there and that is    *)
(* the knocking device's, for any number of slots, devices and ids.        *)
THEOREM KnocksHold == Spec => []KnocksAreBound
  <1>1. Init => OneEach /\ KnocksAreBound
    BY EmptyTypes DEF Init, OneEach, KnocksAreBound, Waiting
  <1>2. BInv /\ [Next]_vars => BInv'
    BY BoundNext
  <1>3. Init => BInv
    BY <1>1, InitInv DEF BInv
  <1>4. BInv => KnocksAreBound
    BY DEF BInv
  <1> QED
    BY <1>2, <1>3, <1>4, PTL DEF Spec

-----------------------------------------------------------------------------
(* A suspended device only looks.  What suspends a device is a HELLO or an *)
(* AUTH of its session, which then gets the role of the suspended entry;   *)
(* that no other slot holds a session of the device at its old role is     *)
(* OneEach, and that a grant goes to the session of the device granted is  *)
(* KnocksAreBound.                                                         *)
LInv == BInv /\ SuspendedOnlyLooks

Suspended(L, i) == L[i].state = "recognized_pending"

(* Nothing about slot x calls for a lower role than it had.                *)
Harmless(x) ==
    \/ sess'[x].sid = NoSid
    \/ link'[x] # "net"
    \/ sess'[x].role = Watch
    \/ ~Suspended(ledger', sess'[x].inst)
    \/ /\ sess[x].sid # NoSid /\ link[x] = "net" /\ Suspended(ledger, sess[x].inst)
       /\ sess'[x].inst = sess[x].inst /\ sess'[x].role = sess[x].role

LEMMA HarmlessStep ==
    ASSUME SuspendedOnlyLooks, \A x \in Slots : Harmless(x)
    PROVE  SuspendedOnlyLooks'
  BY DEF SuspendedOnlyLooks, Harmless, Suspended, Occupied

(* Slot x keeps its session, role and link, or loses one of them.          *)
Same(x) ==
    \/ sess'[x].sid = NoSid
    \/ /\ sess'[x].sid = sess[x].sid /\ sess'[x].inst = sess[x].inst
       /\ sess'[x].role = sess[x].role /\ (link'[x] = "net" => link[x] = "net")

(* No device is suspended that was not.                                    *)
NoneSuspended ==
    \A i \in Instances : Suspended(ledger', i) => Suspended(ledger, i)

LEMMA SameStep ==
    ASSUME LInv, \A x \in Slots : Same(x), NoneSuspended
    PROVE  SuspendedOnlyLooks'
  <1>1. \A x \in Slots : sess[x].sid # NoSid => sess[x].inst \in Instances
    BY DEF LInv, BInv, IInv, Named
  <1>2. \A x \in Slots : Harmless(x)
    BY <1>1 DEF Same, Harmless, NoneSuspended
  <1> QED
    BY <1>2, HarmlessStep DEF LInv

LEMMA TeardownLooks ==
    ASSUME LInv, NEW gone, Teardown(gone), UNCHANGED link, NoneSuspended
    PROVE  SuspendedOnlyLooks'
  <1>1. \A x \in Slots : Same(x)
    BY EmptyTypes DEF Teardown, Same
  <1> QED
    BY <1>1, SameStep

(* One session changes in fields that trust does not turn on.              *)
LEMMA FieldsLook ==
    ASSUME LInv, NEW s \in Slots, NEW r, r.sid = sess[s].sid, r.inst = sess[s].inst,
           r.role = sess[s].role, sess' = [sess EXCEPT ![s] = r],
           \A x \in Slots : link'[x] = "net" => link[x] = "net",
           NoneSuspended
    PROVE  SuspendedOnlyLooks'
  <1>0. sess \in [Slots -> Session]
    BY DEF LInv, BInv, IInv, TypeOK
  <1>1. \A x \in Slots : Same(x)
    BY <1>0 DEF Same
  <1> QED
    BY <1>1, SameStep

(* Every change of links and sessions.                                     *)
LEMMA SessionsLook ==
    ASSUME LInv, Sessions
    PROVE  SuspendedOnlyLooks'
  <1>0. sess \in [Slots -> Session] /\ link \in [Slots -> Bindings \cup {"none"}]
    BY DEF LInv, BInv, IInv, TypeOK
  <1>1. PICK s \in Slots :
          \/ \E b \in Bindings : Attach(s, b)
          \/ LoseLink(s) \/ FallSilent(s) \/ Revive(s) \/ EndSession(s)
    BY DEF Sessions
  <1>2. sess[s] \in Session
    BY <1>0
  <1>3. NoneSuspended
    BY <1>1 DEF Attach, LoseLink, FallSilent, Revive, EndSession, accounts, NoneSuspended
  <1>4. ASSUME NEW b \in Bindings, Attach(s, b)
        PROVE  SuspendedOnlyLooks'
    <2>1. \A x \in Slots : Same(x)
      BY <1>0, <1>4 DEF Attach, Same, Occupied
    <2> QED
      BY <1>3, <2>1, SameStep
  <1>5. CASE LoseLink(s)
    <2> DEFINE r == [sess[s] EXCEPT !.stale = TRUE, !.strikes = 0]
    <2>1. r.sid = sess[s].sid /\ r.inst = sess[s].inst /\ r.role = sess[s].role
      BY <1>2 DEF Session
    <2>2. sess' = [sess EXCEPT ![s] = r] \/ sess' = sess
      BY <1>5 DEF LoseLink
    <2>3. \A x \in Slots : link'[x] = "net" => link[x] = "net"
      BY <1>0, <1>5 DEF LoseLink
    <2> HIDE DEF r
    <2>4. CASE sess' = sess
      BY <1>3, <2>3, <2>4, SameStep DEF Same
    <2> QED
      BY <1>3, <2>1, <2>2, <2>3, <2>4, FieldsLook
  <1>6. CASE FallSilent(s) \/ Revive(s)
    <2>1. PICK b \in BOOLEAN : sess' = [sess EXCEPT ![s] = [sess[s] EXCEPT !.stale = b]]
      BY <1>6 DEF FallSilent, Revive
    <2> DEFINE r == [sess[s] EXCEPT !.stale = b]
    <2>2. r.sid = sess[s].sid /\ r.inst = sess[s].inst /\ r.role = sess[s].role
      BY <1>2 DEF Session
    <2>3. sess' = [sess EXCEPT ![s] = r] /\ link' = link
      BY <1>6, <2>1 DEF FallSilent, Revive
    <2> HIDE DEF r
    <2> QED
      BY <1>3, <2>2, <2>3, FieldsLook
  <1>7. CASE EndSession(s)
    BY <1>3, <1>7, TeardownLooks DEF EndSession
  <1> QED
    BY <1>1, <1>4, <1>5, <1>6, <1>7

(* HELLO: a session of device i that was not judged by its ledger entry is *)
(* one without a token, and may only look unless the cable vouches for it. *)
LEMMA AdmitLooks ==
    ASSUME LInv, NEW s \in Slots, NEW i \in Instances, NEW base \in Session,
           base.inst = i, NEW gone, NEW lost, NEW t, NEW v, NEW role,
           Admit(s, i, base, gone, lost, t, v, role),
           \A x \in Slots \ {s} :
              (x \notin gone /\ sess[x].sid # NoSid) => sess[x].inst # i,
           (t = "absent" /\ link[s] = "net") => role = Watch,
           link'[s] = link[s], \A x \in Slots : link'[x] = "net" => link[x] = "net"
    PROVE  SuspendedOnlyLooks'
  <1>1. sess \in [Slots -> Session] /\ ledger \in Ledgers
    BY DEF LInv, BInv, IInv, TypeOK, Ledgers
  <1> DEFINE after   == IF t # "absent" THEN Observed(ledger[i], v) ELSE ledger[i]
             settled == IF t # "absent" /\ ledger[i].state # "none"
                        THEN EffectiveRole(after) ELSE role
             tier    == TierOf(s, settled)
  <1>2. /\ sess' = [x \in Slots |->
                      IF x = s THEN [base EXCEPT !.role = tier]
                      ELSE IF x \in gone THEN NoSession ELSE sess[x]]
        /\ ledger' = [ledger EXCEPT ![i] = after]
    BY DEF Admit
  <1>3. ledger'[i] = after /\ \A k \in Instances \ {i} : ledger'[k] = ledger[k]
    <2> HIDE DEF after
    <2> QED
      BY <1>1, <1>2 DEF Ledgers
  <1>4. (link[s] = "net" /\ Suspended(ledger', i)) => tier = Watch
    <2> SUFFICES ASSUME link[s] = "net", Suspended(ledger', i) PROVE settled = Watch
      BY DEF TierOf
    <2>1. after.state = "recognized_pending"
      BY <1>3 DEF Suspended
    <2>2. CASE t = "absent"
      BY <2>2
    <2>3. CASE t # "absent"
      <3>1. EffectiveRole(after) = Watch
        <4> HIDE DEF after
        <4> QED
          BY <2>1 DEF EffectiveRole
      <3>2. ledger[i].state # "none"
        <4>1. after = Observed(ledger[i], v)
          BY <2>3
        <4>2. ledger[i] \in Entry
          BY <1>1 DEF Ledgers
        <4> HIDE DEF after
        <4> QED
          BY <2>1, <4>1, <4>2 DEF Observed, Suspends, VersionChanged, Entry
      <3> QED
        BY <2>3, <3>1, <3>2
    <2> QED
      BY <2>2, <2>3
  <1> HIDE DEF tier, after
  <1>5. [base EXCEPT !.role = tier].inst = i /\ [base EXCEPT !.role = tier].role = tier
    BY DEF Session
  <1>6. Harmless(s)
    BY <1>2, <1>4, <1>5 DEF Harmless
  <1>7. ASSUME NEW x \in Slots \ {s} PROVE Harmless(x)
    <2>1. CASE x \in gone
      BY <1>2, <2>1, EmptyTypes DEF Harmless
    <2>2. CASE x \notin gone
      <3>1. sess'[x] = sess[x]
        BY <1>2, <2>2
      <3>2. sess[x].sid # NoSid => sess[x].inst \in Instances /\ sess[x].inst # i
        BY <2>2 DEF LInv, BInv, IInv, Named
      <3> QED
        BY <1>3, <3>1, <3>2 DEF Harmless, Suspended
    <2> QED
      BY <2>1, <2>2
  <1> QED
    BY <1>6, <1>7, HarmlessStep DEF LInv

(* Without an opinion of the application, what no token proves is watch.   *)
LEMMA NoTokenLooks ==
    ASSUME NEW i, NEW s, link[s] = "net"
    PROVE  TierOf(s, TokenRole(i, "absent", Watch)) = Watch
  BY DEF TierOf, TokenRole, Validate

(* handleHello() and handleReattach().                                     *)
LEMMA HelloLooks ==
    ASSUME DelegateRoles \subseteq {Watch}, LInv, Hello
    PROVE  SuspendedOnlyLooks'
  <1>0. sess \in [Slots -> Session] /\ link \in [Slots -> Bindings \cup {"none"}]
    BY DEF LInv, BInv, IInv, TypeOK
  <1>1. PICK s \in Slots, t \in Tokens, v \in Reported, d \in DelegateRoles :
          \/ \E x \in Slots : HelloReattach(s, x, t, v, d)
          \/ \E i \in Instances, sid \in Sids : HelloFresh(s, i, t, v, d, sid)
    BY DEF Hello
  <1>2. d = Watch /\ v \in Versions \cup {NoVer}
    BY TrustConstants DEF TrustConstants
  <1>3. ASSUME NEW x \in Slots, HelloReattach(s, x, t, v, d)
        PROVE  SuspendedOnlyLooks'
    <2> DEFINE i    == sess[x].inst
               base == [sess[x] EXCEPT !.ver = v, !.stale = FALSE, !.strikes = 0]
               lost == KnocksOf({sess[s].sid})
    <2>1. x # s /\ sess[x] \in Session /\ sess[x].sid # NoSid /\ i \in Instances
      BY <1>3 DEF LInv, BInv, IInv, TypeOK, HelloReattach, Occupied, Named
    <2>2. base \in Session /\ base.inst = i
      BY <1>2, <2>1, ResumedFields DEF Session
    <2>3. Admit(s, i, base, {x}, lost, t, v, sess[x].role)
      BY <1>3 DEF HelloReattach
    <2> HIDE DEF base, lost
    <2>4. \A y \in Slots \ {s} : (y \notin {x} /\ sess[y].sid # NoSid) => sess[y].inst # i
      BY <2>1 DEF LInv, BInv, OneEach
    <2>5. (t = "absent" /\ link[s] = "net") => sess[x].role = Watch
      BY <1>2, <1>3, NoTokenLooks DEF HelloReattach
    <2>6. link'[s] = link[s] /\ \A y \in Slots : link'[y] = "net" => link[y] = "net"
      BY <1>0, <1>3, <2>1 DEF HelloReattach
    <2> QED
      BY <2>1, <2>2, <2>3, <2>4, <2>5, <2>6, AdmitLooks
  <1>4. ASSUME NEW i \in Instances, NEW sid \in Sids, HelloFresh(s, i, t, v, d, sid)
        PROVE  SuspendedOnlyLooks'
    <2> DEFINE base == [NoSession EXCEPT !.sid = sid, !.inst = i, !.ver = v]
               dups == SlotsNaming(i, s)
               lost == KnocksOf({sess[x].sid : x \in dups \cup {s}})
               role == TierOf(s, TokenRole(i, t, d))
    <2>1. base \in Session /\ base.inst = i
      BY <1>2, EmptyTypes DEF Session
    <2>2. Admit(s, i, base, dups, lost, t, v, role) /\ link' = link
      BY <1>4 DEF HelloFresh
    <2>3. (t = "absent" /\ link[s] = "net") => role = Watch
      BY <1>2, NoTokenLooks
    <2>4. \A y \in Slots \ {s} : (y \notin dups /\ sess[y].sid # NoSid) => sess[y].inst # i
      BY DEF SlotsNaming, Occupied
    <2> HIDE DEF base, dups, lost, role
    <2> QED
      BY <2>1, <2>2, <2>3, <2>4, AdmitLooks
  <1> QED
    BY <1>1, <1>3, <1>4

(* Device i is granted a role in its own slot; others keep their entries   *)
(* or lose them.                                                           *)
LEMMA GrantLooks ==
    ASSUME LInv, NEW s \in Slots, NEW i \in Instances, sess[s].inst = i,
           NEW tier, sess' = [sess EXCEPT ![s].role = tier], link' = link,
           ~Suspended(ledger', i),
           \A k \in Instances \ {i} : Suspended(ledger', k) => Suspended(ledger, k)
    PROVE  SuspendedOnlyLooks'
  <1>0. sess \in [Slots -> Session]
    BY DEF LInv, BInv, IInv, TypeOK
  <1>1. sess'[s].inst = i /\ \A x \in Slots \ {s} : sess'[x] = sess[x]
    BY <1>0 DEF Session
  <1>2. \A x \in Slots : sess[x].sid # NoSid => sess[x].inst \in Instances
    BY DEF LInv, BInv, IInv, Named
  <1>3. \A x \in Slots \ {s} : Harmless(x)
    BY <1>1, <1>2 DEF Harmless
  <1>4. Harmless(s)
    BY <1>1 DEF Harmless
  <1> QED
    BY <1>3, <1>4, HarmlessStep DEF LInv

LEMMA IssueLooks ==
    ASSUME LInv, NEW s \in Slots, NEW i \in Instances, sess[s].inst = i,
           NEW role \in Roles, NEW L \in Ledgers, NEW window,
           \A k \in Instances \ {i} : Suspended(L, k) => Suspended(ledger, k),
           IssuePairGrant(s, i, role, L, window)
    PROVE  SuspendedOnlyLooks'
  <1>1. sess[s].ver \in Versions \cup {NoVer}
    BY DEF LInv, BInv, IInv, TypeOK, Session
  <1> DEFINE e == Granted(L[i], role, sess[s].ver)
  <1>2. e.state = "trusted"
    BY <1>1, GrantEntry DEF Ledgers
  <1>3. ledger' = [L EXCEPT ![i] = e]
    BY DEF IssuePairGrant
  <1> HIDE DEF e
  <1>4. ledger'[i] = e /\ \A k \in Instances \ {i} : ledger'[k] = L[k]
    BY <1>3 DEF Ledgers
  <1>5. PICK tier : sess' = [sess EXCEPT ![s].role = tier] /\ link' = link
    BY DEF IssuePairGrant
  <1>6. /\ ~Suspended(ledger', i)
        /\ \A k \in Instances \ {i} : Suspended(ledger', k) => Suspended(ledger, k)
    BY <1>2, <1>4 DEF Suspended
  <1> QED
    BY <1>5, <1>6, GrantLooks

(* The knock of a device is answered in the device's own slot.             *)
LEMMA AnsweredInItsSlot ==
    ASSUME BInv, NEW i \in Waiting(pending), NEW j \in SlotsOf(pending[i].sid)
    PROVE  j \in Slots /\ sess[j].inst = i
  <1>1. PICK x \in Occupied : sess[x].sid = pending[i].sid /\ sess[x].inst = i
    BY DEF BInv, KnocksAreBound
  <1> QED
    BY <1>1 DEF BInv, OneEach, SlotsOf, Occupied

(* Every proof.                                                            *)
LEMMA ProveLooks ==
    ASSUME LInv, Prove
    PROVE  SuspendedOnlyLooks'
  <1>0. sess \in [Slots -> Session] /\ ledger \in Ledgers
    BY DEF LInv, BInv, IInv, TypeOK, Ledgers
  <1>1. PICK s \in Slots :
          \/ \E t \in Tokens : AuthRefused(s, t)
          \/ AuthAccepted(s) \/ PinRefused(s) \/ PinAccepted(s)
    BY DEF Prove
  <1>2. sess[s] \in Session
    BY <1>0
  <1>3. ASSUME NEW t \in Tokens, AuthRefused(s, t)
        PROVE  SuspendedOnlyLooks'
    <2>1. NoneSuspended /\ link' = link
      BY <1>3 DEF AuthRefused, accounts, NoneSuspended
    <2>2. CASE sess[s].strikes + 1 < AuthStrikes
      <3> DEFINE r == [sess[s] EXCEPT !.strikes = sess[s].strikes + 1]
      <3>1. sess' = [sess EXCEPT ![s] = r]
        BY <1>3, <2>2 DEF AuthRefused
      <3>2. r.sid = sess[s].sid /\ r.inst = sess[s].inst /\ r.role = sess[s].role
        BY <1>2 DEF Session
      <3> HIDE DEF r
      <3> QED
        BY <2>1, <3>1, <3>2, FieldsLook
    <2>3. CASE ~(sess[s].strikes + 1 < AuthStrikes)
      BY <1>3, <2>1, <2>3, TeardownLooks DEF AuthRefused
    <2> QED
      BY <2>2, <2>3
  <1>4. CASE AuthAccepted(s)
    <2> DEFINE i == sess[s].inst
               e == Observed(ledger[i], sess[s].ver)
               role == TierOf(s, EffectiveRole(e))
               r == [sess[s] EXCEPT !.strikes = 0, !.role = role]
    <2>1. i \in Instances /\ link' = link /\ sess[s].sid # NoSid
      <3>1. Live(s) /\ link' = link
        BY <1>4 DEF AuthAccepted
      <3> QED
        BY <3>1, LiveIs DEF LInv, BInv, Live, Occupied
    <2>2. ledger' = [ledger EXCEPT ![i] = e]
      BY <1>4 DEF AuthAccepted
    <2>3. ledger'[i] = e /\ \A k \in Instances \ {i} : ledger'[k] = ledger[k]
      <3> HIDE DEF e
      <3> QED
        BY <1>0, <2>1, <2>2 DEF Ledgers
    <2>4. sess' = [sess EXCEPT ![s] = r]
      BY <1>4, <2>3 DEF AuthAccepted
    <2>5. (link[s] = "net" /\ Suspended(ledger', i)) => role = Watch
      <3> HIDE DEF e
      <3> QED
        BY <2>3 DEF Suspended, TierOf, EffectiveRole
    <2>6. r.inst = i /\ r.role = role
      <3> HIDE DEF role
      <3> QED
        BY <1>2 DEF Session
    <2> HIDE DEF r, role, e
    <2>7. sess'[s] = r /\ \A x \in Slots \ {s} : sess'[x] = sess[x]
      BY <1>0, <2>4
    <2>8. Harmless(s)
      BY <2>1, <2>5, <2>6, <2>7 DEF Harmless
    <2>9. ASSUME NEW x \in Slots \ {s} PROVE Harmless(x)
      <3>1. sess[x].sid # NoSid => sess[x].inst \in Instances \ {i}
        BY <2>1 DEF LInv, BInv, IInv, Named, OneEach
      <3> QED
        BY <2>1, <2>3, <2>7, <3>1 DEF Harmless, Suspended
    <2> QED
      BY <2>8, <2>9, HarmlessStep DEF LInv
  <1>5. CASE PinRefused(s)
    BY <1>5, SameStep DEF PinRefused, accounts, NoneSuspended, Same
  <1>6. CASE PinAccepted(s)
    <2> DEFINE i == sess[s].inst
               e == Granted(ledger[i], Control, sess[s].ver)
    <2>1. i \in Instances /\ sess[s].ver \in Versions \cup {NoVer}
      BY <1>2, <1>6, LiveIs DEF PinAccepted, LInv, BInv, Session
    <2>2. e.state = "trusted"
      BY DEF Granted
    <2>3. ledger' = [ledger EXCEPT ![i] = e] /\ link' = link
          /\ sess' = [sess EXCEPT ![s].role = Control]
      BY <1>6 DEF PinAccepted
    <2> HIDE DEF e
    <2>4. ledger'[i] = e /\ \A k \in Instances \ {i} : ledger'[k] = ledger[k]
      BY <1>0, <2>1, <2>3 DEF Ledgers
    <2> QED
      BY <2>1, <2>2, <2>3, <2>4, GrantLooks DEF Suspended
  <1> QED
    BY <1>1, <1>3, <1>4, <1>5, <1>6

(* handleKnock().                                                          *)
LEMMA AskLooks ==
    ASSUME LInv, Ask
    PROVE  SuspendedOnlyLooks'
  <1>0. ledger \in Ledgers
    BY DEF LInv, BInv, IInv, TypeOK, Ledgers
  <1>1. PICK s \in Slots, asked \in Asks :
          \/ KnockOnCable(s, asked) \/ KnockInWindow(s, asked)
          \/ KnockWastesWindow(s, asked) \/ KnockWaits(s, asked)
    BY DEF Ask
  <1>2. Live(s)
    BY <1>1 DEF KnockOnCable, KnockInWindow, KnockWastesWindow, KnockWaits
  <1>3. sess[s].inst \in Instances
    BY <1>2, LiveIs DEF LInv, BInv
  <1>4. CASE KnockOnCable(s, asked) \/ KnockInWindow(s, asked)
    <2>1. PICK role \in Roles :
            \E window \in {presence, 0} : IssuePairGrant(s, sess[s].inst, role, ledger, window)
      <3>1. asked \in Roles /\ Configure \in Roles /\ PresenceGrantRole \in Roles
        BY TrustConstants DEF TrustConstants, Roles, Configure, Watch, PresenceGrantRole
      <3> QED
        BY <1>4, <3>1 DEF KnockOnCable, KnockInWindow
    <2> QED
      BY <1>0, <1>3, <2>1, IssueLooks
  <1>5. CASE KnockWastesWindow(s, asked) \/ KnockWaits(s, asked)
    <2>1. sess' = sess /\ link' = link /\ ledger' = ledger
      BY <1>5 DEF KnockWastesWindow, KnockWaits, accounts
    <2> QED
      BY <2>1, SameStep DEF Same, NoneSuspended
  <1> QED
    BY <1>1, <1>4, <1>5

(* handleAdminIntent().                                                    *)
LEMMA AdministerLooks ==
    ASSUME LInv, Administer
    PROVE  SuspendedOnlyLooks'
  <1>0. ledger \in Ledgers
    BY DEF LInv, BInv, IInv, TypeOK, Ledgers
  <1>1. PICK a \in Slots :
          \/ \E i \in Instances, role \in Asks : PairApprove(a, i, role)
          \/ \E i \in Instances : ApproveGone(a, i)
          \/ \E i \in Instances : PairDeny(a, i)
          \/ \E i \in Instances : Revoke(a, i)
          \/ \E s \in Slots : Evict(a, s)
    BY DEF Administer
  <1>2. ASSUME NEW i \in Instances, NEW role \in Asks, PairApprove(a, i, role)
        PROVE  SuspendedOnlyLooks'
    <2>1. i \in Waiting(pending) /\ role \in Roles
      BY <1>2, TrustConstants DEF PairApprove, TrustConstants
    <2>2. PICK j \in SlotsOf(pending[i].sid) :
             IssuePairGrant(j, i, role, ledger, presence)
      BY <1>2 DEF PairApprove
    <2>3. j \in Slots /\ sess[j].inst = i
      BY <2>1, AnsweredInItsSlot DEF LInv
    <2> QED
      BY <1>0, <2>1, <2>2, <2>3, IssueLooks
  <1>3. ASSUME NEW i \in Instances,
               ApproveGone(a, i) \/ PairDeny(a, i) \/ Revoke(a, i)
        PROVE  SuspendedOnlyLooks'
    <2>1. sess' = sess /\ link' = link
      BY <1>3 DEF ApproveGone, KnockerGone, PairDeny, Revoke
    <2>2. ledger' = ledger \/ ledger' = [ledger EXCEPT ![i] = NoEntry]
      BY <1>3 DEF ApproveGone, KnockerGone, PairDeny, Revoke, accounts
    <2>3. NoneSuspended
      BY <1>0, <2>2, EmptyTypes DEF NoneSuspended, Suspended, Ledgers
    <2> QED
      BY <2>1, <2>3, SameStep DEF Same
  <1>4. ASSUME NEW s \in Slots, Evict(a, s)
        PROVE  SuspendedOnlyLooks'
    BY <1>4, TeardownLooks DEF Evict, accounts, NoneSuspended
  <1> QED
    BY <1>1, <1>2, <1>3, <1>4

(* What the application calls.                                             *)
LEMMA ApplicationLooks ==
    ASSUME LInv, Application
    PROVE  SuspendedOnlyLooks'
  <1>0. ledger \in Ledgers
    BY DEF LInv, BInv, IInv, TypeOK, Ledgers
  <1>1. CASE \/ OpenPairingWindow \/ ClosePairingWindow
             \/ OpenPresenceWindow \/ ClosePresenceWindow \/ Update
             \/ \E i \in Instances : GoneAtMachine(i)
    <2>1. sess' = sess /\ link' = link /\ ledger' = ledger
      BY <1>1 DEF OpenPairingWindow, ClosePairingWindow, OpenPresenceWindow,
                  ClosePresenceWindow, Update, GoneAtMachine, KnockerGone, accounts
    <2> QED
      BY <2>1, SameStep DEF Same, NoneSuspended
  <1>2. ASSUME NEW i \in Instances, NEW old \in Instances, ApproveAtMachine(i, old)
        PROVE  SuspendedOnlyLooks'
    <2> DEFINE L == IF old = i THEN ledger ELSE [ledger EXCEPT ![old] = NoEntry]
    <2>1. i \in Waiting(pending) /\ Configure \in Roles
      BY <1>2 DEF ApproveAtMachine, AsksConfigure, Roles, Configure, Watch
    <2>2. PICK j \in SlotsOf(pending[i].sid) : IssuePairGrant(j, i, Configure, L, presence)
      BY <1>2 DEF ApproveAtMachine
    <2>3. L \in Ledgers /\ \A k \in Instances : Suspended(L, k) => Suspended(ledger, k)
      BY <1>0, EmptyTypes DEF Ledgers, Suspended
    <2> HIDE DEF L
    <2>4. j \in Slots /\ sess[j].inst = i
      BY <2>1, AnsweredInItsSlot DEF LInv
    <2> QED
      BY <2>1, <2>2, <2>3, <2>4, IssueLooks
  <1>3. CASE DemoteAll
    <2>1. NoneSuspended
      BY <1>0, <1>3 DEF DemoteAll, NoneSuspended, Suspended, Ledgers, Entry
    <2>2. \A x \in Slots : Same(x)
      BY <1>3, EmptyTypes DEF DemoteAll, Same
    <2> QED
      BY <2>1, <2>2, SameStep
  <1> QED
    BY <1>1, <1>2, <1>3 DEF Application

LEMMA RestLooks ==
    ASSUME LInv, Save \/ UNCHANGED vars \/ \E intact \in BOOLEAN : Restart(intact)
    PROVE  SuspendedOnlyLooks'
  <1>1. CASE Save \/ UNCHANGED vars
    BY <1>1, SameStep DEF Save, vars, Same, NoneSuspended
  <1>2. CASE \E intact \in BOOLEAN : Restart(intact)
    BY <1>2, EmptyTypes DEF Restart, SuspendedOnlyLooks, Occupied
  <1> QED
    BY <1>1, <1>2

(* While a device is suspended its session on a network link may only      *)
(* look, for any number of slots, devices and ids, provided the            *)
(* application's validateToken, which the hub asks after the ledger,       *)
(* answers watch (as the delegate's default does).                         *)
THEOREM SuspensionHolds ==
    ASSUME DelegateRoles \subseteq {Watch}
    PROVE  Spec => []SuspendedOnlyLooks
  <1>1. Init => LInv
    <2>1. Init => IInv /\ OneEach /\ KnocksAreBound
      BY InitInv, EmptyTypes DEF Init, OneEach, KnocksAreBound, Waiting
    <2>2. Init => SuspendedOnlyLooks
      BY EmptyTypes DEF Init, SuspendedOnlyLooks, Occupied
    <2> QED
      BY <2>1, <2>2 DEF LInv, BInv
  <1>2. ASSUME LInv, [Next]_vars
        PROVE  SuspendedOnlyLooks'
    BY <1>2, SessionsLook, HelloLooks, ProveLooks, AskLooks, AdministerLooks,
       ApplicationLooks, RestLooks DEF Next
  <1>3. ASSUME BInv, [Next]_vars PROVE BInv'
    BY <1>3, BoundNext
  <1>4. LInv /\ [Next]_vars => LInv'
    BY <1>2, <1>3 DEF LInv
  <1>5. LInv => SuspendedOnlyLooks
    BY DEF LInv
  <1> QED
    BY <1>1, <1>4, <1>5, PTL DEF Spec

=============================================================================
