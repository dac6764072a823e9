------------------------- MODULE HubSessions_proofs -------------------------
(***************************************************************************)
(* Proofs about HubSessions, for every number of slots, every set of       *)
(* instances, sources and settings and every length of the windows.        *)
(***************************************************************************)
EXTENDS HubSessions, TLAPS

USE DEF Watch, Control, Configure, Roles

(* A slot has a session id exactly while it holds a session *)
IdsNameSessions ==
    \A s \in Slots : sess[s].state = "FREE" <=> sess[s].id = NoSid

(* DegradedIsKnown, of one slot and the catalog tag; a slot without a      *)
(* session is never ready.                                                 *)
FlagIsExact(e, tag) ==
    /\ e.ready => (e.mismatch <=> e.readyEtag # tag)
    /\ e.state = "FREE" => ~e.ready

FlagsAreExact == \A s \in Slots : FlagIsExact(sess[s], etag)

(* The two bounds update() has checked of a slot once it has left it *)
Pumped(s) == cursor = 0 \/ s < cursor

Timely(s) ==
    /\ (sess[s].state = "LIVE" /\ Owns(s)) => now < sess[s].lastRx + sess[s].deadman
    /\ (Serving(s) /\ ~sess[s].ready) => now < sess[s].grantedAt + ReadyTimeoutMs

PumpedAreTimely == \A s \in Slots : Pumped(s) => Timely(s)

(* LeasesAreServed is not inductive alone: a lease is ended by the id of a *)
(* session, so a slot must have an id exactly while it holds a session,    *)
(* and a frame may take a lease only for a session it leaves served.       *)
(* Unique identities and attached sessions are invariants in their own     *)
(* right, proved along the same actions.  The timers are bounds between    *)
(* two updates only, but they come to hold slot by slot while update()     *)
(* walks: a slot behind the cursor has been checked at this `now', and no  *)
(* frame of a later slot may restart what is running there.                *)
IInv ==
    /\ TypeOK
    /\ IdsNameSessions
    /\ OneSessionPerIdentity
    /\ ServedIsAttached
    /\ LeasesAreServed
    /\ FlagsAreExact
    /\ PumpedAreTimely

------------------------------------------------------------------------------
(* What the operators on one session return *)

SameFlags(e, f) ==
    /\ f.ready = e.ready /\ f.readyEtag = e.readyEtag /\ f.mismatch = e.mismatch
    /\ f.state = "FREE" => e.state = "FREE"

LEMMA BlankValues ==
    /\ NoSession \in Session /\ NoPort \in Port
    /\ \A tag : FlagIsExact(NoSession, tag)
  BY SessionConstants
  DEF NoSession, Session, NoPort, Port, NoStall, States, Links, FlagIsExact

LEMMA MarkedStaleFacts ==
  ASSUME now \in 0 .. MaxNow, NEW e \in Session
  PROVE  /\ MarkedStale(e) \in Session
         /\ MarkedStale(e).id = e.id /\ MarkedStale(e).inst = e.inst
         /\ MarkedStale(e).state = "STALE"
         /\ SameFlags(e, MarkedStale(e))
  BY DEF MarkedStale, Session, States, SameFlags

LEMMA ParkedFacts ==
  ASSUME now \in 0 .. MaxNow, NEW e \in Session
  PROVE  /\ Parked(e) \in Session
         /\ Parked(e).id = e.id /\ Parked(e).inst = e.inst
         /\ Parked(e).state = IF e.state = "FREE" THEN "FREE" ELSE "STALE"
         /\ SameFlags(e, Parked(e))
  BY MarkedStaleFacts DEF Parked, Session, States, SameFlags

LEMMA TouchedFacts ==
  ASSUME now \in 0 .. MaxNow, NEW e \in Session
  PROVE  /\ Touched(e) \in Session
         /\ Touched(e).id = e.id /\ Touched(e).inst = e.inst
         /\ Touched(e).state = IF e.state = "STALE" THEN "LIVE" ELSE e.state
         /\ SameFlags(e, Touched(e))
<1>1. LET f == [e EXCEPT !.lastRx = now]
      IN  f \in Session /\ f.id = e.id /\ f.inst = e.inst /\ f.state = e.state /\ SameFlags(e, f)
  BY DEF Session, SameFlags
<1>2. \A f \in Session :
        /\ Revived(f) \in Session
        /\ Revived(f).id = f.id /\ Revived(f).inst = f.inst
        /\ Revived(f).state = IF f.state = "STALE" THEN "LIVE" ELSE f.state
        /\ SameFlags(f, Revived(f))
  <2> SUFFICES ASSUME NEW f \in Session, f.state = "STALE"
               PROVE  /\ Revived(f) \in Session
                      /\ Revived(f).id = f.id /\ Revived(f).inst = f.inst
                      /\ Revived(f).state = "LIVE"
                      /\ SameFlags(f, Revived(f))
    <3>1. \A f \in Session : f.state # "STALE" => Revived(f) = f
      BY DEF Revived
    <3>2. QED
      BY <3>1 DEF SameFlags
  <2> DEFINE r(g) == [f EXCEPT !.state = "LIVE", !.staleSince = 0, !.parkedAt = 0,
                               !.grantedAt = g]
  <2>0. 0 \in 0 .. MaxNow
    BY SessionConstants
  <2>1. ASSUME NEW g \in 0 .. MaxNow
        PROVE  /\ r(g) \in Session
               /\ r(g).id = f.id /\ r(g).inst = f.inst /\ r(g).state = "LIVE"
               /\ SameFlags(f, r(g))
    BY <2>0 DEF Session, States, SameFlags
  <2>2. Revived(f) = r(f.grantedAt) \/ Revived(f) = r(now)
    BY Zenon DEF Revived
  <2>3. f.grantedAt \in 0 .. MaxNow
    BY DEF Session
  <2> HIDE DEF r
  <2>4. QED
    BY <2>1, <2>2, <2>3
<1> DEFINE f == [e EXCEPT !.lastRx = now]
<1>3. Touched(e) = IF e.state = "FREE" THEN e ELSE Revived(f)
  BY DEF Touched
<1> HIDE DEF f
<1>4. f \in Session /\ f.id = e.id /\ f.inst = e.inst /\ f.state = e.state /\ SameFlags(e, f)
  BY <1>1 DEF f
<1>5. QED
  BY <1>2, <1>3, <1>4 DEF SameFlags

LEMMA FreshFacts ==
  ASSUME TypeOK, NEW s \in Slots, NEW i \in Sids, NEW inst \in Instances,
         NEW role \in Roles, NEW window \in DeadmanWindows, NEW tag,
         NEW welcomed \in BOOLEAN
  PROVE  LET f == FreshSession(s, i, inst, role, window, tag, welcomed)
         IN  /\ f \in Session
             /\ f.id = i /\ f.inst = inst
             /\ f.state \in {"VALIDATING", "LIVE"}
             /\ FlagIsExact(f, etag)
<1>1. TierOf(s, role) \in Roles
  BY DEF TierOf
<1>2. etag \in 0 .. MaxEtag /\ now \in 0 .. MaxNow /\ 0 \in 0 .. MaxEtag /\ 0 \in 0 .. MaxNow
  BY SessionConstants DEF TypeOK
<1>3. (tag = "match") \in BOOLEAN
  OBVIOUS
<1> DEFINE f == FreshSession(s, i, inst, role, window, tag, welcomed)
<1>4. f \in Session /\ f.id = i /\ f.inst = inst /\ f.state \in {"VALIDATING", "LIVE"}
  BY ZenonT(60), <1>1, <1>2, <1>3 DEF FreshSession, NoSession, Session, States
<1>5. FlagIsExact(f, etag)
  <2>1. /\ f.ready = (tag = "match") /\ f.mismatch = FALSE
        /\ f.readyEtag = IF tag = "match" THEN etag ELSE 0
    BY ZenonT(60) DEF FreshSession, NoSession
  <2> HIDE DEF f
  <2>2. QED
    BY <2>1, <1>4 DEF FlagIsExact
<1>6. QED
  BY <1>4, <1>5

LEMMA ReattachedFacts ==
  ASSUME TypeOK, NEW s \in Slots, NEW d \in Slots, NEW role \in Roles,
         NEW tag, NEW welcomed \in BOOLEAN
  PROVE  LET f == ReattachedSession(s, d, role, tag, welcomed)
         IN  /\ f \in Session
             /\ f.id = sess[d].id /\ f.inst = sess[d].inst
             /\ f.state \in {"LIVE", "STALE"}
             /\ FlagIsExact(f, etag)
<1>1. TierOf(s, role) \in Roles
  BY DEF TierOf
<1>2. etag \in 0 .. MaxEtag /\ now \in 0 .. MaxNow /\ 0 \in 0 .. MaxNow
  BY SessionConstants DEF TypeOK
<1>3. sess[d] \in Session
  BY DEF TypeOK
<1> HIDE DEF TypeOK
<1> DEFINE pk == IF welcomed THEN 0 ELSE sess[d].parkedAt
<1>4. pk \in 0 .. MaxNow
  BY <1>2, <1>3 DEF Session
<1> DEFINE r(st, rdy, rtag, mis, at, m) ==
             [sess[d] EXCEPT !.state = st, !.role = TierOf(s, role), !.matched = m,
                             !.ready = rdy, !.readyEtag = rtag, !.mismatch = mis,
                             !.grantedAt = at, !.staleSince = 0, !.parkedAt = pk,
                             !.lastRx = now]
<1>5. ASSUME NEW st \in {"LIVE", "STALE"}, NEW rdy \in BOOLEAN, NEW rtag \in 0 .. MaxEtag,
             NEW mis \in BOOLEAN, NEW at \in 0 .. MaxNow, NEW m \in BOOLEAN
      PROVE  /\ r(st, rdy, rtag, mis, at, m) \in Session
             /\ r(st, rdy, rtag, mis, at, m).id = sess[d].id
             /\ r(st, rdy, rtag, mis, at, m).inst = sess[d].inst
             /\ r(st, rdy, rtag, mis, at, m).state = st
             /\ r(st, rdy, rtag, mis, at, m).ready = rdy
             /\ r(st, rdy, rtag, mis, at, m).readyEtag = rtag
             /\ r(st, rdy, rtag, mis, at, m).mismatch = mis
  <2> DEFINE tier == TierOf(s, role)
  <2> HIDE DEF tier
  <2>1. tier \in Roles
    BY <1>1 DEF tier
  <2>2. r(st, rdy, rtag, mis, at, m) \in Session
    <3> HIDE DEF pk
    <3>1. QED
      BY <2>1, <1>2, <1>3, <1>4 DEF Session, States, tier
  <2>3. /\ r(st, rdy, rtag, mis, at, m).id = sess[d].id
        /\ r(st, rdy, rtag, mis, at, m).inst = sess[d].inst
        /\ r(st, rdy, rtag, mis, at, m).state = st
        /\ r(st, rdy, rtag, mis, at, m).ready = rdy
        /\ r(st, rdy, rtag, mis, at, m).readyEtag = rtag
        /\ r(st, rdy, rtag, mis, at, m).mismatch = mis
    BY <1>3 DEF Session
  <2>4. QED
    BY <2>2, <2>3
<1> DEFINE st  == IF welcomed THEN "LIVE" ELSE "STALE"
           m   == tag = "match"
           rdy == sess[d].ready /\ m
           rtg == IF sess[d].ready /\ m THEN etag ELSE sess[d].readyEtag
           mis == CASE m -> sess[d].mismatch /\ ~sess[d].ready [] OTHER -> tag = "differ"
           at  == IF m THEN sess[d].grantedAt ELSE now
<1>6. /\ sess[d].ready \in BOOLEAN /\ sess[d].mismatch \in BOOLEAN
      /\ sess[d].readyEtag \in 0 .. MaxEtag /\ sess[d].grantedAt \in 0 .. MaxNow
  BY <1>3 DEF Session
<1>7. /\ st \in {"LIVE", "STALE"} /\ m \in BOOLEAN /\ rdy \in BOOLEAN
      /\ rtg \in 0 .. MaxEtag /\ mis \in BOOLEAN /\ at \in 0 .. MaxNow
  BY <1>2, <1>6
<1>8. ReattachedSession(s, d, role, tag, welcomed) = r(st, rdy, rtg, mis, at, m)
  BY Zenon DEF ReattachedSession
<1>9. rdy => ~mis /\ rtg = etag
  BY <1>6
<1> HIDE DEF r, st, m, rdy, rtg, mis, at, pk
<1>10. QED
  BY <1>5, <1>7, <1>8, <1>9 DEF FlagIsExact

LEMMA PortAfterSendFacts ==
  ASSUME TypeOK, NEW s \in Slots, NEW ans \in Answers
  PROVE  /\ PortAfterSend(s, ans) \in Port
         /\ PortAfterSend(s, ans).link =
              IF StallExpired(s, ans) THEN "none" ELSE port[s].link
  BY SessionConstants
  DEF TypeOK, PortAfterSend, StallExpired, Answers, NoPort, Port, Links, NoStall

------------------------------------------------------------------------------
(* How a step keeps the parts of the invariant *)

(* The session of slot s is served no more, or runs on against the clocks  *)
(* it had; its READY window may start afresh.                              *)
ClocksKept(s) ==
    \/ ~Serving(s)'
    \/ /\ sess'[s].id = sess[s].id /\ sess'[s].state = sess[s].state
       /\ sess'[s].lastRx = sess[s].lastRx /\ sess'[s].deadman = sess[s].deadman
       /\ \/ sess'[s].ready = sess[s].ready /\ sess'[s].grantedAt = sess[s].grantedAt
          \/ sess'[s].grantedAt = now

(* A source can come to a session behind the cursor from nowhere: a frame  *)
(* gives it only to the session of the slot being read.                    *)
LEMMA TimelyStep ==
  ASSUME IInv, IdsNameSessions', OneSessionPerIdentity', now' = now, cursor' = cursor,
         \A s \in Slots : Pumped(s) => ClocksKept(s),
         \A x \in Sources : \/ owner'[x] \in {NoSid, owner[x]}
                            \/ cursor \in Slots /\ owner'[x] = sess'[cursor].id
  PROVE  PumpedAreTimely'
<1> SUFFICES ASSUME NEW s \in Slots, Pumped(s)'
             PROVE  Timely(s)'
  BY DEF PumpedAreTimely
<1>1. ClocksKept(s) /\ Timely(s) /\ s # cursor
  <2>1. Pumped(s)
    BY DEF Pumped
  <2>2. s # cursor
    BY DEF Pumped, Slots
  <2>3. QED
    BY <2>1, <2>2 DEF IInv, PumpedAreTimely
<1>2. ASSUME sess'[s].state = "LIVE", sess'[s].id = sess[s].id, Owns(s)'
      PROVE  Owns(s)
  <2>1. PICK x \in Sources : owner'[x] = sess'[s].id
    BY <1>2 DEF Owns
  <2>2. sess'[s].id # NoSid
    BY <1>2 DEF IdsNameSessions
  <2>3. cursor \in Slots => sess'[cursor].id # sess'[s].id
    BY <1>1, <1>2, <2>2 DEF OneSessionPerIdentity, IdsNameSessions, Occupied
  <2>4. owner[x] = sess[s].id
    BY <1>2, <2>1, <2>2, <2>3
  <2>5. QED
    BY <2>4 DEF Owns
<1>3. now < now + ReadyTimeoutMs
  BY SessionConstants DEF IInv, TypeOK
<1>4. (sess'[s].state = "LIVE" /\ Owns(s)') => now' < sess'[s].lastRx + sess'[s].deadman
  BY <1>1, <1>2 DEF ClocksKept, Timely, Serving
<1>5. (Serving(s)' /\ ~sess'[s].ready) => now' < sess'[s].grantedAt + ReadyTimeoutMs
  BY <1>1, <1>3 DEF ClocksKept, Timely, Serving
<1>6. QED
  BY <1>4, <1>5 DEF Timely

LEMMA FlagsStep ==
  ASSUME FlagsAreExact, etag' = etag,
         \A s \in Slots : SameFlags(sess[s], sess'[s]) \/ FlagIsExact(sess'[s], etag)
  PROVE  FlagsAreExact'
  BY DEF FlagsAreExact, FlagIsExact, SameFlags

(* Leases survive a step if each one that is left names a session served   *)
(* after it, or one served before whose id the step does not end.          *)
LEMMA LeaseStep ==
  ASSUME LeasesAreServed, NEW ids,
         \A x \in Sources : owner'[x] # NoSid =>
            \/ owner'[x] = owner[x] /\ owner[x] \notin ids
            \/ \E t \in Slots : Serving(t)' /\ sess'[t].id = owner'[x],
         \A k \in TrialKeys : trial'[k] # NoSid =>
            \/ trial'[k] = trial[k] /\ trial[k] \notin ids
            \/ \E t \in Slots : Serving(t)' /\ sess'[t].id = trial'[k],
         \A s \in Slots : (Serving(s) /\ sess[s].id \notin ids) =>
            \E t \in Slots : Serving(t)' /\ sess'[t].id = sess[s].id
  PROVE  LeasesAreServed'
<1>1. ASSUME NEW x \in Sources, owner'[x] # NoSid
      PROVE  \E t \in Slots : Serving(t)' /\ sess'[t].id = owner'[x]
  BY <1>1 DEF LeasesAreServed
<1>2. ASSUME NEW k \in TrialKeys, trial'[k] # NoSid
      PROVE  \E t \in Slots : Serving(t)' /\ sess'[t].id = trial'[k]
  BY <1>2 DEF LeasesAreServed
<1>3. QED
  BY <1>1, <1>2 DEF LeasesAreServed

(* What EndLeases leaves *)
LEMMA EndLeasesFacts ==
  ASSUME TypeOK, NEW S, EndLeases(S)
  PROVE  LET ids == {sess[s].id : s \in S \cap Occupied}
         IN  /\ owner' \in [Sources -> Sids \cup {NoSid}]
             /\ ownerRole' \in [Sources -> Roles]
             /\ trial' \in [TrialKeys -> Sids \cup {NoSid}]
             /\ \A x \in Sources : owner'[x] # NoSid =>
                  owner'[x] = owner[x] /\ owner[x] \notin ids
             /\ \A k \in TrialKeys : trial'[k] # NoSid =>
                  trial'[k] = trial[k] /\ trial[k] \notin ids
<1> DEFINE ids == {sess[s].id : s \in S \cap Occupied}
<1>1. /\ owner'     = OwnersWithout(owner, ids)
      /\ ownerRole' = RolesWithout(owner, ownerRole, ids)
      /\ trial'     = TrialsWithout(trial, ids)
  BY Zenon DEF EndLeases
<1> HIDE DEF ids
<1>2. QED
  <2>1. /\ owner' \in [Sources -> Sids \cup {NoSid}]
        /\ \A x \in Sources : owner'[x] # NoSid =>
                  owner'[x] = owner[x] /\ owner[x] \notin ids
    BY <1>1 DEF TypeOK, OwnersWithout
  <2>2. ownerRole' \in [Sources -> Roles]
    BY <1>1 DEF TypeOK, RolesWithout
  <2>3. /\ trial' \in [TrialKeys -> Sids \cup {NoSid}]
        /\ \A k \in TrialKeys : trial'[k] # NoSid =>
                  trial'[k] = trial[k] /\ trial[k] \notin ids
    BY <1>1 DEF TypeOK, TrialsWithout
  <2>4. QED
    BY <2>1, <2>2, <2>3 DEF ids

(* A step that ends sessions or keeps their identity keeps identities apart *)
LEMMA IdentityStep ==
  ASSUME IdsNameSessions, OneSessionPerIdentity,
         \A s \in Slots :
            \/ sess'[s] = NoSession
            \/ /\ sess'[s].id = sess[s].id /\ sess'[s].inst = sess[s].inst
               /\ sess'[s].state = "FREE" <=> sess[s].state = "FREE"
  PROVE  IdsNameSessions' /\ OneSessionPerIdentity'
  BY DEF IdsNameSessions, OneSessionPerIdentity, Occupied, NoSession

(* The shape most actions have: the sessions of the slots in S end or are  *)
(* parked with their leases, every other one keeps its identity.           *)
Ending(S) ==
    /\ EndLeases(S)
    /\ now' = now /\ cursor' = cursor /\ etag' \in 0 .. MaxEtag
    /\ port' \in [Slots -> Port] /\ sess' \in [Slots -> Session]
    /\ \A s \in Slots :
         /\ \/ sess'[s] = NoSession
            \/ /\ sess'[s].id = sess[s].id /\ sess'[s].inst = sess[s].inst
               /\ sess'[s].state = "FREE" <=> sess[s].state = "FREE"
         /\ (s \notin S /\ Serving(s)) => Serving(s)' /\ sess'[s].id = sess[s].id
         /\ Serving(s)' => port'[s].link # "none"
         /\ FlagIsExact(sess'[s], etag')
         /\ Pumped(s) => ClocksKept(s)

LEMMA EndingStep ==
  ASSUME IInv, NEW S, Ending(S)
  PROVE  IInv'
<1> DEFINE ids == {sess[s].id : s \in S \cap Occupied}
<1>0. EndLeases(S)
  BY DEF Ending
<1>1. TypeOK'
  BY <1>0, EndLeasesFacts DEF IInv, TypeOK, Ending
<1>2. IdsNameSessions' /\ OneSessionPerIdentity'
  BY IdentityStep DEF IInv, Ending
<1>3. ServedIsAttached'
  BY DEF ServedIsAttached, Attached, Ending
<1>4. \A s \in Slots : (Serving(s) /\ sess[s].id \notin ids) =>
         \E t \in Slots : Serving(t)' /\ sess'[t].id = sess[s].id
  BY DEF Serving, Occupied, Ending
<1>5. /\ \A x \in Sources : owner'[x] # NoSid => owner'[x] = owner[x] /\ owner[x] \notin ids
      /\ \A k \in TrialKeys : trial'[k] # NoSid => trial'[k] = trial[k] /\ trial[k] \notin ids
  BY <1>0, EndLeasesFacts DEF IInv
<1> HIDE DEF ids
<1>6. LeasesAreServed'
  <2>1. LeasesAreServed
    BY DEF IInv
  <2>2. QED
    BY <2>1, <1>4, <1>5, LeaseStep
<1>7. FlagsAreExact'
  BY DEF FlagsAreExact, Ending
<1>8. PumpedAreTimely'
  BY <1>2, <1>5, TimelyStep DEF Ending
<1>9. QED
  BY <1>1, <1>2, <1>3, <1>6, <1>7, <1>8 DEF IInv

(* A handler that answers on the never-shed plane *)
LEMMA SettleStep ==
  ASSUME IInv, NEW s \in Slots, s \in Attached, s = cursor, NEW e \in Session,
         SameFlags(sess[s], e), e.id = sess[s].id, e.inst = sess[s].inst,
         e.state = IF sess[s].state = "STALE" THEN "LIVE" ELSE sess[s].state,
         NEW own \in [Sources -> Sids \cup {NoSid}], NEW roles \in [Sources -> Roles],
         NEW tr \in [TrialKeys -> Sids \cup {NoSid}], NEW ans \in Answers,
         \A x \in Sources : own[x] \in {NoSid, owner[x], e.id},
         \A k \in TrialKeys : tr[k] \in {NoSid, trial[k], e.id},
         Settle(s, e, own, roles, tr, ans), UNCHANGED <<now, cursor, etag>>
  PROVE  IInv'
<1> DEFINE lost == IF StallExpired(s, ans) THEN {e.id} \ {NoSid} ELSE {}
<1>0. TypeOK /\ IdsNameSessions /\ LeasesAreServed /\ ServedIsAttached
      /\ now \in 0 .. MaxNow /\ sess \in [Slots -> Session] /\ port \in [Slots -> Port]
  BY DEF IInv, TypeOK
<1>1. /\ port' = [port EXCEPT ![s] = PortAfterSend(s, ans)]
      /\ sess' = [sess EXCEPT ![s] = IF StallExpired(s, ans) THEN Parked(e) ELSE e]
      /\ owner'     = OwnersWithout(own, lost)
      /\ ownerRole' = RolesWithout(own, roles, lost)
      /\ trial'     = TrialsWithout(tr, lost)
  BY Zenon DEF Settle
<1>2. sess' \in [Slots -> Session] /\ port' \in [Slots -> Port]
  BY <1>0, <1>1, ParkedFacts, PortAfterSendFacts
<1>3. /\ sess'[s].id = sess[s].id /\ sess'[s].inst = sess[s].inst
      /\ sess'[s].state = "FREE" <=> sess[s].state = "FREE"
      /\ ~StallExpired(s, ans) => sess'[s].state = e.state
      /\ StallExpired(s, ans) => sess'[s].state \in {"FREE", "STALE"}
      /\ \A t \in Slots \ {s} : sess'[t] = sess[t] /\ port'[t] = port[t]
      /\ ~StallExpired(s, ans) => port'[s].link = port[s].link
      /\ SameFlags(sess[s], sess'[s])
  BY <1>0, <1>1, ParkedFacts, PortAfterSendFacts DEF SameFlags
<1>4. TypeOK'
  <2>1. owner' \in [Sources -> Sids \cup {NoSid}] /\ ownerRole' \in [Sources -> Roles]
        /\ trial' \in [TrialKeys -> Sids \cup {NoSid}]
    BY <1>1 DEF OwnersWithout, RolesWithout, TrialsWithout
  <2>2. QED
    BY <2>1, <1>0, <1>2 DEF TypeOK
<1>5. IdsNameSessions' /\ OneSessionPerIdentity'
  BY <1>3, IdentityStep DEF IInv
<1>6. ServedIsAttached'
  BY <1>0, <1>3 DEF ServedIsAttached, Attached, Serving
<1>7. LeasesAreServed'
  <2>1. \A t \in Slots : (Serving(t) /\ sess[t].id \notin lost) =>
           \E u \in Slots : Serving(u)' /\ sess'[u].id = sess[t].id
    <3> SUFFICES ASSUME NEW t \in Slots, Serving(t), sess[t].id \notin lost
                 PROVE  Serving(t)' /\ sess'[t].id = sess[t].id
      OBVIOUS
    <3>1. CASE t # s
      BY <3>1, <1>3 DEF Serving
    <3>2. CASE t = s
      <4>1. sess[s].id # NoSid
        BY <3>2, <1>0 DEF IdsNameSessions, Serving
      <4>2. ~StallExpired(s, ans)
        BY <4>1, <3>2
      <4>3. QED
        BY <4>2, <3>2, <1>3 DEF Serving
    <3>3. QED
      BY <3>1, <3>2
  <2>2. ASSUME NEW i \in Sids, i = e.id, i \notin lost
        PROVE  \E u \in Slots : Serving(u)' /\ sess'[u].id = i
    <3>1. sess[s].state # "FREE"
      BY <2>2, <1>0, SessionConstants DEF IdsNameSessions
    <3>2. ~StallExpired(s, ans)
      BY <2>2, SessionConstants
    <3>3. e.state \in {"VALIDATING", "LIVE"}
      BY <3>1, <1>0 DEF Session, States
    <3>4. Serving(s)' /\ sess'[s].id = i
      BY <3>2, <3>3, <1>3, <2>2 DEF Serving
    <3>5. QED
      BY <3>4
  <2>3. \A x \in Sources : owner'[x] # NoSid =>
           \/ owner'[x] = owner[x] /\ owner[x] \notin lost
           \/ \E u \in Slots : Serving(u)' /\ sess'[u].id = owner'[x]
    <3> SUFFICES ASSUME NEW x \in Sources, owner'[x] # NoSid
                 PROVE  \/ owner'[x] = owner[x] /\ owner[x] \notin lost
                        \/ \E u \in Slots : Serving(u)' /\ sess'[u].id = owner'[x]
      OBVIOUS
    <3> HIDE DEF lost
    <3>1. owner'[x] = own[x] /\ own[x] \notin lost /\ own[x] \in Sids
      BY <1>1 DEF OwnersWithout
    <3>2. QED
      BY <3>1, <2>2
  <2>4. \A k \in TrialKeys : trial'[k] # NoSid =>
           \/ trial'[k] = trial[k] /\ trial[k] \notin lost
           \/ \E u \in Slots : Serving(u)' /\ sess'[u].id = trial'[k]
    <3> SUFFICES ASSUME NEW k \in TrialKeys, trial'[k] # NoSid
                 PROVE  \/ trial'[k] = trial[k] /\ trial[k] \notin lost
                        \/ \E u \in Slots : Serving(u)' /\ sess'[u].id = trial'[k]
      OBVIOUS
    <3> HIDE DEF lost
    <3>1. trial'[k] = tr[k] /\ tr[k] \notin lost /\ tr[k] \in Sids
      BY <1>1 DEF TrialsWithout
    <3>2. QED
      BY <3>1, <2>2
  <2> HIDE DEF lost
  <2>5. QED
    BY <1>0, <2>1, <2>3, <2>4, LeaseStep
<1>8. FlagsAreExact'
  BY <1>3, FlagsStep DEF IInv, SameFlags
<1>9. PumpedAreTimely'
  <2>1. \A t \in Slots : Pumped(t) => ClocksKept(t)
    <3>1. \A t \in Slots : Pumped(t) => t # s
      BY DEF Pumped, Slots
    <3>2. QED
      BY <3>1, <1>3 DEF ClocksKept
  <2>2. \A x \in Sources : owner'[x] \in {NoSid, owner[x]} \/ owner'[x] = sess'[cursor].id
    <3> HIDE DEF lost
    <3>1. QED
      BY <1>1, <1>3 DEF OwnersWithout
  <2>3. QED
    BY <2>1, <2>2, <1>5, TimelyStep
<1>10. QED
  BY <1>4, <1>5, <1>6, <1>7, <1>8, <1>9 DEF IInv

------------------------------------------------------------------------------
(* One lemma per action *)

LEMMA AttachKeeps == IInv /\ AttachTransport => IInv'
<1> SUFFICES ASSUME IInv, AttachTransport PROVE IInv'
  OBVIOUS
<1>1. /\ now' = now /\ cursor' = cursor /\ etag' = etag
      /\ now \in 0 .. MaxNow /\ cursor \in 0 .. (MaxSessions + 1) /\ etag \in 0 .. MaxEtag
      /\ port \in [Slots -> Port] /\ sess \in [Slots -> Session]
      /\ ServedIsAttached /\ \A s \in Slots : FlagIsExact(sess[s], etag)
  BY DEF AttachTransport, IInv, TypeOK, FlagsAreExact
<1>2. PICK link \in Links :
        \/ \E s \in {r \in Slots : r \notin Attached /\ r \notin Occupied} :
             /\ port' = [port EXCEPT ![s].link = link]
             /\ UNCHANGED <<sess, owner, ownerRole, trial>>
        \/ \E v \in EvictableStale(Slots) :
             /\ port' = [port EXCEPT ![v].link = link]
             /\ sess' = [sess EXCEPT ![v] = NoSession]
             /\ EndLeases({v})
  BY SessionConstants DEF AttachTransport, Links
<1>3. ASSUME NEW s \in Slots, s \notin Occupied,
             port' = [port EXCEPT ![s].link = link],
             UNCHANGED <<sess, owner, ownerRole, trial>>
      PROVE  IInv'
  <2>1. /\ port' \in [Slots -> Port]
        /\ \A r \in Slots \ {s} : port'[r] = port[r]
    BY <1>1, <1>3 DEF Port
  <2>2. TypeOK'
    BY <1>1, <1>3, <2>1 DEF IInv, TypeOK
  <2>3. ServedIsAttached'
    BY <1>1, <1>3, <2>1 DEF ServedIsAttached, Attached, Serving, Occupied
  <2>4. IdsNameSessions' /\ OneSessionPerIdentity' /\ LeasesAreServed'
    BY <1>3 DEF IInv, IdsNameSessions, OneSessionPerIdentity, LeasesAreServed, Serving, Occupied
  <2>5. FlagsAreExact' /\ PumpedAreTimely'
    BY <1>1, <1>3 DEF IInv, FlagsAreExact, PumpedAreTimely, Pumped, Timely, Owns, Serving
  <2>6. QED
    BY <2>2, <2>3, <2>4, <2>5 DEF IInv
<1>4. ASSUME NEW v \in EvictableStale(Slots),
             port' = [port EXCEPT ![v].link = link],
             sess' = [sess EXCEPT ![v] = NoSession],
             EndLeases({v})
      PROVE  IInv'
  <2>1. v \in Slots /\ sess[v].state = "STALE"
    BY DEF EvictableStale
  <2>2. /\ port' \in [Slots -> Port] /\ sess' \in [Slots -> Session]
        /\ sess'[v] = NoSession
        /\ \A s \in Slots \ {v} : sess'[s] = sess[s] /\ port'[s] = port[s]
    BY <1>1, <1>4, <2>1, BlankValues DEF Port
  <2>3. Ending({v})
    <3>1. \A s \in Slots : FlagIsExact(sess'[s], etag')
      BY <1>1, <2>2, BlankValues
    <3>2. \A s \in Slots : ClocksKept(s)
      BY <2>2 DEF ClocksKept, Serving, NoSession
    <3>3. QED
      BY <3>1, <3>2, <1>1, <1>4, <2>1, <2>2 DEF Ending, Serving, ServedIsAttached, Attached, NoSession
  <2>4. QED
    BY <2>3, EndingStep
<1>5. QED
  BY <1>2, <1>3, <1>4

LEMMA DetachKeeps == IInv /\ DetachTransport => IInv'
<1> SUFFICES ASSUME IInv, DetachTransport PROVE IInv'
  OBVIOUS
<1>1. /\ now' = now /\ cursor' = cursor /\ etag' = etag
      /\ now \in 0 .. MaxNow /\ cursor \in 0 .. (MaxSessions + 1) /\ etag \in 0 .. MaxEtag
      /\ port \in [Slots -> Port] /\ sess \in [Slots -> Session]
      /\ ServedIsAttached /\ \A s \in Slots : FlagIsExact(sess[s], etag)
  BY DEF DetachTransport, IInv, TypeOK, FlagsAreExact
<1>2. PICK s \in Slots : /\ port' = [port EXCEPT ![s] = NoPort]
                         /\ sess' = [sess EXCEPT ![s] = Parked(sess[s])]
                         /\ EndLeases(IF sess[s].state = "STALE" THEN {} ELSE {s})
  BY DEF DetachTransport, Attached
<1>3. /\ port' \in [Slots -> Port] /\ sess' \in [Slots -> Session]
      /\ sess'[s] = Parked(sess[s])
      /\ \A r \in Slots \ {s} : sess'[r] = sess[r] /\ port'[r] = port[r]
  BY <1>1, <1>2, BlankValues, ParkedFacts
<1>4. \A r \in Slots : Serving(r)' => port'[r].link # "none"
  BY <1>1, <1>3, ParkedFacts DEF Serving, ServedIsAttached, Attached
<1>5. \A r \in Slots : /\ sess'[r].id = sess[r].id /\ sess'[r].inst = sess[r].inst
                       /\ sess'[r].state = "FREE" <=> sess[r].state = "FREE"
                       /\ FlagIsExact(sess'[r], etag') /\ ClocksKept(r)
  BY <1>1, <1>3, ParkedFacts DEF FlagIsExact, SameFlags, ClocksKept, Serving
<1>6. CASE sess[s].state = "STALE"
  <2>1. EndLeases({})
    BY <1>2, <1>6
  <2>2. Ending({})
    BY <2>1, <1>1, <1>3, <1>4, <1>5, <1>6 DEF Ending, Serving
  <2>3. QED
    BY <2>2, EndingStep
<1>7. CASE sess[s].state # "STALE"
  <2>1. EndLeases({s})
    BY <1>2, <1>7
  <2>2. Ending({s})
    BY <2>1, <1>1, <1>3, <1>4, <1>5 DEF Ending, Serving
  <2>3. QED
    BY <2>2, EndingStep
<1>8. QED
  BY <1>6, <1>7

LEMMA CongestionKeeps == IInv /\ SetCongestionLevel => IInv'
<1> SUFFICES ASSUME IInv, SetCongestionLevel PROVE IInv'
  OBVIOUS
<1>1. PICK s \in Slots, high \in BOOLEAN :
        port' = [port EXCEPT ![s].congested = high,
                             ![s].stall = IF high THEN @ ELSE NoStall]
  BY SessionConstants DEF SetCongestionLevel, Attached
<1>2. UNCHANGED <<now, cursor, etag, sess, owner, ownerRole, trial>>
  BY DEF SetCongestionLevel
<1>3. port' \in [Slots -> Port] /\ \A r \in Slots : port'[r].link = port[r].link
  <2>1. port \in [Slots -> Port] /\ NoStall \in 0 .. NoStall
    BY SessionConstants DEF IInv, TypeOK, NoStall
  <2>2. QED
    BY <1>1, <2>1 DEF Port
<1>4. TypeOK'
  BY <1>2, <1>3 DEF IInv, TypeOK
<1>5. IdsNameSessions' /\ OneSessionPerIdentity' /\ LeasesAreServed'
  BY <1>2 DEF IInv, IdsNameSessions, OneSessionPerIdentity, LeasesAreServed, Serving, Occupied
<1>6. ServedIsAttached'
  BY <1>2, <1>3 DEF IInv, ServedIsAttached, Serving, Attached
<1>7. FlagsAreExact' /\ PumpedAreTimely'
  BY <1>2 DEF IInv, FlagsAreExact, PumpedAreTimely, Pumped, Timely, Owns, Serving
<1>8. QED
  BY <1>4, <1>5, <1>6, <1>7 DEF IInv

(* What every frame handler of slot s starts from *)
LEMMA ReadingFacts ==
  ASSUME IInv, NEW s \in Slots, Reading(s)
  PROVE  /\ TypeOK /\ ServedIsAttached /\ IdsNameSessions /\ OneSessionPerIdentity
         /\ LeasesAreServed /\ FlagsAreExact /\ PumpedAreTimely
         /\ now \in 0 .. MaxNow /\ cursor \in 0 .. (MaxSessions + 1) /\ etag \in 0 .. MaxEtag
         /\ port \in [Slots -> Port] /\ sess \in [Slots -> Session]
         /\ s \in Attached /\ s = cursor
         /\ \A r \in Slots : FlagIsExact(sess[r], etag) /\ (Pumped(r) => r # s)
  BY DEF Reading, IInv, TypeOK, FlagsAreExact, Pumped, Slots

LEMMA RefuseKeeps ==
  ASSUME IInv, NEW s \in Slots, Reading(s), NEW inst, RefuseHello(s, inst),
         UNCHANGED <<now, cursor, etag>>
  PROVE  IInv'
<1> DEFINE D == SlotsOfInstance(inst, s)
<1>1. D \subseteq Slots \ {s}
  BY DEF SlotsOfInstance, Occupied
<1>2. /\ sess' = [x \in Slots |-> CASE x \in D -> NoSession
                                     [] x = s -> Touched(sess[x])
                                     [] OTHER -> sess[x]]
      /\ EndLeases(D) /\ port' = port
  BY DEF RefuseHello
<1> HIDE DEF D
<1>3. /\ sess' \in [Slots -> Session]
      /\ \A r \in D : sess'[r] = NoSession
      /\ sess'[s] = Touched(sess[s])
      /\ \A r \in Slots \ (D \cup {s}) : sess'[r] = sess[r]
  BY <1>1, <1>2, BlankValues, TouchedFacts, ReadingFacts
<1>4. /\ sess'[s].id = sess[s].id /\ sess'[s].inst = sess[s].inst
      /\ sess'[s].state = IF sess[s].state = "STALE" THEN "LIVE" ELSE sess[s].state
  BY <1>3, TouchedFacts, ReadingFacts
<1>5. Ending(D)
  <2>1. \A r \in Slots : FlagIsExact(sess'[r], etag') /\ (Pumped(r) => ClocksKept(r))
    BY <1>1, <1>3, BlankValues, TouchedFacts, ReadingFacts
    DEF FlagIsExact, SameFlags, ClocksKept, Serving, NoSession
  <2>2. QED
    BY ZenonT(60), <2>1, <1>1, <1>2, <1>3, <1>4, ReadingFacts
    DEF Ending, Serving, ServedIsAttached, Attached, NoSession
<1>6. QED
  BY <1>5, EndingStep

(* A fresh session takes an id no session has, after every other session   *)
(* of its instance has ended.                                              *)
LEMMA AdmitKeeps ==
  ASSUME IInv, NEW s \in Slots, Reading(s), NEW inst \in Instances, NEW role \in Roles,
         NEW window \in DeadmanWindows, NEW tag, NEW welcomed \in BOOLEAN,
         AdmitHello(s, inst, role, window, tag, welcomed),
         UNCHANGED <<now, cursor, etag>>
  PROVE  IInv'
<1> DEFINE D == SlotsOfInstance(inst, s) \cup Yielding(inst, s) \cup {s}
           ids == {sess[r].id : r \in D \cap Occupied}
<1>0. /\ TypeOK /\ ServedIsAttached /\ IdsNameSessions /\ OneSessionPerIdentity
      /\ LeasesAreServed /\ s \in Attached
      /\ port \in [Slots -> Port] /\ sess \in [Slots -> Session]
  BY ReadingFacts
<1>1. EndLeases(D) /\ port' = port
  BY DEF AdmitHello
<1>2. PICK i \in Sids \ UsedIds :
        sess' = [x \in Slots |->
                   CASE x = s -> FreshSession(s, i, inst, role, window, tag, welcomed)
                     [] x \in D \ {s} -> NoSession
                     [] OTHER -> sess[x]]
  BY DEF AdmitHello
<1>3. \A r \in Occupied \ D : sess[r].inst # inst
  BY DEF SlotsOfInstance
<1>4. /\ \A x \in Sources : owner'[x] # NoSid => owner'[x] = owner[x] /\ owner[x] \notin ids
      /\ \A k \in TrialKeys : trial'[k] # NoSid => trial'[k] = trial[k] /\ trial[k] \notin ids
      /\ owner' \in [Sources -> Sids \cup {NoSid}] /\ ownerRole' \in [Sources -> Roles]
      /\ trial' \in [TrialKeys -> Sids \cup {NoSid}]
  BY <1>0, <1>1, EndLeasesFacts
<1>6. s \in D
  OBVIOUS
<1> HIDE DEF D
<1> DEFINE f == FreshSession(s, i, inst, role, window, tag, welcomed)
<1>8. /\ f \in Session /\ f.id = i /\ f.inst = inst /\ f.state \in {"VALIDATING", "LIVE"}
      /\ FlagIsExact(f, etag)
  BY <1>0, FreshFacts
<1> HIDE DEF f
<1>9. /\ sess' \in [Slots -> Session] /\ sess'[s] = f
      /\ \A r \in Slots \ {s} : r \in D => sess'[r] = NoSession
      /\ \A r \in Slots \ {s} : r \notin D => sess'[r] = sess[r]
  BY <1>0, <1>2, <1>8, BlankValues DEF f
<1>10. TypeOK'
  BY <1>0, <1>1, <1>4, <1>9 DEF TypeOK
<1>11. ServedIsAttached'
  BY <1>0, <1>1, <1>9 DEF ServedIsAttached, Serving, Attached, NoSession
<1>12. IdsNameSessions'
  BY <1>0, <1>8, <1>9, SessionConstants DEF IdsNameSessions, NoSession
<1>13. OneSessionPerIdentity'
  <2>1. Occupied' \subseteq {s} \cup (Occupied \ D)
    BY <1>9 DEF Occupied, NoSession
  <2>2. \A r \in Occupied \ D : r \in Slots \ {s} /\ sess'[r] = sess[r] /\ sess[r].id # i
    BY <1>6, <1>9 DEF Occupied, UsedIds
  <2>3. QED
    BY <2>1, <2>2, <1>0, <1>3, <1>8, <1>9 DEF OneSessionPerIdentity
<1>14. LeasesAreServed'
  <2>1. \A r \in Slots : (Serving(r) /\ sess[r].id \notin ids) =>
           \E t \in Slots : Serving(t)' /\ sess'[t].id = sess[r].id
    BY <1>6, <1>9 DEF Serving, Occupied
  <2> HIDE DEF ids
  <2>2. QED
    BY <2>1, <1>0, <1>4, LeaseStep
<1>15. FlagsAreExact'
  <2>1. \A r \in Slots : SameFlags(sess[r], sess'[r]) \/ FlagIsExact(sess'[r], etag)
    BY <1>8, <1>9, BlankValues DEF SameFlags
  <2>2. QED
    BY <2>1, ReadingFacts, FlagsStep
<1>16. PumpedAreTimely'
  <2>1. \A r \in Slots : Pumped(r) => ClocksKept(r)
    BY <1>9, ReadingFacts DEF ClocksKept, Serving, NoSession
  <2>2. QED
    BY <2>1, <1>4, <1>12, <1>13, TimelyStep
<1>17. QED
  BY <1>10, <1>11, <1>12, <1>13, <1>14, <1>15, <1>16 DEF IInv

(* A reattached session moves to the slot of its new transport *)
LEMMA ReattachKeeps ==
  ASSUME IInv, NEW s \in Slots, Reading(s), NEW d \in Slots \ {s},
         sess[d].state = "STALE", NEW role \in Roles, NEW tag, NEW welcomed \in BOOLEAN,
         HandleReattach(s, d, role, tag, welcomed),
         UNCHANGED <<now, cursor, etag>>
  PROVE  IInv'
<1> DEFINE f   == ReattachedSession(s, d, role, tag, welcomed)
           ids == {sess[r].id : r \in {s} \cap Occupied}
<1>0. /\ TypeOK /\ ServedIsAttached /\ IdsNameSessions /\ OneSessionPerIdentity
      /\ LeasesAreServed /\ s \in Attached
      /\ port \in [Slots -> Port] /\ sess \in [Slots -> Session]
  BY ReadingFacts
<1>1. /\ f \in Session /\ f.id = sess[d].id /\ f.inst = sess[d].inst
      /\ f.state \in {"LIVE", "STALE"} /\ FlagIsExact(f, etag)
  BY <1>0, ReattachedFacts
<1>2. /\ sess' = [sess EXCEPT ![s] = f, ![d] = NoSession]
      /\ port' = [port EXCEPT ![s].congested = FALSE, ![s].stall = NoStall, ![d].link = "none"]
      /\ EndLeases({s})
  BY DEF HandleReattach
<1> HIDE DEF f
<1>3. /\ sess' \in [Slots -> Session] /\ sess'[s] = f /\ sess'[d] = NoSession
      /\ \A r \in Slots \ {s, d} : sess'[r] = sess[r]
  BY <1>0, <1>1, <1>2, BlankValues
<1>4. /\ port' \in [Slots -> Port]
      /\ \A r \in Slots \ {d} : port'[r].link = port[r].link
  <2>1. NoStall \in 0 .. NoStall /\ "none" \in Links /\ FALSE \in BOOLEAN
    BY SessionConstants DEF NoStall, Links
  <2>2. QED
    BY ZenonT(60), <1>0, <1>2, <2>1 DEF Port
<1>5. /\ \A x \in Sources : owner'[x] # NoSid => owner'[x] = owner[x] /\ owner[x] \notin ids
      /\ \A k \in TrialKeys : trial'[k] # NoSid => trial'[k] = trial[k] /\ trial[k] \notin ids
      /\ owner' \in [Sources -> Sids \cup {NoSid}] /\ ownerRole' \in [Sources -> Roles]
      /\ trial' \in [TrialKeys -> Sids \cup {NoSid}]
  BY <1>0, <1>2, EndLeasesFacts
<1>6. TypeOK'
  BY <1>0, <1>3, <1>4, <1>5 DEF TypeOK
<1>7. ServedIsAttached'
  BY <1>0, <1>3, <1>4 DEF ServedIsAttached, Serving, Attached, NoSession
<1>8. IdsNameSessions'
  BY <1>0, <1>1, <1>3 DEF IdsNameSessions, NoSession
<1>9. OneSessionPerIdentity'
  BY <1>0, <1>1, <1>3 DEF OneSessionPerIdentity, Occupied, NoSession
<1>10. LeasesAreServed'
  <2>1. \A r \in Slots : (Serving(r) /\ sess[r].id \notin ids) =>
           \E t \in Slots : Serving(t)' /\ sess'[t].id = sess[r].id
    BY <1>3 DEF Serving, Occupied
  <2> HIDE DEF ids
  <2>2. QED
    BY <2>1, <1>0, <1>5, LeaseStep
<1>11. FlagsAreExact'
  <2>1. \A r \in Slots : SameFlags(sess[r], sess'[r]) \/ FlagIsExact(sess'[r], etag)
    BY <1>1, <1>3, BlankValues DEF SameFlags
  <2>2. QED
    BY <2>1, ReadingFacts, FlagsStep
<1>12. PumpedAreTimely'
  <2>1. \A r \in Slots : Pumped(r) => ClocksKept(r)
    BY <1>3, ReadingFacts DEF ClocksKept, Serving, NoSession
  <2>2. QED
    BY <2>1, <1>5, <1>8, <1>9, TimelyStep
<1>13. QED
  BY <1>6, <1>7, <1>8, <1>9, <1>10, <1>11, <1>12 DEF IInv

LEMMA HelloKeeps ==
  ASSUME IInv, NEW s \in Slots, HandleHello(s)
  PROVE  IInv'
<1>1. Reading(s) /\ UNCHANGED <<now, cursor, etag>>
  BY DEF HandleHello
<1>2. Tokens \subseteq Roles /\ Watch \in Roles
  BY SessionConstants
<1>3. PICK inst \in Instances, token \in Tokens, tag \in {"match", "differ", "absent"},
           window \in DeadmanWindows, welcomed \in BOOLEAN :
        \E role \in {token, Watch} :
          \/ \E d \in Resumable(s, inst, token) : HandleReattach(s, d, role, tag, welcomed)
          \/ RefuseHello(s, inst)
          \/ AdmitHello(s, inst, role, window, tag, welcomed)
  BY DEF HandleHello
<1>4. PICK role \in Roles :
        \/ \E d \in Resumable(s, inst, token) : HandleReattach(s, d, role, tag, welcomed)
        \/ RefuseHello(s, inst)
        \/ AdmitHello(s, inst, role, window, tag, welcomed)
  BY <1>2, <1>3
<1>5. \A d \in Resumable(s, inst, token) : d \in Slots \ {s} /\ sess[d].state = "STALE"
  BY DEF Resumable, SlotsOfInstance, Occupied
<1>6. CASE \E d \in Resumable(s, inst, token) : HandleReattach(s, d, role, tag, welcomed)
  BY <1>1, <1>5, <1>6, ReattachKeeps
<1>7. CASE RefuseHello(s, inst)
  BY <1>1, <1>7, RefuseKeeps
<1>8. CASE AdmitHello(s, inst, role, window, tag, welcomed)
  BY <1>1, <1>8, AdmitKeeps
<1>9. QED
  BY <1>4, <1>6, <1>7, <1>8

LEMMA OtherFrameKeeps ==
  ASSUME IInv, NEW s \in Slots, OtherFrame(s)
  PROVE  IInv'
<1>1. /\ Reading(s) /\ UNCHANGED <<now, cursor, etag>>
      /\ \E ans \in Answers :
           Settle(s, Touched(sess[s]), owner, ownerRole, trial, ans)
  BY DEF OtherFrame, Answers
<1>2. /\ s \in Attached /\ s = cursor /\ sess[s] \in Session /\ now \in 0 .. MaxNow
      /\ owner \in [Sources -> Sids \cup {NoSid}] /\ ownerRole \in [Sources -> Roles]
      /\ trial \in [TrialKeys -> Sids \cup {NoSid}]
  BY <1>1, ReadingFacts DEF TypeOK
<1>3. QED
  BY <1>1, <1>2, TouchedFacts, SettleStep

(* A handler that leaves the session's identity and every lease alone *)
LEMMA QuietStep ==
  ASSUME IInv, NEW s \in Slots, s \in Attached \/ sess[s].state = "FREE", NEW e \in Session,
         e.id = sess[s].id, e.inst = sess[s].inst,
         e.state \in {sess[s].state, "LIVE"}, sess[s].state = "FREE" => e.state = "FREE",
         FlagIsExact(e, etag),
         s = cursor \/ (/\ e.state = sess[s].state /\ e.lastRx = sess[s].lastRx
                        /\ e.deadman = sess[s].deadman /\ e.ready = sess[s].ready
                        /\ e.grantedAt = sess[s].grantedAt),
         sess' = [sess EXCEPT ![s] = e],
         UNCHANGED <<now, cursor, etag, port, owner, ownerRole, trial>>
  PROVE  IInv'
<1>1. sess \in [Slots -> Session] /\ TypeOK /\ IdsNameSessions /\ ServedIsAttached
      /\ OneSessionPerIdentity /\ LeasesAreServed
  BY DEF IInv, TypeOK
<1>2. /\ sess' \in [Slots -> Session] /\ sess'[s] = e
      /\ \A r \in Slots \ {s} : sess'[r] = sess[r]
  BY <1>1
<1>3. TypeOK'
  BY <1>1, <1>2 DEF TypeOK
<1>4. IdsNameSessions' /\ OneSessionPerIdentity'
  BY <1>1, <1>2, IdentityStep
<1>5. ServedIsAttached'
  BY <1>1, <1>2 DEF ServedIsAttached, Serving, Attached
<1>6. \A r \in Slots : Serving(r) => Serving(r)' /\ sess'[r].id = sess[r].id
  BY <1>2 DEF Serving
<1>7. LeasesAreServed'
  BY <1>1, <1>6 DEF LeasesAreServed
<1>8. FlagsAreExact'
  <2>1. \A r \in Slots : SameFlags(sess[r], sess'[r]) \/ FlagIsExact(sess'[r], etag)
    BY <1>2 DEF SameFlags
  <2>2. QED
    BY <2>1, FlagsStep DEF IInv
<1>9. PumpedAreTimely'
  <2>1. \A r \in Slots : Pumped(r) => ClocksKept(r)
    <3>1. \A r \in Slots : Pumped(r) => r # cursor
      BY DEF Pumped, Slots
    <3>2. QED
      BY <3>1, <1>2 DEF ClocksKept
  <2>2. QED
    BY <2>1, <1>4, TimelyStep
<1>10. QED
  BY <1>3, <1>4, <1>5, <1>7, <1>8, <1>9 DEF IInv

LEMMA CatalogReadyKeeps ==
  ASSUME IInv, NEW s \in Slots, HandleCatalogReady(s)
  PROVE  IInv'
<1>1. /\ Reading(s) /\ sess[s].state # "FREE"
      /\ UNCHANGED <<now, cursor, etag, port, owner, ownerRole, trial>>
  BY DEF HandleCatalogReady, Occupied
<1>2. PICK e \in 0 .. etag :
        sess' = [sess EXCEPT ![s] = [Touched(sess[s]) EXCEPT !.ready = TRUE, !.readyEtag = e,
                                                             !.mismatch = e # etag]]
  BY DEF HandleCatalogReady
<1>3. s \in Attached /\ Touched(sess[s]) \in Session /\ e \in 0 .. MaxEtag
      /\ sess[s] \in Session
  BY <1>1, ReadingFacts, TouchedFacts, SessionConstants
<1> DEFINE f(m) == [Touched(sess[s]) EXCEPT !.ready = TRUE, !.readyEtag = e, !.mismatch = m]
<1>4. ASSUME NEW m \in BOOLEAN
      PROVE  /\ f(m) \in Session /\ f(m).id = Touched(sess[s]).id
             /\ f(m).inst = Touched(sess[s]).inst /\ f(m).state = Touched(sess[s]).state
             /\ f(m).mismatch = m /\ f(m).readyEtag = e
  <2> DEFINE g == Touched(sess[s])
  <2>1. g \in Session
    BY <1>3
  <2> HIDE DEF g
  <2>2. QED
    BY <2>1, <1>3 DEF Session, g
<1>5. sess' = [sess EXCEPT ![s] = f(e # etag)] /\ (e # etag) \in BOOLEAN
  BY <1>2
<1> HIDE DEF f
<1>6. FlagIsExact(f(e # etag), etag)
  <2>1. Touched(sess[s]).state # "FREE"
    BY <1>1, <1>3, TouchedFacts, ReadingFacts
  <2>2. QED
    BY <2>1, <1>4, <1>5 DEF FlagIsExact
<1>7. QED
  BY <1>1, <1>3, <1>4, <1>5, <1>6, ReadingFacts, TouchedFacts, QuietStep

(* A role is all that changes *)
LEMMA RoleFacts ==
  ASSUME NEW e \in Session, NEW role \in Roles
  PROVE  LET f == [e EXCEPT !.role = role]
         IN  /\ f \in Session /\ f.id = e.id /\ f.inst = e.inst /\ f.state = e.state
             /\ SameFlags(e, f)
             /\ f.lastRx = e.lastRx /\ f.deadman = e.deadman /\ f.grantedAt = e.grantedAt
  BY DEF Session, SameFlags

LEMMA AuthKeeps ==
  ASSUME IInv, NEW s \in Slots, HandleAuth(s)
  PROVE  IInv'
<1>1. /\ Reading(s) /\ sess[s].state # "FREE"
      /\ UNCHANGED <<now, cursor, etag, port, owner, ownerRole, trial>>
  BY DEF HandleAuth, Occupied
<1>2. PICK role \in Roles : sess' = [sess EXCEPT ![s] = [Touched(sess[s]) EXCEPT !.role = role]]
  <2>1. \A role \in Tokens : TierOf(s, role) \in Roles
    BY SessionConstants DEF TierOf
  <2>2. QED
    BY <2>1 DEF HandleAuth
<1>3. s \in Attached /\ s = cursor /\ sess[s] \in Session /\ Touched(sess[s]) \in Session
      /\ now \in 0 .. MaxNow /\ FlagIsExact(sess[s], etag)
  BY <1>1, ReadingFacts, TouchedFacts
<1> DEFINE f == [Touched(sess[s]) EXCEPT !.role = role]
<1>4. /\ f \in Session /\ f.id = Touched(sess[s]).id
      /\ f.inst = Touched(sess[s]).inst /\ f.state = Touched(sess[s]).state
      /\ SameFlags(Touched(sess[s]), f)
  BY <1>3, RoleFacts
<1>5. sess' = [sess EXCEPT ![s] = f]
  BY <1>2
<1> HIDE DEF f
<1>6. FlagIsExact(f, etag)
  BY <1>3, <1>4, TouchedFacts DEF SameFlags, FlagIsExact
<1>7. QED
  BY <1>1, <1>3, <1>4, <1>5, <1>6, TouchedFacts, QuietStep

LEMMA ApproveKeeps == IInv /\ ApprovePendingConfigure => IInv'
<1> SUFFICES ASSUME IInv, ApprovePendingConfigure PROVE IInv'
  OBVIOUS
<1>1. PICK s \in Slots : s \in Attached /\ sess' = [sess EXCEPT ![s].role = Configure]
  BY DEF ApprovePendingConfigure, Attached
<1>2. sess[s] \in Session /\ Configure \in Roles
      /\ UNCHANGED <<now, cursor, etag, port, owner, ownerRole, trial>>
      /\ FlagIsExact(sess[s], etag)
  BY DEF ApprovePendingConfigure, IInv, TypeOK, FlagsAreExact
<1> DEFINE f == [sess[s] EXCEPT !.role = Configure]
<1>3. /\ f \in Session /\ f.id = sess[s].id /\ f.inst = sess[s].inst /\ f.state = sess[s].state
      /\ SameFlags(sess[s], f) /\ f.lastRx = sess[s].lastRx
      /\ f.deadman = sess[s].deadman /\ f.grantedAt = sess[s].grantedAt
  BY <1>2, RoleFacts
<1>4. sess' = [sess EXCEPT ![s] = f]
  BY <1>1
<1> HIDE DEF f
<1>5. FlagIsExact(f, etag) /\ f.ready = sess[s].ready
  BY <1>2, <1>3 DEF SameFlags, FlagIsExact
<1>6. QED
  BY ZenonT(60), <1>1, <1>2, <1>3, <1>4, <1>5, QuietStep

LEMMA GoodbyeKeeps ==
  ASSUME IInv, NEW s \in Slots, HandleGoodbye(s)
  PROVE  IInv'
<1>1. /\ Reading(s) /\ sess' = [sess EXCEPT ![s] = NoSession] /\ EndLeases({s})
      /\ UNCHANGED <<now, cursor, etag, port>>
  BY DEF HandleGoodbye
<1>2. Ending({s})
  <2>1. \A r \in Slots : FlagIsExact(sess'[r], etag') /\ (Pumped(r) => ClocksKept(r))
    BY <1>1, ReadingFacts, BlankValues DEF ClocksKept, Serving, NoSession
  <2>2. QED
    BY <1>1, <2>1, ReadingFacts, BlankValues
    DEF Ending, Serving, ServedIsAttached, Attached, NoSession
<1>3. QED
  BY <1>2, EndingStep

LEMMA ActivateKeeps ==
  ASSUME IInv, NEW s \in Slots, ActivateSource(s)
  PROVE  IInv'
<1> DEFINE e == Touched(sess[s])
           keeps(x, applied) == applied \/ owner[x] = e.id
           own(x, applied)   == [owner EXCEPT ![x] = IF keeps(x, applied) THEN e.id ELSE NoSid]
           role(x, applied)  == CASE owner[x] = e.id -> ownerRole[x]
                                  [] keeps(x, applied) -> e.role
                                  [] OTHER -> Watch
           roles(x, applied) == [ownerRole EXCEPT ![x] = role(x, applied)]
<1>1. Reading(s) /\ UNCHANGED <<now, cursor, etag>>
  BY DEF ActivateSource
<1>2. PICK x \in Sources, applied \in BOOLEAN, ans \in Answers :
        Settle(s, e, own(x, applied), roles(x, applied), trial, ans)
  BY Zenon DEF ActivateSource
<1>3. /\ s \in Attached /\ s = cursor /\ sess[s] \in Session /\ now \in 0 .. MaxNow
      /\ owner \in [Sources -> Sids \cup {NoSid}] /\ ownerRole \in [Sources -> Roles]
      /\ trial \in [TrialKeys -> Sids \cup {NoSid}]
  BY <1>1, ReadingFacts DEF TypeOK
<1>4. /\ e \in Session /\ e.id = sess[s].id /\ e.inst = sess[s].inst
      /\ e.state = IF sess[s].state = "STALE" THEN "LIVE" ELSE sess[s].state
      /\ SameFlags(sess[s], e)
  BY <1>3, TouchedFacts
<1> HIDE DEF e
<1>5. e.id \in Sids \cup {NoSid} /\ e.role \in Roles
  BY <1>4 DEF Session
<1>6. /\ own(x, applied) \in [Sources -> Sids \cup {NoSid}]
      /\ \A y \in Sources : own(x, applied)[y] \in {NoSid, owner[y], e.id}
  BY <1>3, <1>5
<1>7. role(x, applied) \in Roles
  BY <1>3, <1>5
<1>8. roles(x, applied) \in [Sources -> Roles]
  BY <1>3, <1>7
<1> HIDE DEF own, roles
<1>9. QED
  BY <1>1, <1>2, <1>3, <1>4, <1>6, <1>8, SettleStep

LEMMA WriteTrialKeeps ==
  ASSUME IInv, NEW s \in Slots, WriteTrial(s)
  PROVE  IInv'
<1> DEFINE e == Touched(sess[s])
           tr(k, opens) == [trial EXCEPT ![k] = IF opens THEN e.id ELSE NoSid]
<1>1. Reading(s) /\ UNCHANGED <<now, cursor, etag>>
  BY DEF WriteTrial
<1>2. PICK k \in TrialKeys, opens \in BOOLEAN, ans \in Answers :
        Settle(s, e, owner, ownerRole, tr(k, opens), ans)
  BY DEF WriteTrial
<1>3. /\ s \in Attached /\ s = cursor /\ sess[s] \in Session /\ now \in 0 .. MaxNow
      /\ owner \in [Sources -> Sids \cup {NoSid}] /\ ownerRole \in [Sources -> Roles]
      /\ trial \in [TrialKeys -> Sids \cup {NoSid}]
  BY <1>1, ReadingFacts DEF TypeOK
<1>4. /\ e \in Session /\ e.id = sess[s].id /\ e.inst = sess[s].inst
      /\ e.state = IF sess[s].state = "STALE" THEN "LIVE" ELSE sess[s].state
      /\ SameFlags(sess[s], e)
  BY <1>3, TouchedFacts
<1> HIDE DEF e
<1>5. e.id \in Sids \cup {NoSid}
  BY <1>4 DEF Session
<1>6. /\ tr(k, opens) \in [TrialKeys -> Sids \cup {NoSid}]
      /\ \A y \in TrialKeys : tr(k, opens)[y] \in {NoSid, trial[y], e.id}
  BY <1>3, <1>5
<1> HIDE DEF tr
<1>7. QED
  BY <1>1, <1>2, <1>3, <1>4, <1>6, SettleStep

LEMMA AdminShape ==
  ASSUME NEW s \in Slots, HandleAdminIntent(s)
  PROVE  \E v \in Slots, ans \in Answers, role \in Roles, evict \in BOOLEAN :
           /\ port' = [port EXCEPT ![s] = PortAfterSend(s, ans)]
           /\ sess' = [x \in Slots |-> IF x = s /\ StallExpired(s, ans)
                                       THEN Parked(AdminOrder(x, s, v, evict, role))
                                       ELSE AdminOrder(x, s, v, evict, role)]
           /\ EndLeases(AdminEnds(s, v, evict, ans))
<1>1. Tokens \subseteq Roles /\ {"ok", "fail"} \subseteq Answers /\ Occupied \subseteq Slots
  BY SessionConstants DEF Answers, Occupied
<1>2. QED
  BY <1>1 DEF HandleAdminIntent

(* The operator's frame: its own session is touched, the target's ends or  *)
(* changes its role, and the operator may be parked by its own answer.     *)
LEMMA AdminKeeps ==
  ASSUME IInv, NEW s \in Slots, HandleAdminIntent(s)
  PROVE  IInv'
<1>1. Reading(s) /\ UNCHANGED <<now, cursor, etag>>
  BY DEF HandleAdminIntent
<1>2. PICK v \in Slots, ans \in Answers, role \in Roles, evict \in BOOLEAN :
        /\ port' = [port EXCEPT ![s] = PortAfterSend(s, ans)]
        /\ sess' = [x \in Slots |-> IF x = s /\ StallExpired(s, ans)
                                    THEN Parked(AdminOrder(x, s, v, evict, role))
                                    ELSE AdminOrder(x, s, v, evict, role)]
        /\ EndLeases(AdminEnds(s, v, evict, ans))
  BY AdminShape
<1>3. /\ TypeOK /\ ServedIsAttached /\ s \in Attached /\ now \in 0 .. MaxNow
      /\ \A r \in Slots : FlagIsExact(sess[r], etag) /\ (Pumped(r) => r # s)
      /\ cursor \in 0 .. (MaxSessions + 1) /\ etag \in 0 .. MaxEtag
      /\ port \in [Slots -> Port] /\ sess \in [Slots -> Session]
  BY <1>1, ReadingFacts
<1> DEFINE a(x) == AdminOrder(x, s, v, evict, role)
           S    == AdminEnds(s, v, evict, ans)
<1>4. ASSUME NEW x \in Slots
      PROVE  /\ a(x) \in Session
             /\ \/ x = v /\ evict /\ a(x) = NoSession
                \/ /\ a(x).id = sess[x].id /\ a(x).inst = sess[x].inst
                   /\ a(x).state = "FREE" <=> sess[x].state = "FREE"
                   /\ Serving(x) => a(x).state = sess[x].state
                   /\ x # s => /\ a(x).state = sess[x].state
                               /\ a(x).lastRx = sess[x].lastRx
                               /\ a(x).deadman = sess[x].deadman
                               /\ a(x).grantedAt = sess[x].grantedAt
                   /\ SameFlags(sess[x], a(x))
  <2> DEFINE e == IF x = s THEN Touched(sess[x]) ELSE sess[x]
  <2>1. /\ e \in Session /\ e.id = sess[x].id /\ e.inst = sess[x].inst
        /\ e.state = "FREE" <=> sess[x].state = "FREE"
        /\ Serving(x) => e.state = sess[x].state
        /\ x # s => e = sess[x]
        /\ SameFlags(sess[x], e)
    BY <1>3, TouchedFacts DEF Serving, SameFlags
  <2>2. \/ a(x) = e
        \/ x = v /\ evict /\ a(x) = NoSession
        \/ a(x) = [e EXCEPT !.role = TierOf(x, role)]
    BY Zenon DEF AdminOrder
  <2>3. TierOf(x, role) \in Roles
    BY DEF TierOf
  <2> HIDE DEF e, a
  <2>4. CASE a(x) = [e EXCEPT !.role = TierOf(x, role)]
    <3> DEFINE tier == TierOf(x, role)
    <3>0. tier \in Roles /\ a(x) = [e EXCEPT !.role = tier]
      BY <2>3, <2>4
    <3> HIDE DEF tier
    <3>1. /\ a(x) \in Session /\ a(x).id = e.id /\ a(x).inst = e.inst /\ a(x).state = e.state
          /\ SameFlags(e, a(x)) /\ a(x).lastRx = e.lastRx
          /\ a(x).deadman = e.deadman /\ a(x).grantedAt = e.grantedAt
      BY <2>1, <3>0 DEF Session, SameFlags
    <3>2. QED
      BY <3>1, <2>1 DEF SameFlags
  <2>5. QED
    BY <2>1, <2>2, <2>4, BlankValues
<1> HIDE DEF a
<1>5. sess' = [x \in Slots |-> IF x = s /\ StallExpired(s, ans) THEN Parked(a(x)) ELSE a(x)]
  BY <1>2 DEF a
<1>6. sess' \in [Slots -> Session]
  <2>1. \A x \in Slots :
          (IF x = s /\ StallExpired(s, ans) THEN Parked(a(x)) ELSE a(x)) \in Session
    BY <1>3, <1>4, ParkedFacts
  <2>2. QED
    BY <1>5, <2>1
<1>7. /\ port' \in [Slots -> Port]
      /\ \A x \in Slots : port'[x].link = port[x].link \/ (x = s /\ StallExpired(s, ans))
  <2>1. /\ PortAfterSend(s, ans) \in Port
        /\ ~StallExpired(s, ans) => PortAfterSend(s, ans).link = port[s].link
    BY <1>3, PortAfterSendFacts
  <2>2. QED
    BY <1>2, <1>3, <2>1
<1>8. /\ evict => v \in S
      /\ StallExpired(s, ans) => s \in S
  BY DEF AdminEnds
<1>9. ASSUME NEW x \in Slots
      PROVE  /\ \/ sess'[x] = NoSession
                \/ /\ sess'[x].id = sess[x].id /\ sess'[x].inst = sess[x].inst
                   /\ sess'[x].state = "FREE" <=> sess[x].state = "FREE"
             /\ (x \notin S /\ Serving(x)) => Serving(x)' /\ sess'[x].id = sess[x].id
             /\ Serving(x)' => port'[x].link # "none"
             /\ FlagIsExact(sess'[x], etag')
             /\ Pumped(x) => ClocksKept(x)
  <2>1. CASE x = s /\ StallExpired(s, ans)
    <3>1. sess'[x] = Parked(a(x)) /\ x \in S
      BY <2>1, <1>5, <1>8
    <3>2. /\ sess'[x].id = a(x).id /\ sess'[x].inst = a(x).inst
          /\ sess'[x].state = IF a(x).state = "FREE" THEN "FREE" ELSE "STALE"
          /\ SameFlags(a(x), sess'[x])
      BY <3>1, <1>3, <1>4, ParkedFacts
    <3>3. a(x) = NoSession => sess'[x] = NoSession
      BY <3>1 DEF Parked, NoSession
    <3>4. FlagIsExact(sess'[x], etag')
      <4>1. CASE a(x) = NoSession
        BY <3>3, <4>1, BlankValues
      <4>2. CASE SameFlags(sess[x], a(x))
        BY <4>2, <3>2, <1>1, <1>3 DEF SameFlags, FlagIsExact
      <4>3. QED
        BY <4>1, <4>2, <1>4
    <3>5. QED
      BY <2>1, <3>1, <3>2, <3>3, <3>4, <1>3, <1>4 DEF Serving
  <2>2. CASE ~(x = s /\ StallExpired(s, ans))
    <3>1. sess'[x] = a(x)
      BY <2>2, <1>5
    <3>2. (x \notin S /\ Serving(x)) => Serving(x)' /\ sess'[x].id = sess[x].id
      BY <3>1, <1>4, <1>8 DEF Serving
    <3>3. Serving(x)' => port'[x].link # "none"
      BY <2>2, <3>1, <1>3, <1>4, <1>7 DEF Serving, ServedIsAttached, Attached, NoSession
    <3>4. FlagIsExact(sess'[x], etag')
      BY <1>1, <1>3, <1>4, <3>1, BlankValues DEF SameFlags, FlagIsExact
    <3>5. Pumped(x) => ClocksKept(x)
      BY <1>3, <1>4, <3>1 DEF ClocksKept, Serving, NoSession, SameFlags
    <3>6. QED
      BY <3>1, <3>2, <3>3, <3>4, <3>5, <1>4
  <2>3. QED
    BY <2>1, <2>2
<1>10. EndLeases(S)
  BY <1>2
<1> HIDE DEF S
<1>11. Ending(S)
  BY <1>1, <1>3, <1>6, <1>7, <1>9, <1>10 DEF Ending
<1>12. QED
  BY <1>11, EndingStep

LEMMA ToldFacts ==
  ASSUME now \in 0 .. MaxNow, NEW e \in Session, e.state # "FREE",
         NEW resync \in BOOLEAN, NEW tag
  PROVE  LET f == Told(e, resync, tag)
         IN  /\ f \in Session /\ f.id = e.id /\ f.inst = e.inst /\ f.state = e.state
             /\ FlagIsExact(f, tag)
             /\ f.lastRx = e.lastRx /\ f.deadman = e.deadman
             /\ (f.ready = e.ready /\ f.grantedAt = e.grantedAt) \/ f.grantedAt = now
<1> DEFINE m == e.ready /\ e.readyEtag # tag
<1>1. m \in BOOLEAN /\ (e.ready => (m <=> e.readyEtag # tag))
  BY DEF Session
<1>2. Told(e, resync, tag) = IF resync
                             THEN [e EXCEPT !.ready = FALSE, !.mismatch = FALSE, !.grantedAt = now]
                             ELSE [e EXCEPT !.mismatch = m]
  BY Zenon DEF Told
<1> HIDE DEF m
<1>3. CASE resync
  <2>1. Told(e, resync, tag) =
          [e EXCEPT !.ready = FALSE, !.mismatch = FALSE, !.grantedAt = now]
    BY <1>2, <1>3
  <2>2. QED
    BY <2>1 DEF Session, FlagIsExact
<1>4. CASE ~resync
  <2>1. Told(e, resync, tag) = [e EXCEPT !.mismatch = m]
    BY <1>2, <1>4
  <2>2. QED
    BY <1>1, <2>1 DEF Session, FlagIsExact
<1>5. QED
  BY <1>3, <1>4

LEMMA CatalogChangedKeeps == IInv /\ CatalogChanged => IInv'
<1> SUFFICES ASSUME IInv, CatalogChanged PROVE IInv'
  OBVIOUS
<1>1. /\ now' = now /\ cursor' = cursor /\ etag' \in 0 .. MaxEtag
      /\ now \in 0 .. MaxNow /\ cursor \in 0 .. (MaxSessions + 1)
      /\ port \in [Slots -> Port] /\ sess \in [Slots -> Session]
      /\ TypeOK /\ ServedIsAttached /\ \A s \in Slots : FlagIsExact(sess[s], etag)
      /\ etag' = etag + 1
  BY SessionConstants DEF CatalogChanged, IInv, TypeOK, FlagsAreExact
<1> DEFINE parks(ans) == {s \in Attached \cap Occupied : StallExpired(s, ans[s])}
           lost(ans)  == {s \in parks(ans) : sess[s].state # "STALE"}
<1>2. PICK resync \in BOOLEAN, ans \in [Attached \cap Occupied -> Answers] :
        /\ port' = [s \in Slots |-> IF s \in Attached \cap Occupied
                                    THEN PortAfterSend(s, ans[s]) ELSE port[s]]
        /\ sess' = [s \in Slots |->
                      IF s \in Occupied
                      THEN Told(IF s \in parks(ans) THEN Parked(sess[s]) ELSE sess[s],
                                resync, etag + 1)
                      ELSE sess[s]]
        /\ EndLeases(lost(ans))
  BY DEF CatalogChanged
<1> DEFINE P == parks(ans)
           S == lost(ans)
<1>3. ASSUME NEW s \in Slots
      PROVE  /\ s \in P => s \in Attached /\ s \in Occupied /\ StallExpired(s, ans[s])
             /\ (s \in Attached /\ s \in Occupied /\ s \notin P) => ~StallExpired(s, ans[s])
             /\ (s \in P /\ sess[s].state # "STALE") => s \in S
  OBVIOUS
<1>4. EndLeases(S)
  BY <1>2
<1>5. \A s \in Slots : sess'[s] =
         IF s \in Occupied
         THEN Told(IF s \in P THEN Parked(sess[s]) ELSE sess[s], resync, etag + 1)
         ELSE sess[s]
  BY <1>2
<1> HIDE DEF parks, lost, P, S
<1>6. ASSUME NEW s \in Slots
      PROVE  /\ sess'[s] \in Session
             /\ sess'[s].id = sess[s].id /\ sess'[s].inst = sess[s].inst
             /\ sess'[s].state = IF s \in P THEN "STALE" ELSE sess[s].state
             /\ FlagIsExact(sess'[s], etag') /\ ClocksKept(s)
  <2> DEFINE e == IF s \in P THEN Parked(sess[s]) ELSE sess[s]
  <2>1. /\ e \in Session /\ e.id = sess[s].id /\ e.inst = sess[s].inst
        /\ e.state = IF s \in P THEN "STALE" ELSE sess[s].state
        /\ s \notin P => e = sess[s]
        /\ s \in Occupied => e.state # "FREE"
    BY <1>1, <1>3, ParkedFacts DEF Occupied
  <2>2. sess'[s] = IF s \in Occupied THEN Told(e, resync, etag + 1) ELSE sess[s]
    BY <1>5
  <2> HIDE DEF e
  <2>3. CASE s \in Occupied
    BY <2>1, <2>2, <2>3, <1>1, ToldFacts DEF ClocksKept, Serving
  <2>4. CASE s \notin Occupied
    <3>1. s \notin P /\ sess'[s] = sess[s] /\ sess[s].state = "FREE"
      BY <2>2, <2>4, <1>3 DEF Occupied
    <3>2. FlagIsExact(sess'[s], etag')
      BY <3>1, <1>1 DEF FlagIsExact
    <3>3. QED
      BY <3>1, <3>2, <1>1 DEF ClocksKept
  <2>5. QED
    BY <2>3, <2>4
<1>7. sess' \in [Slots -> Session]
  <2>1. sess' = [s \in Slots |-> sess'[s]]
    BY <1>2
  <2>2. QED
    BY <2>1, <1>6
<1>8. ASSUME NEW s \in Slots
      PROVE  /\ port'[s] \in Port
             /\ s \notin P => port'[s].link = port[s].link
  BY <1>1, <1>2, <1>3, PortAfterSendFacts
<1>9. port' \in [Slots -> Port]
  <2>1. port' = [s \in Slots |-> port'[s]]
    BY <1>2
  <2>2. QED
    BY <2>1, <1>8
<1>10. Ending(S)
  <2>1. ASSUME NEW s \in Slots
        PROVE  /\ sess'[s].id = sess[s].id /\ sess'[s].inst = sess[s].inst
               /\ sess'[s].state = "FREE" <=> sess[s].state = "FREE"
               /\ (s \notin S /\ Serving(s)) => Serving(s)'
               /\ Serving(s)' => port'[s].link # "none"
               /\ FlagIsExact(sess'[s], etag') /\ ClocksKept(s)
    <3>1. CASE s \in P
      BY <3>1, <1>3, <1>6 DEF Serving, Occupied
    <3>2. CASE s \notin P
      BY <3>2, <1>1, <1>6, <1>8 DEF Serving, ServedIsAttached, Attached
    <3>3. QED
      BY <3>1, <3>2
  <2>2. QED
    BY <2>1, <1>1, <1>4, <1>7, <1>9 DEF Ending
<1>11. QED
  BY <1>10, EndingStep

LEMMA EvictAllKeeps == IInv /\ EvictAll => IInv'
<1> SUFFICES ASSUME IInv, EvictAll PROVE IInv'
  OBVIOUS
<1>1. /\ now' = now /\ cursor' = cursor /\ etag' = etag
      /\ now \in 0 .. MaxNow /\ cursor \in 0 .. (MaxSessions + 1) /\ etag \in 0 .. MaxEtag
      /\ port \in [Slots -> Port] /\ sess \in [Slots -> Session]
      /\ ServedIsAttached /\ \A s \in Slots : FlagIsExact(sess[s], etag)
  BY DEF EvictAll, IInv, TypeOK, FlagsAreExact
<1> DEFINE out(least) == {s \in Occupied : sess[s].role >= least}
<1>2. PICK least \in {Watch, Control} :
        /\ sess' = [s \in Slots |-> IF s \in out(least) THEN NoSession ELSE sess[s]]
        /\ port' = [s \in Slots |->
                      IF s \in out(least) THEN [NoPort EXCEPT !.link = port[s].link]
                      ELSE port[s]]
        /\ EndLeases(out(least))
  BY DEF EvictAll
<1> DEFINE S == out(least)
<1>3. EndLeases(S)
  BY <1>2
<1> HIDE DEF S
<1>4. /\ sess' \in [Slots -> Session]
      /\ \A s \in Slots : sess'[s] = IF s \in S THEN NoSession ELSE sess[s]
  BY <1>1, <1>2, BlankValues DEF S
<1>5. /\ port' \in [Slots -> Port]
      /\ \A s \in Slots : port'[s].link = port[s].link
  <2>1. ASSUME NEW l \in Links
        PROVE  [NoPort EXCEPT !.link = l] \in Port /\ [NoPort EXCEPT !.link = l].link = l
    BY BlankValues DEF Port
  <2>2. \A s \in Slots : port[s].link \in Links
    BY <1>1 DEF Port
  <2>3. QED
    BY <1>1, <1>2, <2>1, <2>2
<1>6. Ending(S)
  <2>1. \A s \in Slots : FlagIsExact(sess'[s], etag')
    BY <1>1, <1>4, BlankValues
  <2>2. \A s \in Slots : ClocksKept(s)
    BY <1>4 DEF ClocksKept, Serving, NoSession
  <2>3. QED
    BY <2>1, <2>2, <1>1, <1>3, <1>4, <1>5 DEF Ending, Serving, ServedIsAttached, Attached, NoSession
<1>7. QED
  BY <1>6, EndingStep

LEMMA BeginUpdateKeeps == IInv /\ BeginUpdate => IInv'
<1> SUFFICES ASSUME IInv, BeginUpdate PROVE IInv'
  OBVIOUS
<1>1. UNCHANGED <<etag, port, sess, owner, ownerRole, trial>>
  BY DEF BeginUpdate
<1>2. now' \in 0 .. MaxNow /\ cursor' \in 0 .. (MaxSessions + 1)
  BY SessionConstants DEF BeginUpdate, IInv, TypeOK
<1>3. TypeOK'
  BY <1>1, <1>2 DEF IInv, TypeOK
<1>4. FlagsAreExact'
  BY <1>1 DEF IInv, FlagsAreExact
<1>5. PumpedAreTimely'
  <2>1. cursor' = 1 /\ \A s \in Slots : ~(s < 1)
    BY DEF BeginUpdate, Slots
  <2>2. QED
    BY <2>1 DEF PumpedAreTimely, Pumped
<1>6. QED
  BY <1>1, <1>3, <1>4, <1>5
  DEF IInv, IdsNameSessions, OneSessionPerIdentity, ServedIsAttached, LeasesAreServed,
      Serving, Occupied, Attached

LEMMA PumpTimersKeeps ==
  ASSUME IInv, NEW s \in Slots, PumpTimers(s)
  PROVE  IInv'
<1> DEFINE stale == s \in Attached /\ DeadmanFires(s)
           ends  == s \in Attached /\ ~stale /\ ReadyTimesOut(s)
           idle  == s \in Attached /\ ~stale /\ ~ends /\ IdleReaps(s)
           last  == s = MaxSessions + 1
           ids   == IF stale \/ ends \/ idle THEN {sess[s].id} \ {NoSid} ELSE {}
           own   == OwnersWithout(owner, ids)
           roles == RolesWithout(owner, ownerRole, ids)
<1>0. /\ TypeOK /\ ServedIsAttached /\ IdsNameSessions /\ OneSessionPerIdentity
      /\ LeasesAreServed /\ now \in 0 .. MaxNow /\ FlagsAreExact /\ PumpedAreTimely
      /\ port \in [Slots -> Port] /\ sess \in [Slots -> Session]
      /\ owner \in [Sources -> Sids \cup {NoSid}] /\ ownerRole \in [Sources -> Roles]
      /\ trial \in [TrialKeys -> Sids \cup {NoSid}]
  BY DEF IInv, TypeOK
<1>1. /\ cursor' = IF last THEN 0 ELSE s + 1
      /\ sess' = [sess EXCEPT ![s] =
                     IF ends THEN NoSession
                     ELSE IF stale \/ idle THEN MarkedStale(sess[s]) ELSE sess[s]]
      /\ trial' = TrialsWithout(trial, ids)
      /\ \E quiet \in SUBSET Sources :
           /\ owner'     = [x \in Sources |-> IF x \in quiet THEN NoSid ELSE own[x]]
           /\ ownerRole' = [x \in Sources |-> IF x \in quiet THEN Watch ELSE roles[x]]
      /\ UNCHANGED <<now, etag, port>> /\ cursor = s
  BY Zenon DEF PumpTimers
<1>2. cursor' \in 0 .. (MaxSessions + 1)
  BY <1>1, SessionConstants DEF Slots
<1>3. /\ ends => ~stale /\ sess[s].state # "FREE"
      /\ (stale \/ idle) => sess[s].state = "LIVE"
      /\ (stale \/ ends \/ idle) => sess[s].id \in ids
  <2>1. (stale \/ ends \/ idle) => sess[s].state # "FREE"
    BY DEF DeadmanFires, ReadyTimesOut, IdleReaps, Occupied
  <2>2. (stale \/ ends \/ idle) => sess[s].id # NoSid
    BY <2>1, <1>0 DEF IdsNameSessions
  <2>3. QED
    BY <2>1, <2>2 DEF DeadmanFires, IdleReaps
<1>3a. (s \in Attached /\ ~stale /\ ~ends) => (~DeadmanFires(s) /\ ~ReadyTimesOut(s))
  OBVIOUS
<1>3b. last \/ cursor' = s + 1
  BY <1>1
<1>4. \A x \in Sources : own[x] # NoSid => own[x] = owner[x] /\ owner[x] \notin ids
  <2> HIDE DEF ids
  <2>1. QED
    BY DEF OwnersWithout
<1>5. own \in [Sources -> Sids \cup {NoSid}] /\ roles \in [Sources -> Roles]
  <2> HIDE DEF ids
  <2>1. QED
    BY <1>0 DEF OwnersWithout, RolesWithout
<1>6. /\ trial' \in [TrialKeys -> Sids \cup {NoSid}]
      /\ \A k \in TrialKeys : trial'[k] # NoSid => trial'[k] = trial[k] /\ trial[k] \notin ids
  <2> HIDE DEF ids
  <2>1. QED
    BY <1>0, <1>1 DEF TrialsWithout
<1> HIDE DEF ids, own, roles, stale, ends, idle, last
<1>7. /\ owner' \in [Sources -> Sids \cup {NoSid}] /\ ownerRole' \in [Sources -> Roles]
      /\ \A x \in Sources : owner'[x] # NoSid => owner'[x] = owner[x] /\ owner[x] \notin ids
  BY <1>1, <1>4, <1>5
<1>8. /\ sess' \in [Slots -> Session]
      /\ \A r \in Slots \ {s} : sess'[r] = sess[r]
      /\ \/ sess'[s] = NoSession /\ ends
         \/ /\ sess'[s].id = sess[s].id /\ sess'[s].inst = sess[s].inst
            /\ sess'[s].state = IF stale \/ idle THEN "STALE" ELSE sess[s].state
            /\ ~(stale \/ ends \/ idle) => sess'[s] = sess[s]
            /\ SameFlags(sess[s], sess'[s])
            /\ ~ends
  BY <1>0, <1>1, BlankValues, MarkedStaleFacts DEF SameFlags
<1>9. TypeOK'
  BY <1>0, <1>1, <1>2, <1>6, <1>7, <1>8 DEF TypeOK
<1>10. IdsNameSessions' /\ OneSessionPerIdentity'
  <2>1. \A r \in Slots :
          \/ sess'[r] = NoSession
          \/ /\ sess'[r].id = sess[r].id /\ sess'[r].inst = sess[r].inst
             /\ sess'[r].state = "FREE" <=> sess[r].state = "FREE"
    BY <1>3, <1>8
  <2>2. QED
    BY <2>1, <1>0, IdentityStep
<1>11. ServedIsAttached'
  BY <1>0, <1>1, <1>8 DEF ServedIsAttached, Serving, Attached, NoSession
<1>12. LeasesAreServed'
  <2>1. \A r \in Slots : (Serving(r) /\ sess[r].id \notin ids) =>
           \E t \in Slots : Serving(t)' /\ sess'[t].id = sess[r].id
    BY <1>3, <1>8 DEF Serving
  <2>2. QED
    BY <2>1, <1>0, <1>6, <1>7, LeaseStep
<1>13. FlagsAreExact'
  <2>1. \A r \in Slots : SameFlags(sess[r], sess'[r]) \/ FlagIsExact(sess'[r], etag)
    BY <1>8, BlankValues DEF SameFlags
  <2>2. QED
    BY <2>1, <1>0, <1>1, FlagsStep
<1>14. PumpedAreTimely'
  <2> SUFFICES ASSUME NEW r \in Slots, Pumped(r)'
               PROVE  Timely(r)'
    BY DEF PumpedAreTimely
  <2>1. (sess'[r].state # "FREE" /\ sess'[r].id = sess[r].id /\ Owns(r)') => Owns(r)
    BY <1>7, <1>10 DEF Owns, IdsNameSessions
  <2>2. CASE r # s
    <3>1. Pumped(r)
      BY <2>2, <1>1, <1>3b, SessionConstants DEF Pumped, Slots, last
    <3>2. Timely(r) /\ sess'[r] = sess[r] /\ now' = now
      BY <3>1, <2>2, <1>0, <1>1, <1>8 DEF PumpedAreTimely
    <3>3. QED
      BY <3>2, <2>1 DEF Timely, Serving
  <2>3. CASE r = s /\ Serving(s)'
    <3>1. /\ sess'[s] = sess[s] /\ ~stale /\ ~ends /\ Serving(s)
      <4>1. sess'[s] # NoSession
        BY <2>3 DEF Serving, NoSession
      <4>2. ~stale /\ ~idle /\ ~ends
        BY <4>1, <2>3, <1>8 DEF Serving
      <4>3. sess'[s] = sess[s]
        BY <4>1, <4>2, <1>8
      <4>4. QED
        BY <4>2, <4>3, <2>3 DEF Serving
    <3>2. s \in Attached
      BY <3>1, <1>0 DEF ServedIsAttached
    <3>3. ~DeadmanFires(s) /\ ~ReadyTimesOut(s)
      BY <3>1, <3>2, <1>3a
    <3>4. sess[s].lastRx + sess[s].deadman \in Int /\ sess[s].grantedAt + ReadyTimeoutMs \in Int
          /\ now \in Int
      <4>1. /\ sess[s].lastRx \in 0 .. MaxNow /\ sess[s].grantedAt \in 0 .. MaxNow
            /\ sess[s].deadman \in DeadmanWindows \cup {0}
        BY <1>0 DEF Session
      <4>2. ReadyTimeoutMs \in Nat /\ MaxNow \in Nat /\ \A d \in DeadmanWindows \cup {0} : d \in Nat
        BY SessionConstants
      <4>3. now \in Int
        BY <4>2, <1>0
      <4>4. QED
        BY <4>1, <4>2, <4>3
    <3>5. (sess[s].state = "LIVE" /\ Owns(s)) => now < sess[s].lastRx + sess[s].deadman
      BY <3>3, <3>4 DEF DeadmanFires, Reached
    <3>6. ~sess[s].ready => now < sess[s].grantedAt + ReadyTimeoutMs
      BY <3>1, <3>3, <3>4 DEF ReadyTimesOut, Reached, Serving, Occupied
    <3>7. QED
      BY <2>1, <2>3, <3>1, <3>5, <3>6, <1>1 DEF Timely, Serving
  <2>4. CASE r = s /\ ~Serving(s)'
    BY <2>4 DEF Timely, Serving
  <2>5. QED
    BY <2>2, <2>3, <2>4
<1>15. QED
  BY <1>9, <1>10, <1>11, <1>12, <1>13, <1>14 DEF IInv

LEMMA InitHolds == Init => IInv
<1> SUFFICES ASSUME Init PROVE IInv
  OBVIOUS
<1>1. TypeOK
  BY SessionConstants, BlankValues DEF Init, TypeOK
<1>2. \A s \in Slots : sess[s] = NoSession
  BY DEF Init
<1>3. IdsNameSessions /\ OneSessionPerIdentity /\ ServedIsAttached
  BY <1>2 DEF IdsNameSessions, OneSessionPerIdentity, ServedIsAttached, Serving, Occupied, NoSession
<1>4. LeasesAreServed
  BY DEF Init, LeasesAreServed
<1>5. FlagsAreExact
  BY <1>2, BlankValues DEF FlagsAreExact
<1>6. PumpedAreTimely
  BY <1>2 DEF PumpedAreTimely, Timely, Serving, NoSession
<1>7. QED
  BY <1>1, <1>3, <1>4, <1>5, <1>6 DEF IInv

LEMMA NextKeeps == IInv /\ [Next]_vars => IInv'
<1> SUFFICES ASSUME IInv, [Next]_vars PROVE IInv'
  OBVIOUS
<1>1. CASE UNCHANGED vars
  BY <1>1
  DEF vars, IInv, TypeOK, IdsNameSessions, OneSessionPerIdentity, ServedIsAttached,
      LeasesAreServed, Serving, Occupied, Attached, FlagsAreExact, PumpedAreTimely,
      Pumped, Timely, Owns
<1>2. ASSUME NEW s \in Slots, Frame(s) PROVE IInv'
  BY <1>2, HelloKeeps, OtherFrameKeeps, CatalogReadyKeeps, GoodbyeKeeps, AuthKeeps,
     ActivateKeeps, WriteTrialKeeps, AdminKeeps DEF Frame
<1>3. ASSUME NEW s \in Slots, PumpTimers(s) PROVE IInv'
  BY <1>3, PumpTimersKeeps
<1>4. QED
  BY <1>1, <1>2, <1>3, AttachKeeps, DetachKeeps, CongestionKeeps, CatalogChangedKeeps,
     ApproveKeeps, EvictAllKeeps, BeginUpdateKeeps DEF Next

------------------------------------------------------------------------------
(* The results *)

(* Every field of every slot, session and ownership entry keeps its type,  *)
(* whatever frames arrive and whatever the application and the transports  *)
(* do.                                                                     *)
THEOREM TypesHold == Spec => []TypeOK
<1>1. IInv => TypeOK
  BY DEF IInv
<1>2. QED
  BY <1>1, InitHolds, NextKeeps, PTL DEF Spec

(* teardownSession and markStale leave no source and no trial behind: each *)
(* lease is held by a session the hub is serving.                          *)
THEOREM LeasesHold == Spec => []LeasesAreServed
<1>1. IInv => LeasesAreServed
  BY DEF IInv
<1>2. QED
  BY <1>1, InitHolds, NextKeeps, PTL DEF Spec

(* handleHello and handleReattach never leave two sessions with one id or  *)
(* one client instance.                                                    *)
THEOREM IdentitiesHold == Spec => []OneSessionPerIdentity
<1>1. IInv => OneSessionPerIdentity
  BY DEF IInv
<1>2. QED
  BY <1>1, InitHolds, NextKeeps, PTL DEF Spec

(* A session whose transport is gone is STALE: parkAndDetach, evictSlot    *)
(* and handleReattach never strand a served one on a slot that update()    *)
(* skips.                                                                  *)
THEOREM AttachmentHolds == Spec => []ServedIsAttached
<1>1. IInv => ServedIsAttached
  BY DEF IInv
<1>2. QED
  BY <1>1, InitHolds, NextKeeps, PTL DEF Spec

(* The degraded flag is exact: across catalogChanged, CATALOG_READY, stale *)
(* time and reattaching, a ready session operates against the hub's etag   *)
(* unless readyEtagMismatch says otherwise.                                *)
THEOREM DegradedHolds == Spec => []DegradedIsKnown
<1>1. IInv => DegradedIsKnown
  BY DEF IInv, FlagsAreExact, FlagIsExact, DegradedIsKnown, Occupied
<1>2. QED
  BY <1>1, InitHolds, NextKeeps, PTL DEF Spec

(* pumpDeadman bounds ownership: between two updates no LIVE session owns  *)
(* a source it has been silent about for its whole window, whatever frames *)
(* of other slots, takeovers and evictions the walk met.                   *)
THEOREM DeadmanHolds == Spec => []DeadmanBoundsOwnership
<1>1. IInv => DeadmanBoundsOwnership
  BY DEF IInv, PumpedAreTimely, Pumped, Timely, DeadmanBoundsOwnership
<1>2. QED
  BY <1>1, InitHolds, NextKeeps, PTL DEF Spec

(* pumpReadyTimeout bounds adoption: between two updates no served session *)
(* is past the READY window and still not ready.                           *)
THEOREM ReadyWindowHolds == Spec => []ReadyWindowBounded
<1>1. IInv => ReadyWindowBounded
  BY DEF IInv, PumpedAreTimely, Pumped, Timely, ReadyWindowBounded
<1>2. QED
  BY <1>1, InitHolds, NextKeeps, PTL DEF Spec

------------------------------------------------------------------------------
(* What a step may never do *)

LEMMA InvariantHolds == Spec => []IInv
  BY InitHolds, NextKeeps, PTL DEF Spec

(* A frame handler that answers changes the session of its own slot alone  *)
(* and leaves no source with anybody but its owner or whom own names.      *)
LEMMA SettleFacts ==
  ASSUME IInv, NEW s \in Slots, Reading(s), NEW e, e.id = sess[s].id,
         NEW own, NEW roles, NEW tr, NEW ans, Settle(s, e, own, roles, tr, ans)
  PROVE  /\ \A r \in Slots : sess'[r].id = sess[r].id
         /\ \A x \in Sources : owner'[x] \in {NoSid, own[x]}
<1> DEFINE lost == IF StallExpired(s, ans) THEN {e.id} \ {NoSid} ELSE {}
<1>1. /\ sess' = [sess EXCEPT ![s] = IF StallExpired(s, ans) THEN Parked(e) ELSE e]
      /\ owner' = OwnersWithout(own, lost)
  BY Zenon DEF Settle
<1> HIDE DEF lost
<1>2. \A x \in Sources : owner'[x] \in {NoSid, own[x]}
  BY <1>1 DEF OwnersWithout
<1>3. Parked(e).id = e.id /\ sess \in [Slots -> Session]
  BY DEF Parked, MarkedStale, IInv, TypeOK
<1>4. \A r \in Slots : sess'[r].id = sess[r].id
  BY <1>1, <1>3
<1>5. QED
  BY <1>2, <1>4

LEMMA ActivateOwners ==
  ASSUME IInv, NEW u \in Slots, ActivateSource(u)
  PROVE  /\ u \in Occupied
         /\ \A r \in Slots : sess'[r].id = sess[r].id
         /\ \A x \in Sources : owner'[x] \in {NoSid, owner[x], sess[u].id}
<1> DEFINE e == Touched(sess[u])
           keeps(x, applied) == applied \/ owner[x] = e.id
           own(x, applied)   == [owner EXCEPT ![x] = IF keeps(x, applied) THEN e.id ELSE NoSid]
<1>1. Reading(u) /\ u \in Occupied
  BY DEF ActivateSource
<1>2. PICK x \in Sources, applied \in BOOLEAN, ans \in Answers :
        \E roles : Settle(u, e, own(x, applied), roles, trial, ans)
  BY Zenon DEF ActivateSource
<1>3. e.id = sess[u].id /\ owner \in [Sources -> Sids \cup {NoSid}]
  BY <1>1, ReadingFacts, TouchedFacts DEF TypeOK
<1> HIDE DEF e
<1>4. \A y \in Sources : own(x, applied)[y] \in {NoSid, owner[y], sess[u].id}
  BY <1>3
<1> HIDE DEF own
<1>5. QED
  BY <1>1, <1>2, <1>3, <1>4, SettleFacts

(* Only ActivateSource gives a source to a session *)
LEMMA OwnersShrink ==
  ASSUME IInv, [Next]_vars, \A u \in Slots : ~ActivateSource(u)
  PROVE  \A x \in Sources : owner'[x] \in {NoSid, owner[x]}
<1>1. ASSUME NEW S, EndLeases(S)
      PROVE  \A x \in Sources : owner'[x] \in {NoSid, owner[x]}
  BY <1>1, EndLeasesFacts DEF IInv
<1>2. CASE \/ UNCHANGED vars \/ SetCongestionLevel \/ ApprovePendingConfigure \/ BeginUpdate
  BY <1>2 DEF vars, SetCongestionLevel, ApprovePendingConfigure, BeginUpdate
<1>3. CASE AttachTransport \/ DetachTransport \/ CatalogChanged \/ EvictAll
  <2>1. CASE AttachTransport
    BY <2>1, <1>1 DEF AttachTransport
  <2>2. CASE DetachTransport
    BY <2>2, <1>1 DEF DetachTransport
  <2>3. CASE CatalogChanged
    <3>1. \E S : EndLeases(S)
      BY Zenon, <2>3 DEF CatalogChanged
    <3>2. QED
      BY <3>1, <1>1
  <2>4. CASE EvictAll
    <3>1. \E S : EndLeases(S)
      BY Zenon, <2>4 DEF EvictAll
    <3>2. QED
      BY <3>1, <1>1
  <2>5. QED
    BY <1>3, <2>1, <2>2, <2>3, <2>4
<1>4. ASSUME NEW s \in Slots, Frame(s)
      PROVE  \A x \in Sources : owner'[x] \in {NoSid, owner[x]}
  <2>1. CASE HandleHello(s)
    <3>1. \E S : EndLeases(S)
      BY <2>1 DEF HandleHello, HandleReattach, RefuseHello, AdmitHello
    <3>2. QED
      BY <3>1, <1>1
  <2>2. CASE HandleCatalogReady(s) \/ HandleAuth(s)
    BY <2>2 DEF HandleCatalogReady, HandleAuth
  <2>3. CASE HandleGoodbye(s)
    BY <2>3, <1>1 DEF HandleGoodbye
  <2>4. CASE HandleAdminIntent(s)
    <3>1. \E S : EndLeases(S)
      BY Zenon, <2>4 DEF HandleAdminIntent
    <3>2. QED
      BY <3>1, <1>1
  <2>5. CASE OtherFrame(s) \/ WriteTrial(s)
    <3>1. /\ Reading(s)
          /\ \E tr, ans : Settle(s, Touched(sess[s]), owner, ownerRole, tr, ans)
      BY Zenon, <2>5 DEF OtherFrame, WriteTrial
    <3>2. Touched(sess[s]).id = sess[s].id
      BY <3>1, ReadingFacts, TouchedFacts
    <3>3. QED
      BY <3>1, <3>2, SettleFacts
  <2>6. QED
    BY <1>4, <2>1, <2>2, <2>3, <2>4, <2>5 DEF Frame
<1>5. ASSUME NEW s \in Slots, PumpTimers(s)
      PROVE  \A x \in Sources : owner'[x] \in {NoSid, owner[x]}
  <2> DEFINE stale == s \in Attached /\ DeadmanFires(s)
             ends  == s \in Attached /\ ~stale /\ ReadyTimesOut(s)
             idle  == s \in Attached /\ ~stale /\ ~ends /\ IdleReaps(s)
             ids   == IF stale \/ ends \/ idle THEN {sess[s].id} \ {NoSid} ELSE {}
             own   == OwnersWithout(owner, ids)
  <2>1. \E quiet \in SUBSET Sources :
          owner' = [x \in Sources |-> IF x \in quiet THEN NoSid ELSE own[x]]
    BY Zenon, <1>5 DEF PumpTimers
  <2> HIDE DEF ids
  <2>2. QED
    BY <2>1 DEF OwnersWithout
<1>6. QED
  BY <1>2, <1>3, <1>4, <1>5 DEF Next

(* A STALE session owns nothing, so a step that wakes it without an        *)
(* activation of its own leaves it owning nothing.                         *)
LEMMA ResumeStep ==
  ASSUME IInv, [Next]_vars, NEW s \in Occupied, NEW t \in Slots,
         sess[s].state = "STALE", sess'[t].id = sess[s].id, sess'[t].state = "LIVE",
         ~ActivateSource(t), NEW x \in Sources
  PROVE  owner'[x] # sess[s].id
<1>1. s \in Slots /\ sess[s].id # NoSid
  BY DEF Occupied, IInv, IdsNameSessions
<1>2. owner[x] # sess[s].id
  BY <1>1 DEF IInv, LeasesAreServed, OneSessionPerIdentity, Serving, Occupied
<1>3. ASSUME NEW u \in Slots, ActivateSource(u)
      PROVE  owner'[x] # sess[s].id
  <2>1. /\ u \in Occupied /\ sess'[s].id = sess[s].id
        /\ owner'[x] \in {NoSid, owner[x], sess[u].id}
    BY <1>1, <1>3, ActivateOwners
  <2>2. IdsNameSessions' /\ OneSessionPerIdentity'
    BY NextKeeps DEF IInv
  <2>3. s \in Occupied' /\ t \in Occupied'
    BY <2>1, <2>2, <1>1 DEF IdsNameSessions, Occupied
  <2>4. t = s
    BY <2>1, <2>2, <2>3 DEF OneSessionPerIdentity
  <2>5. u # s
    BY <1>3, <2>4
  <2>6. QED
    BY <1>1, <1>2, <2>1, <2>5 DEF IInv, OneSessionPerIdentity
<1>4. CASE \A u \in Slots : ~ActivateSource(u)
  BY <1>1, <1>2, <1>4, OwnersShrink
<1>5. QED
  BY <1>3, <1>4

(* SPEC 6.8, "motion never restarts because a socket reopened": whatever   *)
(* wakes a STALE session, it wakes owning no source.                       *)
THEOREM ResumesHold == Spec => ResumesWithoutControl
<1>1. IInv /\ [Next]_vars
        => [\A s \in Occupied, t \in Slots :
              (sess[s].state = "STALE" /\ sess'[t].id = sess[s].id /\ sess'[t].state = "LIVE"
                 /\ ~ActivateSource(t))
              => \A x \in Sources : owner'[x] # sess[s].id]_vars
  BY ResumeStep
<1>2. QED
  BY <1>1, InvariantHolds, PTL DEF Spec, ResumesWithoutControl

(* What PressureSparesLive allows to happen to the session of slot s *)
Spared(s) ==
    \/ sess[s].state = "STALE"
    \/ sess'[s].id = sess[s].id
    \/ s = cursor
    \/ cursor # 0 /\ sess'[cursor].inst = sess[s].inst

(* No transport comes and no id that was not there *)
LEMMA NoArrival ==
  ASSUME IdsNameSessions,
         \A s \in Slots : port[s].link = "none" => port'[s].link = "none",
         \A s \in Slots : sess'[s].id \in {NoSid, sess[s].id}
  PROVE  ~Arrival
  BY DEF Arrival, UsedIds, Occupied, IdsNameSessions

LEMMA HelloSpares ==
  ASSUME IInv, NEW s \in Slots, HandleHello(s), Arrival, NEW r \in Occupied
  PROVE  Spared(r)
<1>1. Reading(s) /\ cursor = s /\ cursor # 0
  BY DEF HandleHello, Reading, Slots
<1>2. r \in Slots
  BY DEF Occupied
<1>3. PICK inst \in Instances, token \in Tokens, tag \in {"match", "differ", "absent"},
           window \in DeadmanWindows, welcomed \in BOOLEAN :
        \E role \in {token, Watch} :
          \/ \E d \in Resumable(s, inst, token) : HandleReattach(s, d, role, tag, welcomed)
          \/ RefuseHello(s, inst)
          \/ AdmitHello(s, inst, role, window, tag, welcomed)
  BY DEF HandleHello
<1>4. PICK role \in {token, Watch} :
          \/ \E d \in Resumable(s, inst, token) : HandleReattach(s, d, role, tag, welcomed)
          \/ RefuseHello(s, inst)
          \/ AdmitHello(s, inst, role, window, tag, welcomed)
  BY <1>3
<1>5. ASSUME NEW d \in Resumable(s, inst, token), HandleReattach(s, d, role, tag, welcomed)
      PROVE  Spared(r)
  <2>1. sess[d].state = "STALE" /\ d \in Slots
    BY DEF Resumable, SlotsOfInstance, Occupied
  <2>2. r \notin {s, d} => sess'[r] = sess[r]
    BY <1>2, <1>5 DEF HandleReattach, IInv, TypeOK
  <2>3. QED
    BY <2>1, <2>2, <1>1 DEF Spared
<1>6. CASE RefuseHello(s, inst)
  <2>1. port' = port /\ \A x \in Slots : sess'[x].id \in {NoSid, sess[x].id}
    BY <1>1, <1>6, ReadingFacts, TouchedFacts DEF RefuseHello, NoSession
  <2>2. QED
    BY <2>1, NoArrival DEF IInv
<1>7. CASE AdmitHello(s, inst, role, window, tag, welcomed)
  <2> DEFINE D == SlotsOfInstance(inst, s) \cup Yielding(inst, s) \cup {s}
  <2>1. \A x \in D : \/ x = s
                     \/ sess[x].state = "STALE"
                     \/ sess[x].inst = inst
    BY DEF SlotsOfInstance, Yielding, EvictableStale
  <2>2. PICK i \in Sids \ UsedIds :
        sess' = [x \in Slots |->
                   CASE x = s -> FreshSession(s, i, inst, role, window, tag, welcomed)
                     [] x \in D \ {s} -> NoSession
                     [] OTHER -> sess[x]]
    BY <1>7 DEF AdmitHello
  <2>3. sess'[s].inst = inst
    <3>1. sess'[s] = FreshSession(s, i, inst, role, window, tag, welcomed)
      BY <2>2
    <3>2. role \in Roles
      BY SessionConstants
    <3>3. QED
      BY <3>1, <3>2, FreshFacts DEF IInv
  <2>4. r \notin D => sess'[r] = sess[r]
    <3>1. s \in D
      OBVIOUS
    <3> HIDE DEF D
    <3>2. QED
      BY <3>1, <2>2, <1>2
  <2> HIDE DEF D
  <2>5. QED
    BY <2>1, <2>3, <2>4, <1>1 DEF Spared
<1>8. QED
  BY <1>4, <1>5, <1>6, <1>7

LEMMA FrameSpares ==
  ASSUME IInv, NEW s \in Slots, Frame(s), Arrival, NEW r \in Occupied
  PROVE  Spared(r)
<1>1. r \in Slots /\ sess \in [Slots -> Session] /\ IdsNameSessions /\ now \in 0 .. MaxNow
      /\ TypeOK
  BY DEF Occupied, IInv, TypeOK
<1>2. ASSUME cursor = s, NEW e, sess' = [sess EXCEPT ![s] = e]
      PROVE  Spared(r)
  BY <1>1, <1>2 DEF Spared
<1>3. CASE HandleHello(s)
  BY <1>3, HelloSpares
<1>4. CASE HandleCatalogReady(s) \/ HandleGoodbye(s) \/ HandleAuth(s)
  <2>1. cursor = s /\ \E e : sess' = [sess EXCEPT ![s] = e]
    BY Zenon, <1>4 DEF HandleCatalogReady, HandleGoodbye, HandleAuth, Reading
  <2>2. QED
    BY <2>1, <1>2
<1>5. CASE OtherFrame(s) \/ ActivateSource(s) \/ WriteTrial(s)
  <2>1. cursor = s /\ \E e, own, roles, tr, ans : Settle(s, e, own, roles, tr, ans)
    BY Zenon, <1>5 DEF OtherFrame, ActivateSource, WriteTrial, Reading
  <2>2. \E e : sess' = [sess EXCEPT ![s] = e]
    BY Zenon, <2>1 DEF Settle
  <2>3. QED
    BY <2>1, <2>2, <1>2
<1>6. CASE HandleAdminIntent(s)
  <2>1. PICK v \in Slots, ans \in Answers, role \in Roles, evict \in BOOLEAN :
        /\ port' = [port EXCEPT ![s] = PortAfterSend(s, ans)]
        /\ sess' = [x \in Slots |-> IF x = s /\ StallExpired(s, ans)
                                    THEN Parked(AdminOrder(x, s, v, evict, role))
                                    ELSE AdminOrder(x, s, v, evict, role)]
        /\ EndLeases(AdminEnds(s, v, evict, ans))
    BY <1>6, AdminShape
  <2>2. s \in Attached
    BY <1>6 DEF HandleAdminIntent, Reading
  <2>3. \A x \in Slots : port[x].link = "none" => port'[x].link = "none"
    BY <2>1, <2>2, <1>1 DEF Attached, TypeOK
  <2>4. ASSUME NEW x \in Slots
        PROVE  AdminOrder(x, s, v, evict, role).id \in {NoSid, sess[x].id}
    <3> DEFINE e == IF x = s THEN Touched(sess[x]) ELSE sess[x]
    <3>1. e.id = sess[x].id /\ e \in Session
      BY <1>1, TouchedFacts
    <3>2. \/ AdminOrder(x, s, v, evict, role) = e
          \/ AdminOrder(x, s, v, evict, role) = NoSession
          \/ AdminOrder(x, s, v, evict, role) = [e EXCEPT !.role = TierOf(x, role)]
      BY Zenon DEF AdminOrder
    <3> DEFINE a == AdminOrder(x, s, v, evict, role)
    <3> HIDE DEF e, a
    <3>3. a = e \/ a = NoSession \/ a = [e EXCEPT !.role = TierOf(x, role)]
      BY <3>2 DEF a
    <3>4. a.id \in {NoSid, sess[x].id}
      BY <3>1, <3>3 DEF NoSession, Session
    <3>5. QED
      BY <3>4 DEF a
  <2>5. \A x \in Slots : \A e : Parked(e).id = e.id
    BY DEF Parked, MarkedStale
  <2>6. \A x \in Slots : sess'[x].id \in {NoSid, sess[x].id}
    BY <2>1, <2>4, <2>5
  <2>7. QED
    BY <2>3, <2>6, <1>1, NoArrival
<1>7. QED
  BY <1>3, <1>4, <1>5, <1>6 DEF Frame

LEMMA PressureStep ==
  ASSUME IInv, [Next]_vars, Arrival, NEW s \in Occupied
  PROVE  Spared(s)
<1>1. s \in Slots /\ sess \in [Slots -> Session] /\ IdsNameSessions /\ now \in 0 .. MaxNow
      /\ TypeOK
  BY DEF Occupied, IInv, TypeOK
<1>2. CASE UNCHANGED sess
  BY <1>2 DEF Spared
<1>3. CASE UNCHANGED vars \/ SetCongestionLevel \/ BeginUpdate
  BY <1>2, <1>3 DEF vars, SetCongestionLevel, BeginUpdate
<1>4. CASE AttachTransport
  <2>1. ASSUME NEW v \in EvictableStale(Slots), sess' = [sess EXCEPT ![v] = NoSession]
        PROVE  Spared(s)
    BY <1>1, <2>1 DEF EvictableStale, Spared
  <2>2. QED
    BY <1>2, <1>4, <2>1 DEF AttachTransport
<1>5. CASE DetachTransport \/ ApprovePendingConfigure
  <2>1. \A e : Parked(e).id = e.id
    BY DEF Parked, MarkedStale
  <2>2. CASE DetachTransport
    BY <1>1, <2>1, <2>2 DEF DetachTransport, Attached, Spared
  <2>3. CASE ApprovePendingConfigure
    BY <1>1, <2>3 DEF ApprovePendingConfigure, Attached, Spared, Session
  <2>4. QED
    BY <1>5, <2>2, <2>3
<1>6. CASE CatalogChanged
  <2> DEFINE parks(ans) == {r \in Attached \cap Occupied : StallExpired(r, ans[r])}
  <2>0. PICK resync \in BOOLEAN, ans \in [Attached \cap Occupied -> Answers] :
          sess' = [r \in Slots |->
                     IF r \in Occupied
                     THEN Told(IF r \in parks(ans) THEN Parked(sess[r]) ELSE sess[r],
                               resync, etag + 1)
                     ELSE sess[r]]
    BY <1>6 DEF CatalogChanged
  <2> DEFINE P == parks(ans)
  <2>1. sess'[s] = Told(IF s \in P THEN Parked(sess[s]) ELSE sess[s], resync, etag + 1)
    BY <1>1, <2>0
  <2> HIDE DEF P
  <2>2. sess'[s].id = sess[s].id
    <3> DEFINE e == IF s \in P THEN Parked(sess[s]) ELSE sess[s]
    <3>1. e \in Session /\ e.id = sess[s].id /\ e.state # "FREE"
      BY <1>1, ParkedFacts DEF Occupied
    <3> HIDE DEF e
    <3>2. QED
      BY <1>1, <2>1, <3>1, ToldFacts DEF e
  <2>3. QED
    BY <2>2 DEF Spared
<1>7. CASE EvictAll
  <2>1. \A r \in Slots : sess'[r].id \in {NoSid, sess[r].id} /\ port'[r].link = port[r].link
    BY <1>1, <1>7 DEF EvictAll, NoSession, NoPort
  <2>2. QED
    BY <2>1, <1>1, NoArrival
<1>8. ASSUME NEW r \in Slots, Frame(r) PROVE Spared(s)
  BY <1>8, FrameSpares
<1>9. ASSUME NEW r \in Slots, PumpTimers(r) PROVE Spared(s)
  <2>1. cursor = r /\ \E e : sess' = [sess EXCEPT ![r] = e]
    BY Zenon, <1>9 DEF PumpTimers
  <2>2. QED
    BY <2>1, <1>1 DEF Spared
<1>10. QED
  BY <1>3, <1>4, <1>5, <1>6, <1>7, <1>8, <1>9 DEF Next

(* RFC-042 item 5: an arrival ends a session that is not STALE only on its *)
(* own slot or for its own instance, whichever slots are full.             *)
THEOREM PressureHolds == Spec => PressureSparesLive
<1>1. IInv /\ [Next]_vars
        => [Arrival => \A s \in Occupied :
              \/ sess[s].state = "STALE"
              \/ sess'[s].id = sess[s].id
              \/ s = cursor
              \/ cursor # 0 /\ sess'[cursor].inst = sess[s].inst]_vars
  BY PressureStep DEF Spared
<1>2. QED
  BY <1>1, InvariantHolds, PTL DEF Spec, PressureSparesLive
=============================================================================
