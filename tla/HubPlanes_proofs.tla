-------------------------- MODULE HubPlanes_proofs --------------------------
(***************************************************************************)
(* Proofs about the safety plane, for any clients, roles and bounds, and   *)
(* about the event plane, for any sessions, channels and depths.  The two  *)
(* share no variable: each theorem is about the specification of one.      *)
(***************************************************************************)
EXTENDS HubSafety, HubEvents, Integers, FiniteSetTheorems, TLAPS

(* What a handler leaves that has changed the safety state, published it    *)
(* and broadcast it.                                                        *)
Published(w, m, s) ==
    /\ word' = w
    /\ modes' = m
    /\ estopSeq' = s
    /\ retained' = Snapshot(w, m, s)
    /\ down' = Broadcast(retained')
    /\ UNCHANGED <<link, up, client>>

(* What a handler leaves that has changed nothing.                          *)
Unmoved == UNCHANGED <<hub, link, up, down, client>>

(* Each handler ends in one or the other: none forgets its publication.     *)
LEMMA EstopEnds ==
    ASSUME NEW s, NEW o, handleEstopFrame(s, o)
    PROVE  \/ /\ ~Latched
              /\ Published(word \cup {"ESTOP"}, ModesAfterEstop, s)
              /\ stopped' = [c \in Clients |-> TRUE]
              /\ initiators' = initiators \cup {o}
              /\ owed' = OwedAfterEstop
           \/ /\ Latched
              /\ down' = Broadcast(retained)
              /\ UNCHANGED <<hub, link, up, client, history>>
  BY DEF handleEstopFrame, LatchEstop, publishSafetySnapshot,
         broadcastSafetyNow, Published, hub

LEMMA ReleaseEnds ==
    ASSUME releaseEstop
    PROVE  /\ Latched
           /\ Published(LevelsAfterRelease, modes, estopSeq)
           /\ UNCHANGED history
  BY DEF releaseEstop, publishSafetySnapshot, broadcastSafetyNow, Published

LEMMA OpEnds ==
    ASSUME NEW w, NEW m, applySafetyOpLatch(w, m)
    PROVE  \/ Published(w, m, estopSeq)
           \/ Unmoved /\ w = word /\ m = modes
  <1>1. CASE Changed(w, m)
    BY <1>1 DEF applySafetyOpLatch, publishSafetySnapshot, broadcastSafetyNow,
                Published
  <1>2. CASE ~Changed(w, m)
    <2>1. w = word /\ m = modes
      BY <1>2 DEF Changed
    <2>2. word' = word /\ modes' = modes /\ retained' = retained /\ down' = down
      BY <1>2, <2>1 DEF applySafetyOpLatch
    <2>3. Unmoved
      BY <2>2 DEF applySafetyOpLatch, Unmoved, hub
    <2> QED  BY <2>1, <2>3
  <1> QED  BY <1>1, <1>2

LEMMA OverrideEnds ==
    ASSUME NEW b, setOverride(b)
    PROVE  /\ Published(word, Set(modes, "OVERRIDE", b), estopSeq)
           /\ UNCHANGED history
  BY DEF setOverride, publishSafetySnapshot, broadcastSafetyNow, Published

LEMMA HomeEnds ==
    ASSUME NEW b, setHomeRequired(b)
    PROVE  /\ Published(word, Set(modes, "HOME_REQUIRED", b), estopSeq)
           /\ owed' = IF b THEN owed ELSE owed \ {"home"}
           /\ UNCHANGED <<stopped, initiators>>
  BY DEF setHomeRequired, publishSafetySnapshot, broadcastSafetyNow, Published

-----------------------------------------------------------------------------
(* A publication types what it changes.                                     *)
LEMMA PublishTypes ==
    ASSUME TypeOK,
           NEW w \in SUBSET Levels, NEW m \in SUBSET Modes, NEW s \in Nat,
           Published(w, m, s)
    PROVE  /\ word' \in SUBSET Levels
           /\ modes' \in SUBSET Modes
           /\ estopSeq' \in Nat
           /\ retained' \in Snapshots
           /\ down' \in [Clients -> SUBSET Snapshots]
           /\ <<link, up, client>>' = <<link, up, client>>
  <1>1. retained' \in Snapshots
    BY DEF Published, Snapshot, Snapshots, TypeOK
  <1>2. down' \in [Clients -> SUBSET Snapshots]
    BY <1>1 DEF Published, Broadcast, TypeOK
  <1> QED  BY <1>1, <1>2 DEF Published

LEMMA EstopTypes ==
    ASSUME TypeOK, NEW s \in Nat, NEW o \in Clients \cup {None},
           handleEstopFrame(s, o)
    PROVE  TypeOK'
  <1>1. CASE Latched
    <2>1. /\ down' = Broadcast(retained)
          /\ UNCHANGED <<hub, link, up, client, history>>
      BY <1>1, EstopEnds
    <2>2. down' \in [Clients -> SUBSET Snapshots]
      BY <2>1 DEF Broadcast, TypeOK
    <2> QED
      BY <2>1, <2>2 DEF TypeOK, hub, client, history
  <1>2. CASE ~Latched
    <2>1. word \cup {"ESTOP"} \in SUBSET Levels
      BY DEF TypeOK, Levels
    <2>2. ModesAfterEstop \in SUBSET Modes
      BY DEF TypeOK, Modes, ModesAfterEstop
    <2>3. OwedAfterEstop \in SUBSET {"resume", "home"}
      BY DEF TypeOK, OwedAfterEstop
    <2>4. /\ Published(word \cup {"ESTOP"}, ModesAfterEstop, s)
          /\ stopped' = [c \in Clients |-> TRUE]
          /\ initiators' = initiators \cup {o}
          /\ owed' = OwedAfterEstop
      BY <1>2, EstopEnds
    <2> QED
      BY <2>1, <2>2, <2>3, <2>4, PublishTypes DEF TypeOK, client
  <1> QED  BY <1>1, <1>2

(* A publication that leaves the history's types alone keeps TypeOK.        *)
LEMMA PublishKeepsTypes ==
    ASSUME TypeOK,
           NEW w \in SUBSET Levels, NEW m \in SUBSET Modes, NEW s \in Nat,
           Published(w, m, s),
           stopped' = stopped, initiators' = initiators,
           owed' \in SUBSET {"resume", "home"}
    PROVE  TypeOK'
  BY PublishTypes DEF TypeOK, client

(* So does an op, which publishes what it changes or changes nothing.       *)
LEMMA OpKeepsTypes ==
    ASSUME TypeOK,
           NEW w \in SUBSET Levels, NEW m \in SUBSET Modes,
           applySafetyOpLatch(w, m),
           stopped' = stopped, initiators' = initiators,
           owed' \in SUBSET {"resume", "home"}
    PROVE  TypeOK'
  <1>1. estopSeq \in Nat  BY DEF TypeOK
  <1>2. CASE Published(w, m, estopSeq)  BY <1>1, <1>2, PublishKeepsTypes
  <1>3. CASE Unmoved  BY <1>3 DEF Unmoved, TypeOK, hub, client
  <1> QED  BY <1>2, <1>3, OpEnds

LEMMA TypeStep ==
    ASSUME TypeOK, [Next]_vars
    PROVE  TypeOK'
  <1> USE ControllersAreClients, EngagesAreBooleans, BoundsAreNaturals
  <1>1. ASSUME NEW c \in Clients, initiateEstop(c) PROVE TypeOK'
    <2>1. sent[c] + 1 \in Nat  BY DEF TypeOK
    <2>2. up' \in [Clients -> SUBSET Nat]
      BY <1>1, <2>1 DEF initiateEstop, Written, TypeOK
    <2>3. /\ active' \in [Clients -> BOOLEAN]
          /\ failed' \in [Clients -> BOOLEAN]
          /\ sent' \in [Clients -> Nat]
          /\ attempts' \in [Clients -> 0 .. MaxAttempts]
      BY <1>1, <2>1 DEF initiateEstop, TypeOK
    <2>4. stopped' \in [Clients -> BOOLEAN]
      <3>1. Latched \in BOOLEAN  BY DEF Latched
      <3> QED  BY <1>1, <3>1, Zenon DEF initiateEstop, TypeOK
    <2> QED
      BY <1>1, <2>2, <2>3, <2>4 DEF initiateEstop, TypeOK, hub
  <1>2. ASSUME NEW c \in Clients, RepeatEstop(c) PROVE TypeOK'
    <2>1. up' \in [Clients -> SUBSET Nat]
      BY <1>2 DEF RepeatEstop, Written, TypeOK
    <2>2. attempts' \in [Clients -> 0 .. MaxAttempts]
      BY <1>2 DEF RepeatEstop, MayRepeat, TypeOK
    <2> QED
      BY <1>2, <2>1, <2>2 DEF RepeatEstop, TypeOK, hub, history
  <1>3. ASSUME NEW c \in Clients, GiveUp(c) PROVE TypeOK'
    BY <1>3 DEF GiveUp, TypeOK, hub, history
  <1>4. ASSUME NEW c \in Clients, handleState(c) PROVE TypeOK'
    <2> PICK snap \in down[c] :
            /\ shadow' = [shadow EXCEPT ![c] = snap]
            /\ active' = [active EXCEPT ![c] = @ /\ ~Reached(c, snap)]
            /\ failed' = [failed EXCEPT
                 ![c] = IF active[c] /\ Reached(c, snap) THEN FALSE ELSE @]
            /\ UNCHANGED <<hub, link, up, down, sent, attempts, history>>
      BY <1>4 DEF handleState
    <2>1. shadow' \in [Clients -> Snapshots \cup {None}]
      BY DEF TypeOK
    <2>2. /\ active' \in [Clients -> BOOLEAN]
          /\ failed' \in [Clients -> BOOLEAN]
      <3>1. active \in [Clients -> BOOLEAN] /\ failed \in [Clients -> BOOLEAN]
        BY DEF TypeOK
      <3>2. (active[c] /\ ~Reached(c, snap)) \in BOOLEAN
        OBVIOUS
      <3>3. (IF active[c] /\ Reached(c, snap) THEN FALSE ELSE failed[c])
                \in BOOLEAN
        BY <3>1
      <3> QED  BY <3>1, <3>2, <3>3, Zenon
    <2> QED  BY <2>1, <2>2 DEF TypeOK, hub, history
  <1>5. ASSUME NEW c \in Clients, LinkNext(c) PROVE TypeOK'
    <2>1. CASE Open(c)
      BY <2>1 DEF Open, TypeOK, hub, history
    <2>2. CASE Ready(c)
      BY <2>2 DEF Ready, TypeOK, hub, client, history
    <2>3. CASE Close(c)
      BY <2>3 DEF Close, TypeOK, hub, client, history
    <2>4. CASE Push(c)
      BY <2>4 DEF Push, TypeOK, hub, client, history
    <2> QED  BY <1>5, <2>1, <2>2, <2>3, <2>4 DEF LinkNext
  <1>6. nextEstopSeq \in Nat
    BY DEF nextEstopSeq, TypeOK
  <1>7. ASSUME NEW c \in Clients, OpNext(c) PROVE TypeOK'
    <2>1. CASE RawEstop(c)
      <3>1. PICK s \in up[c] : handleEstopFrame(s, c)
        BY <2>1 DEF RawEstop
      <3>2. s \in Nat  BY DEF TypeOK
      <3> QED  BY <3>1, <3>2, EstopTypes
    <2>2. CASE OpEstop(c)
      BY <2>2, <1>6, EstopTypes DEF OpEstop
    <2>3. CASE OpRelease(c)
      <3>1. LevelsAfterRelease \in SUBSET Levels
        BY DEF LevelsAfterRelease, TypeOK, Levels
      <3> QED
        BY <2>3, <3>1, ReleaseEnds, PublishKeepsTypes
        DEF OpRelease, TypeOK, history
    <2>4. CASE OpPause(c)
      <3>1. word \cup {"PAUSE"} \in SUBSET Levels
        BY DEF TypeOK, Levels
      <3> QED
        BY <2>4, <3>1, OpKeepsTypes DEF OpPause, TypeOK, history
    <2>5. CASE OpOverride(c)
      <3>1. /\ LevelsAfterOverride \in SUBSET Levels
            /\ modes \cup {"OVERRIDE"} \in SUBSET Modes
        BY DEF LevelsAfterOverride, TypeOK, Levels, Modes
      <3> QED
        BY <2>5, <3>1, OpKeepsTypes DEF OpOverride, TypeOK, history
    <2>6. CASE OpResume(c)
      <3>1. word \ {"PAUSE"} \in SUBSET Levels
        BY DEF TypeOK
      <3> QED
        BY <2>6, <3>1, OpKeepsTypes DEF OpResume, TypeOK
    <2> QED
      BY <1>7, <2>1, <2>2, <2>3, <2>4, <2>5, <2>6 DEF OpNext
  <1>8. ASSUME MachineNext PROVE TypeOK'
    <2>1. CASE MachineEstop
      BY <2>1, <1>6, EstopTypes DEF MachineEstop
    <2>2. CASE MachineRelease
      <3>1. LevelsAfterRelease \in SUBSET Levels
        BY DEF LevelsAfterRelease, TypeOK, Levels
      <3> QED
        BY <2>2, <3>1, ReleaseEnds, PublishKeepsTypes
        DEF MachineRelease, TypeOK, history
    <2>3. ASSUME NEW b \in BOOLEAN, setOverride(b) PROVE TypeOK'
      <3>1. Set(modes, "OVERRIDE", b) \in SUBSET Modes
        BY DEF Set, TypeOK, Modes
      <3> QED
        BY <2>3, <3>1, OverrideEnds, PublishKeepsTypes DEF TypeOK, history
    <2>4. ASSUME NEW b \in BOOLEAN, setHomeRequired(b) PROVE TypeOK'
      <3>1. Set(modes, "HOME_REQUIRED", b) \in SUBSET Modes
        BY DEF Set, TypeOK, Modes
      <3>2. owed' \in SUBSET {"resume", "home"}
        BY <2>4, HomeEnds DEF TypeOK
      <3> QED
        BY <2>4, <3>1, <3>2, HomeEnds, PublishKeepsTypes DEF TypeOK
    <2> QED
      BY <1>8, <2>1, <2>2, <2>3, <2>4 DEF MachineNext
  <1>9. CASE UNCHANGED vars
    BY <1>9 DEF TypeOK, vars, hub, client, history
  <1> QED
    BY <1>1, <1>2, <1>3, <1>4, <1>5, <1>7, <1>8, <1>9 DEF Next, ClientNext

LEMMA TypeInit == Init => TypeOK
  BY BoundsAreNaturals
  DEF Init, TypeOK, Snapshots, Levels, Modes

(* The state has its types in every behaviour of the safety plane.          *)
THEOREM SafetyTypesHold == Spec => []TypeOK
  <1>1. TypeOK /\ [Next]_vars => TypeOK'
    BY TypeStep
  <1> QED  BY TypeInit, <1>1, PTL DEF Spec

-----------------------------------------------------------------------------
(* The steps that leave the hub's state and the history of stops alone.     *)

Quiet == UNCHANGED <<hub, initiators, owed>>

LEMMA QuietSteps ==
    ASSUME NEW c \in Clients, ClientNext(c) \/ LinkNext(c)
    PROVE  Quiet
  BY DEF ClientNext, LinkNext, initiateEstop, RepeatEstop, GiveUp,
         handleState, Open, Ready, Close, Push, Quiet, hub, history

(* What a latched hub does with an ESTOP, and an unlatched one.             *)
LEMMA EstopEffect ==
    ASSUME NEW s, NEW o, handleEstopFrame(s, o)
    PROVE  \/ Latched /\ Quiet
           \/ /\ ~Latched
              /\ Published(word \cup {"ESTOP"}, ModesAfterEstop, s)
              /\ owed' = OwedAfterEstop
  BY EstopEnds DEF Quiet, history

(* What an op does that leaves the history of stops alone.                  *)
LEMMA OpEffect ==
    ASSUME NEW w, NEW m, applySafetyOpLatch(w, m), UNCHANGED history
    PROVE  \/ Quiet
           \/ Published(w, m, estopSeq) /\ UNCHANGED history
  BY OpEnds DEF Quiet, Unmoved, history

-----------------------------------------------------------------------------
(* ShownIsInForce.  The retained entry is the state in force, and whatever  *)
(* is underway or shown is the retained entry or an older one.              *)

RetainedIsCurrent ==
    /\ retained.word = word
    /\ retained.modes = modes
    /\ retained.estopSeq = estopSeq

Superseded(snap) == snap = retained \/ snap.seq < retained.seq

Numbered ==
    \A c \in Clients :
        /\ \A snap \in down[c] : Superseded(snap)
        /\ shadow[c] # None => Superseded(shadow[c])

LEMMA PublishIsCurrent ==
    ASSUME NEW w, NEW m, NEW s, Published(w, m, s)
    PROVE  RetainedIsCurrent'
  BY DEF Published, Snapshot, RetainedIsCurrent

LEMMA CurrentStep ==
    ASSUME RetainedIsCurrent, [Next]_vars
    PROVE  RetainedIsCurrent'
  <1>1. CASE Quiet
    BY <1>1 DEF Quiet, hub, RetainedIsCurrent
  <1>2. ASSUME NEW s, NEW o, handleEstopFrame(s, o)
        PROVE  RetainedIsCurrent'
    BY <1>1, <1>2, EstopEffect, PublishIsCurrent
  <1>3. ASSUME NEW w, NEW m, applySafetyOpLatch(w, m)
        PROVE  RetainedIsCurrent'
    BY <1>3, OpEnds, PublishIsCurrent DEF Unmoved, hub, RetainedIsCurrent
  <1>4. ASSUME NEW c \in Clients, OpNext(c) PROVE RetainedIsCurrent'
    BY <1>2, <1>3, <1>4, ReleaseEnds, PublishIsCurrent
    DEF OpNext, RawEstop, OpEstop, OpRelease, OpPause, OpOverride, OpResume
  <1>5. ASSUME MachineNext PROVE RetainedIsCurrent'
    BY <1>2, <1>5, ReleaseEnds, OverrideEnds, HomeEnds, PublishIsCurrent
    DEF MachineNext, MachineEstop, MachineRelease
  <1>6. CASE UNCHANGED vars
    BY <1>1, <1>6 DEF vars, Quiet, hub, history
  <1> QED  BY <1>1, <1>4, <1>5, <1>6, QuietSteps DEF Next

(* Whatever is latched, released, paused or set is what the next session    *)
(* reads.                                                                   *)
LEMMA RetainedHolds == Spec => []RetainedIsCurrent
  <1>1. Init => RetainedIsCurrent
    BY DEF Init, RetainedIsCurrent
  <1>2. RetainedIsCurrent /\ [Next]_vars => RetainedIsCurrent'
    BY CurrentStep
  <1> QED  BY <1>1, <1>2, PTL DEF Spec

LEMMA PublishKeepsNumbers ==
    ASSUME TypeOK, Numbered, NEW w, NEW m, NEW s, Published(w, m, s)
    PROVE  Numbered'
  <1> SUFFICES ASSUME NEW c \in Clients
               PROVE  /\ \A snap \in down'[c] : Superseded(snap)'
                      /\ shadow'[c] # None => Superseded(shadow[c])'
    BY DEF Numbered
  <1>1. /\ retained'.seq = retained.seq + 1 /\ retained.seq \in Nat
        /\ shadow' = shadow
        /\ \A snap \in down'[c] : snap \in down[c] \/ snap = retained'
    BY DEF Published, Broadcast, Snapshot, client, TypeOK, Snapshots
  <1>2. ASSUME NEW snap \in Snapshots, Superseded(snap)
        PROVE  snap.seq < retained'.seq
    BY <1>1, <1>2 DEF Superseded, Snapshots
  <1>3. ASSUME NEW snap \in down'[c] PROVE Superseded(snap)'
    <2>1. CASE snap = retained'  BY <2>1 DEF Superseded
    <2>2. CASE snap \in down[c]
      BY <1>2, <2>2 DEF Superseded, Numbered, TypeOK
    <2> QED  BY <1>1, <2>1, <2>2
  <1>4. ASSUME shadow'[c] # None PROVE Superseded(shadow[c])'
    BY <1>1, <1>2, <1>4 DEF Superseded, Numbered, TypeOK
  <1> QED  BY <1>3, <1>4

(* A step that sends at most the retained entry, and shows at most what was *)
(* underway, leaves the numbers as they were.                               *)
LEMMA RepeatKeepsNumbers ==
    ASSUME Numbered, retained' = retained,
           \A c \in Clients :
               /\ down'[c] \subseteq down[c] \cup {retained}
               /\ shadow'[c] \in down[c] \cup {shadow[c], None}
    PROVE  Numbered'
  <1> SUFFICES ASSUME NEW c \in Clients
               PROVE  /\ \A snap \in down'[c] : Superseded(snap)'
                      /\ shadow'[c] # None => Superseded(shadow[c])'
    BY DEF Numbered
  <1>1. ASSUME NEW snap \in down'[c] PROVE Superseded(snap)'
    BY <1>1 DEF Superseded, Numbered
  <1>2. ASSUME shadow'[c] # None PROVE Superseded(shadow[c])'
    <2>1. CASE shadow'[c] \in down[c]
      BY <2>1 DEF Superseded, Numbered
    <2>2. CASE shadow'[c] = shadow[c]
      BY <1>2, <2>2 DEF Superseded, Numbered
    <2> QED  BY <1>2, <2>1, <2>2
  <1> QED  BY <1>1, <1>2

LEMMA NumberedStep ==
    ASSUME TypeOK, Numbered, [Next]_vars
    PROVE  Numbered'
  <1>1. CASE Unmoved
    BY <1>1, RepeatKeepsNumbers DEF Unmoved, hub, client
  <1>2. ASSUME NEW s, NEW o, handleEstopFrame(s, o) PROVE Numbered'
    <2>1. CASE Latched
      <3>1. /\ down' = Broadcast(retained)
            /\ UNCHANGED <<hub, link, up, client, history>>
        BY <1>2, <2>1, EstopEnds
      <3>2. \A c \in Clients :
              /\ down'[c] \subseteq down[c] \cup {retained}
              /\ shadow'[c] = shadow[c]
        BY <3>1 DEF Broadcast, client
      <3> QED  BY <3>1, <3>2, RepeatKeepsNumbers DEF hub
    <2>2. CASE ~Latched
      BY <1>2, <2>2, EstopEnds, PublishKeepsNumbers
    <2> QED  BY <2>1, <2>2
  <1>3. ASSUME NEW w, NEW m, applySafetyOpLatch(w, m) PROVE Numbered'
    BY <1>1, <1>3, OpEnds, PublishKeepsNumbers
  <1>4. ASSUME NEW c \in Clients, OpNext(c) PROVE Numbered'
    BY <1>2, <1>3, <1>4, ReleaseEnds, PublishKeepsNumbers
    DEF OpNext, RawEstop, OpEstop, OpRelease, OpPause, OpOverride, OpResume
  <1>5. ASSUME MachineNext PROVE Numbered'
    BY <1>2, <1>5, ReleaseEnds, OverrideEnds, HomeEnds, PublishKeepsNumbers
    DEF MachineNext, MachineEstop, MachineRelease
  <1>6. ASSUME NEW c \in Clients, handleState(c) PROVE Numbered'
    <2> PICK snap \in down[c] :
            /\ shadow' = [shadow EXCEPT ![c] = snap]
            /\ UNCHANGED <<hub, down>>
      BY <1>6 DEF handleState
    <2>1. \A d \in Clients : shadow'[d] \in down[d] \cup {shadow[d], None}
      BY DEF TypeOK
    <2> QED  BY <2>1, RepeatKeepsNumbers DEF hub
  <1>7. ASSUME NEW c \in Clients, LinkNext(c) PROVE Numbered'
    <2>1. retained' = retained
      BY <1>7 DEF LinkNext, Open, Ready, Close, Push, hub
    <2>2. ASSUME NEW d \in Clients
          PROVE  /\ down'[d] \subseteq down[d] \cup {retained}
                 /\ shadow'[d] \in down[d] \cup {shadow[d], None}
      BY <1>7 DEF LinkNext, Open, Ready, Close, Push, client, TypeOK
    <2> QED  BY <2>1, <2>2, RepeatKeepsNumbers
  <1>8. ASSUME NEW c \in Clients,
               initiateEstop(c) \/ RepeatEstop(c) \/ GiveUp(c)
        PROVE  Numbered'
    <2>1. retained' = retained /\ down' = down /\ shadow' = shadow
      BY <1>8 DEF initiateEstop, RepeatEstop, GiveUp, hub
    <2> QED  BY <2>1, RepeatKeepsNumbers
  <1>9. CASE UNCHANGED vars
    BY <1>1, <1>9 DEF vars, Unmoved
  <1> QED
    BY <1>4, <1>5, <1>6, <1>7, <1>8, <1>9 DEF Next, ClientNext

(* A client that no push is due to, and that has taken the newest snapshot  *)
(* sent to it, shows the safety state in force, for any number of clients   *)
(* and over links that lose, repeat and reorder.                            *)
THEOREM ShownHolds == Spec => []ShownIsInForce
  <1>1. Init => Numbered
    BY DEF Init, Numbered
  <1>2. TypeOK /\ Numbered /\ [Next]_vars => Numbered'
    BY NumberedStep
  <1>3. TypeOK /\ RetainedIsCurrent /\ Numbered => ShownIsInForce
    <2> SUFFICES ASSUME TypeOK, RetainedIsCurrent, Numbered,
                        NEW c \in Served, UpToDate(c)
                 PROVE  Shows(c)
      BY DEF ShownIsInForce
    <2>1. c \in Clients /\ ~Newer(c, retained)
      BY DEF Served, UpToDate
    <2>2. shadow[c] # None /\ ~(retained.seq > shadow[c].seq)
      BY <2>1 DEF Newer
    <2>3. shadow[c] = retained
      BY <2>1, <2>2 DEF Numbered, Superseded, TypeOK, Snapshots
    <2> QED  BY <2>2, <2>3 DEF RetainedIsCurrent, Shows
  <1> QED
    BY <1>1, <1>2, <1>3, SafetyTypesHold, RetainedHolds, PTL DEF Spec

-----------------------------------------------------------------------------
(* OverrideCarriesPause.                                                    *)

LEMMA OverrideStep ==
    ASSUME TRUE \notin Engages, OverrideCarriesPause, [Next]_vars
    PROVE  OverrideCarriesPause'
  <1>1. CASE Quiet
    BY <1>1 DEF Quiet, hub, OverrideCarriesPause
  <1>2. ASSUME NEW s, NEW o, handleEstopFrame(s, o)
        PROVE  OverrideCarriesPause'
    <2>1. CASE Quiet  BY <1>1, <2>1
    <2>2. CASE Published(word \cup {"ESTOP"}, ModesAfterEstop, s)
      BY <2>2 DEF Published, ModesAfterEstop, OverrideCarriesPause
    <2> QED  BY <1>2, <2>1, <2>2, EstopEffect
  <1>3. CASE releaseEstop
    BY <1>3, ReleaseEnds
    DEF LevelsAfterRelease, Published, OverrideCarriesPause
  <1>4. ASSUME NEW c \in Clients, OpNext(c) PROVE OverrideCarriesPause'
    <2>1. CASE RawEstop(c) \/ OpEstop(c)
      BY <1>2, <2>1 DEF RawEstop, OpEstop
    <2>2. CASE OpRelease(c)  BY <1>3, <2>2 DEF OpRelease
    <2>3. CASE OpPause(c)
      BY <1>1, <2>3, OpEffect DEF OpPause, Published, OverrideCarriesPause
    <2>4. CASE OpOverride(c)
      BY <1>1, <2>4, OpEffect
      DEF OpOverride, LevelsAfterOverride, Published, OverrideCarriesPause
    <2>5. CASE OpResume(c)
      BY <2>5, OpEnds
      DEF OpResume, ResumeRefused, Published, Unmoved, hub,
          OverrideCarriesPause
    <2> QED  BY <1>4, <2>1, <2>2, <2>3, <2>4, <2>5 DEF OpNext
  <1>5. ASSUME MachineNext PROVE OverrideCarriesPause'
    <2>1. CASE MachineEstop  BY <1>2, <2>1 DEF MachineEstop
    <2>2. CASE MachineRelease  BY <1>3, <2>2 DEF MachineRelease
    <2>3. ASSUME NEW b \in Engages, setOverride(b)
          PROVE  OverrideCarriesPause'
      <3>1. b = FALSE  BY EngagesAreBooleans
      <3> QED
        BY <2>3, <3>1, OverrideEnds DEF Set, Published, OverrideCarriesPause
    <2>4. ASSUME NEW b \in BOOLEAN, setHomeRequired(b)
          PROVE  OverrideCarriesPause'
      BY <2>4, HomeEnds DEF Set, Published, OverrideCarriesPause
    <2> QED  BY <1>5, <2>1, <2>2, <2>3, <2>4 DEF MachineNext
  <1>6. CASE UNCHANGED vars
    BY <1>1, <1>6 DEF vars, Quiet, hub, history
  <1> QED  BY <1>1, <1>4, <1>5, <1>6, QuietSteps DEF Next

(* A machine that calls setOverride only to say that the return arrived     *)
(* never has override without PAUSE.                                        *)
THEOREM OverrideHolds ==
    ASSUME TRUE \notin Engages
    PROVE  Spec => []OverrideCarriesPause
  <1>1. Init => OverrideCarriesPause
    BY DEF Init, OverrideCarriesPause
  <1>2. OverrideCarriesPause /\ [Next]_vars => OverrideCarriesPause'
    BY OverrideStep
  <1> QED  BY <1>1, <1>2, PTL DEF Spec

-----------------------------------------------------------------------------
(* StopHolds.  The home that is owed is what home_required says; without    *)
(* that, a resume could free a machine whose home is still outstanding.     *)

StopInv ==
    /\ owed \in SUBSET {"resume", "home"}
    /\ "home" \in owed => "HOME_REQUIRED" \in modes
    /\ StopHolds

LEMMA StopStep ==
    ASSUME StopInv, [Next]_vars
    PROVE  StopInv'
  <1>1. CASE Quiet
    BY <1>1 DEF Quiet, hub, StopInv, StopHolds
  <1>2. ASSUME NEW s, NEW o, handleEstopFrame(s, o)
        PROVE  StopInv'
    <2>1. CASE Quiet  BY <1>1, <2>1
    <2>2. CASE /\ Published(word \cup {"ESTOP"}, ModesAfterEstop, s)
               /\ owed' = OwedAfterEstop
      <3>1. "ESTOP" \in word'
        BY <2>2 DEF Published
      <3>2. "home" \in owed' => "HOME_REQUIRED" \in modes'
        BY <2>2 DEF Published, ModesAfterEstop, OwedAfterEstop, StopInv
      <3>3. owed' \in SUBSET {"resume", "home"}
        BY <2>2 DEF OwedAfterEstop, StopInv
      <3> QED  BY <3>1, <3>2, <3>3 DEF StopInv, StopHolds
    <2> QED  BY <1>2, <2>1, <2>2, EstopEffect
  <1>3. CASE releaseEstop
    BY <1>3, ReleaseEnds
    DEF LevelsAfterRelease, Published, history, StopInv, StopHolds
  <1>4. ASSUME NEW c \in Clients, OpNext(c) PROVE StopInv'
    <2>1. CASE RawEstop(c) \/ OpEstop(c)
      BY <1>2, <2>1 DEF RawEstop, OpEstop
    <2>2. CASE OpRelease(c)  BY <1>3, <2>2 DEF OpRelease
    <2>3. CASE OpPause(c)
      BY <1>1, <2>3, OpEffect
      DEF OpPause, Published, history, StopInv, StopHolds
    <2>4. CASE OpOverride(c)
      BY <1>1, <2>4, OpEffect
      DEF OpOverride, LevelsAfterOverride, Published, history, StopInv,
          StopHolds
    <2>5. CASE OpResume(c)
      <3>1. modes = {} /\ modes' = modes
        BY <2>5, OpEnds
        DEF OpResume, ResumeRefused, Published, Unmoved, hub
      <3>2. owed' = {}
        BY <2>5, <3>1 DEF OpResume, StopInv
      <3> QED  BY <3>2 DEF StopInv, StopHolds
    <2> QED  BY <1>4, <2>1, <2>2, <2>3, <2>4, <2>5 DEF OpNext
  <1>5. ASSUME MachineNext PROVE StopInv'
    <2>1. CASE MachineEstop  BY <1>2, <2>1 DEF MachineEstop
    <2>2. CASE MachineRelease  BY <1>3, <2>2 DEF MachineRelease
    <2>3. ASSUME NEW b \in Engages, setOverride(b)
          PROVE  StopInv'
      BY <2>3, OverrideEnds DEF Set, Published, history, StopInv, StopHolds
    <2>4. ASSUME NEW b \in BOOLEAN, setHomeRequired(b)
          PROVE  StopInv'
      BY <2>4, HomeEnds DEF Set, Published, StopInv, StopHolds
    <2> QED  BY <1>5, <2>1, <2>2, <2>3, <2>4 DEF MachineNext
  <1>6. CASE UNCHANGED vars
    BY <1>1, <1>6 DEF vars, Quiet, hub, history
  <1> QED  BY <1>1, <1>4, <1>5, <1>6, QuietSteps DEF Next

(* An ESTOP is undone by a resume, and by a home where it cuts power, and   *)
(* by nothing else.                                                         *)
THEOREM StopsHold == Spec => []StopHolds
  <1>1. Init => StopInv
    BY DEF Init, StopInv, StopHolds
  <1>2. StopInv /\ [Next]_vars => StopInv'
    BY StopStep
  <1>3. StopInv => StopHolds
    BY DEF StopInv
  <1> QED  BY <1>1, <1>2, <1>3, PTL DEF Spec

-----------------------------------------------------------------------------
(* SoleInitiatorIsTold.  While the hub has only ever been latched by the    *)
(* frames of one client, no snapshot names a later initiation than the      *)
(* client's last, and one that names the last was published after it.       *)

Vouches(snap, last, latched) ==
    /\ snap.estopSeq <= last
    /\ "ESTOP" \in snap.word /\ snap.estopSeq = last /\ last > 0 => latched

SeqInvOf(c) ==
    /\ \A s \in up[c] : s \in 1 .. sent[c]
    /\ active[c] => sent[c] > 0
    /\ initiators \subseteq {c} =>
          \A snap \in down[c] \cup {retained} :
              Vouches(snap, sent[c], stopped[c])

SeqInv == \A c \in Clients : SeqInvOf(c)

(* A publication without a latch repeats the initiation already published.  *)
LEMMA PublishKeepsSeq ==
    ASSUME TypeOK, RetainedIsCurrent, SeqInv,
           NEW w, NEW m, Published(w, m, estopSeq),
           "ESTOP" \in w => "ESTOP" \in word,
           stopped' = stopped, initiators' = initiators
    PROVE  SeqInv'
  <1> SUFFICES ASSUME NEW c \in Clients PROVE SeqInvOf(c)'
    BY DEF SeqInv
  <1>1. SeqInvOf(c)  BY DEF SeqInv
  <1>2. /\ up' = up /\ sent' = sent /\ active' = active
        /\ retained'.word = w /\ retained'.estopSeq = estopSeq
        /\ down'[c] \subseteq down[c] \cup {retained'}
    BY DEF Published, Broadcast, Snapshot, client
  <1>3. Vouches(retained, sent[c], stopped[c])
            => Vouches(retained', sent'[c], stopped'[c])
    BY <1>2 DEF Vouches, RetainedIsCurrent
  <1>4. ASSUME NEW snap \in down[c], Vouches(snap, sent[c], stopped[c])
        PROVE  Vouches(snap, sent'[c], stopped'[c])
    BY <1>2, <1>4 DEF Vouches
  <1> QED  BY <1>1, <1>2, <1>3, <1>4 DEF SeqInvOf

(* Sending the retained entry again says nothing new.                       *)
LEMMA RepeatKeepsSeq ==
    ASSUME SeqInv, UNCHANGED <<hub, up, client, history>>,
           \A c \in Clients : down'[c] \subseteq down[c] \cup {retained}
    PROVE  SeqInv'
  <1> SUFFICES ASSUME NEW c \in Clients PROVE SeqInvOf(c)'
    BY DEF SeqInv
  <1>1. SeqInvOf(c)  BY DEF SeqInv
  <1>2. ASSUME NEW snap, Vouches(snap, sent[c], stopped[c])
        PROVE  Vouches(snap, sent'[c], stopped'[c])
    BY <1>2 DEF Vouches, client, history
  <1> QED  BY <1>1, <1>2 DEF SeqInvOf, hub, client, history

(* An op publishes without a latch, or leaves everything as it is.          *)
LEMMA OpKeepsSeq ==
    ASSUME TypeOK, RetainedIsCurrent, SeqInv,
           NEW w, NEW m, applySafetyOpLatch(w, m),
           "ESTOP" \in w => "ESTOP" \in word,
           stopped' = stopped, initiators' = initiators
    PROVE  SeqInv'
  <1>1. CASE Published(w, m, estopSeq)  BY <1>1, PublishKeepsSeq
  <1>2. CASE Unmoved
    BY <1>2 DEF Unmoved, hub, client, SeqInv, SeqInvOf, Vouches
  <1> QED  BY <1>1, <1>2, OpEnds

LEMMA EstopKeepsSeq ==
    ASSUME TypeOK, SeqInv, NEW s, NEW o \in Clients \cup {None},
           o \in Clients => s \in up[o],
           handleEstopFrame(s, o)
    PROVE  SeqInv'
  <1>1. CASE Latched
    <2>1. /\ down' = Broadcast(retained)
          /\ UNCHANGED <<hub, link, up, client, history>>
      BY <1>1, EstopEnds
    <2>2. \A c \in Clients : down'[c] \subseteq down[c] \cup {retained}
      BY <2>1 DEF Broadcast
    <2> QED
      BY <2>1, <2>2, RepeatKeepsSeq
  <1>2. CASE ~Latched
    <2> SUFFICES ASSUME NEW c \in Clients PROVE SeqInvOf(c)'
      BY DEF SeqInv
    <2>1. SeqInvOf(c)  BY DEF SeqInv
    <2>2. /\ up' = up /\ sent' = sent /\ active' = active
          /\ retained'.estopSeq = s
          /\ down'[c] \subseteq down[c] \cup {retained'}
          /\ stopped'[c] = TRUE
          /\ initiators' = initiators \cup {o}
      BY <1>2, EstopEnds DEF Published, Broadcast, Snapshot, client
    <2>3. ASSUME initiators' \subseteq {c}
          PROVE  \A snap \in (down[c] \cup {retained})' :
                     Vouches(snap, sent'[c], stopped'[c])
      <3>1. o = c
        BY <2>2, <2>3
      <3>2. s <= sent[c]
        BY <2>1, <3>1 DEF SeqInvOf, TypeOK
      <3>3. Vouches(retained', sent'[c], stopped'[c])
        BY <2>2, <3>2 DEF Vouches
      <3>4. initiators \subseteq {c}
        BY <2>2, <2>3
      <3>5. ASSUME NEW snap \in down[c]
            PROVE  Vouches(snap, sent'[c], stopped'[c])
        BY <2>1, <2>2, <3>4 DEF SeqInvOf, Vouches
      <3> QED  BY <2>2, <3>3, <3>5
    <2> QED  BY <2>1, <2>2, <2>3 DEF SeqInvOf
  <1> QED  BY <1>1, <1>2

LEMMA SeqStep ==
    ASSUME TypeOK, RetainedIsCurrent, SeqInv, [Next]_vars
    PROVE  SeqInv'
  <1>1. ASSUME NEW c \in Clients, initiateEstop(c) PROVE SeqInv'
    <2> SUFFICES ASSUME NEW d \in Clients PROVE SeqInvOf(d)'
      BY DEF SeqInv
    <2>1. SeqInvOf(d)  BY DEF SeqInv
    <2>2. /\ retained' = retained /\ down' = down
          /\ initiators' = initiators
      BY <1>1 DEF initiateEstop, hub
    <2>3. CASE d = c
      <3>1. sent'[d] = sent[d] + 1 /\ sent[d] \in Nat
        BY <1>1, <2>3 DEF initiateEstop, TypeOK
      <3>2. \A s \in up'[d] : s \in up[d] \/ s = sent[d] + 1
        BY <1>1, <2>3 DEF initiateEstop, Written, TypeOK
      <3>3. \A s \in up'[d] : s \in 1 .. sent'[d]
        BY <2>1, <3>1, <3>2 DEF SeqInvOf
      <3>4. ASSUME NEW snap \in down[d] \cup {retained},
                   Vouches(snap, sent[d], stopped[d])
            PROVE  Vouches(snap, sent'[d], stopped'[d])
        <4>1. snap.estopSeq \in Nat
          BY DEF TypeOK, Snapshots
        <4> QED  BY <3>1, <3>4, <4>1 DEF Vouches
      <3> QED  BY <2>1, <2>2, <3>1, <3>3, <3>4 DEF SeqInvOf
    <2>4. CASE d # c
      <3>1. /\ sent'[d] = sent[d] /\ active'[d] = active[d]
            /\ stopped'[d] = stopped[d]
        BY <1>1, <2>4 DEF initiateEstop, TypeOK
      <3>2. up'[d] = up[d]
        BY <1>1, <2>4 DEF initiateEstop, Written, TypeOK
      <3> QED  BY <2>1, <2>2, <3>1, <3>2 DEF SeqInvOf, Vouches
    <2> QED  BY <2>3, <2>4
  <1>2. ASSUME NEW c \in Clients, RepeatEstop(c) PROVE SeqInv'
    <2> SUFFICES ASSUME NEW d \in Clients PROVE SeqInvOf(d)'
      BY DEF SeqInv
    <2>1. SeqInvOf(d) /\ SeqInvOf(c)  BY DEF SeqInv
    <2>2. /\ retained' = retained /\ down' = down /\ sent' = sent
          /\ active' = active /\ stopped' = stopped
          /\ initiators' = initiators
      BY <1>2 DEF RepeatEstop, hub, history
    <2>3. sent[c] \in 1 .. sent[c]
      BY <1>2, <2>1 DEF RepeatEstop, SeqInvOf, TypeOK
    <2>4. \A s \in up'[d] : s \in 1 .. sent[d]
      BY <1>2, <2>1, <2>3 DEF RepeatEstop, Written, SeqInvOf, TypeOK
    <2> QED  BY <2>1, <2>2, <2>4 DEF SeqInvOf, Vouches
  <1>3. ASSUME NEW c \in Clients, GiveUp(c) \/ handleState(c) \/ LinkNext(c)
        PROVE  SeqInv'
    <2> SUFFICES ASSUME NEW d \in Clients PROVE SeqInvOf(d)'
      BY DEF SeqInv
    <2>1. SeqInvOf(d)  BY DEF SeqInv
    <2>2. /\ retained' = retained /\ sent' = sent /\ stopped' = stopped
          /\ initiators' = initiators
      BY <1>3
      DEF GiveUp, handleState, LinkNext, Open, Ready, Close, Push, hub, client,
          history
    <2>3. up'[d] \subseteq up[d]
      BY <1>3
      DEF GiveUp, handleState, LinkNext, Open, Ready, Close, Push, TypeOK
    <2>4. down'[d] \subseteq down[d] \cup {retained}
      BY ZenonT(60), <1>3
      DEF GiveUp, handleState, LinkNext, Open, Ready, Close, Push, TypeOK
    <2>5. active'[d] => active[d]
      BY ZenonT(60), <1>3
      DEF GiveUp, handleState, LinkNext, Open, Ready, Close, Push, TypeOK,
          client
    <2> QED  BY <2>1, <2>2, <2>3, <2>4, <2>5 DEF SeqInvOf, Vouches
  <1>4. CASE releaseEstop
    BY <1>4, ReleaseEnds, PublishKeepsSeq DEF LevelsAfterRelease, history
  <1>5. ASSUME NEW c \in Clients, OpNext(c) PROVE SeqInv'
    <2>1. CASE RawEstop(c)
      BY <2>1, EstopKeepsSeq DEF RawEstop
    <2>2. CASE OpEstop(c)
      BY <2>2, EstopKeepsSeq, NoneIsNeither DEF OpEstop
    <2>3. CASE OpRelease(c)  BY <1>4, <2>3 DEF OpRelease
    <2>4. CASE OpPause(c)
      BY <2>4, OpKeepsSeq DEF OpPause, history
    <2>5. CASE OpOverride(c)
      BY <2>5, OpKeepsSeq DEF OpOverride, LevelsAfterOverride, history
    <2>6. CASE OpResume(c)
      BY <2>6, OpKeepsSeq DEF OpResume
    <2> QED
      BY <1>5, <2>1, <2>2, <2>3, <2>4, <2>5, <2>6 DEF OpNext
  <1>6. ASSUME MachineNext PROVE SeqInv'
    <2>1. CASE MachineEstop
      BY <2>1, EstopKeepsSeq, NoneIsNeither DEF MachineEstop
    <2>2. CASE MachineRelease  BY <1>4, <2>2 DEF MachineRelease
    <2>3. ASSUME NEW b \in Engages, setOverride(b) PROVE SeqInv'
      BY <2>3, OverrideEnds, PublishKeepsSeq DEF history
    <2>4. ASSUME NEW b \in BOOLEAN, setHomeRequired(b) PROVE SeqInv'
      BY <2>4, HomeEnds, PublishKeepsSeq
    <2> QED  BY <1>6, <2>1, <2>2, <2>3, <2>4 DEF MachineNext
  <1>7. CASE UNCHANGED vars
    <2>1. \A c \in Clients : down'[c] \subseteq down[c] \cup {retained}
      BY <1>7 DEF vars
    <2> QED  BY <1>7, <2>1, RepeatKeepsSeq DEF vars
  <1> QED
    BY <1>1, <1>2, <1>3, <1>5, <1>6, <1>7 DEF Next, ClientNext

(* The step that ends a repetition without a failure is the arrival of a    *)
(* snapshot that reaches the initiation.                                    *)
LEMMA ToldByTheHub ==
    ASSUME TypeOK, SeqInv, Next, NEW c \in Clients,
           Acknowledged(c), initiators \subseteq {c}
    PROVE  stopped[c]
  <1>1. PICK d \in Clients : ClientNext(d) \/ LinkNext(d)
    <2>1. ASSUME NEW d \in Clients, OpNext(d) PROVE active' = active
      BY <2>1
      DEF OpNext, RawEstop, OpEstop, OpRelease, OpPause, OpOverride, OpResume,
          handleEstopFrame, releaseEstop, applySafetyOpLatch, client
    <2>2. ASSUME MachineNext PROVE active' = active
      BY <2>2
      DEF MachineNext, MachineEstop, MachineRelease, setOverride,
          setHomeRequired, handleEstopFrame, releaseEstop, client
    <2>3. active' # active
      BY DEF Acknowledged
    <2> QED  BY <2>1, <2>2, <2>3 DEF Next
  <1>2. handleState(c)
    <2>1. ~initiateEstop(d) /\ ~RepeatEstop(d)
      BY DEF initiateEstop, RepeatEstop, Acknowledged, TypeOK
    <2>2. ~GiveUp(d)
      BY DEF GiveUp, Acknowledged, TypeOK
    <2>3. ~LinkNext(d)
      BY DEF LinkNext, Open, Ready, Close, Push, Acknowledged, TypeOK, client
    <2>4. handleState(d) => d = c
      BY DEF handleState, Acknowledged, TypeOK
    <2> QED  BY <1>1, <2>1, <2>2, <2>3, <2>4 DEF ClientNext
  <1>3. PICK snap \in down[c] : Reached(c, snap)
    BY <1>2 DEF handleState, Acknowledged, TypeOK
  <1>4. Vouches(snap, sent[c], stopped[c]) /\ sent[c] > 0
    BY DEF SeqInv, SeqInvOf, Acknowledged
  <1>5. snap.estopSeq \in Nat /\ sent[c] \in Nat
    BY DEF TypeOK, Snapshots
  <1> QED  BY <1>3, <1>4, <1>5 DEF Reached, Vouches

(* The client whose frames alone have latched the hub stops repeating for   *)
(* no latch older than its initiation, over any link.                       *)
THEOREM SoleInitiatorHolds == Spec => SoleInitiatorIsTold
  <1>1. Init => SeqInv
    BY DEF Init, SeqInv, SeqInvOf, Vouches
  <1>2. TypeOK /\ RetainedIsCurrent /\ SeqInv /\ [Next]_vars => SeqInv'
    BY SeqStep
  <1>3. TypeOK /\ SeqInv /\ [Next]_vars
            => [\A c \in Clients :
                  Acknowledged(c) /\ initiators \subseteq {c}
                      => stopped[c]]_vars
    BY ToldByTheHub
  <1> QED
    BY <1>1, <1>2, <1>3, SafetyTypesHold, RetainedHolds, PTL
    DEF Spec, SoleInitiatorIsTold

------------------------------------------------------------------------------
(* The event plane.  Between two steps of a handler the hub may be past    *)
(* the bounds that the whole step keeps, so the types of the inductive     *)
(* invariant have none.                                                    *)
AnyEvent == [ch : Channels, n : Nat \ {0}]

AnySession ==
    [state : {"FREE", "LIVE", "STALE"}, linked : BOOLEAN, ready : BOOLEAN,
     subs : SUBSET Channels, queue : Seq(AnyEvent), dropped : Nat,
     owed : SUBSET AnyEvent, last : Nat, inOrder : BOOLEAN]

(* What waits in q was made already, and the events that are not log lines *)
(* wait in the order they were made, after the last one handed over        *)
Waiting(q, last, m) ==
    /\ \A i \in 1 .. Len(q) : q[i].n <= m /\ (q[i].ch # Log => last < q[i].n)
    /\ \A i, j \in 1 .. Len(q) :
         i < j /\ q[i].ch # Log /\ q[j].ch # Log => q[i].n < q[j].n

(* What is owed is covered by a grant and was made already *)
Covered(owing, subs, m) ==
    IsFiniteSet(owing) /\ \A e \in owing : e.ch \in subs /\ e.n <= m

SessionOk(p, m) ==
    /\ p \in AnySession
    /\ Len(p.queue) <= QueueDepth
    /\ p.last <= m /\ p.inOrder
    /\ Waiting(p.queue, p.last, m)
    /\ Covered(p.owed, p.subs, m)
    /\ Cardinality(p.owed \ ToSet(p.queue)) <= p.dropped

HubOk(h) ==
    /\ h \in [sess : [Sessions -> AnySession], made : Nat]
    /\ \A s \in Sessions : SessionOk(h.sess[s], h.made)

RingOk(r, m) ==
    /\ r \in Seq(Nat \ {0}) /\ Len(r) <= RingDepth
    /\ \A i \in 1 .. Len(r) : r[i] <= m

EventInv == HubOk(Now) /\ RingOk(ring, made) /\ made <= MaxEvents

------------------------------------------------------------------------------
(* Sequences *)

LEMMA NewestIs ==
    ASSUME NEW T, NEW q \in Seq(T), NEW k \in Nat
    PROVE  /\ Excess(q, k) \in 0 .. Len(q)
           /\ Newest(q, k) \in Seq(T)
           /\ Len(Newest(q, k)) = Len(q) - Excess(q, k)
           /\ Len(Newest(q, k)) <= k
           /\ \A i \in 1 .. Len(Newest(q, k)) :
                /\ Excess(q, k) + i \in 1 .. Len(q)
                /\ Newest(q, k)[i] = q[Excess(q, k) + i]
  <1>1. Excess(q, k) \in 0 .. Len(q) /\ Len(q) - Excess(q, k) <= k
    BY DEF Excess
  <1>2. PICK d \in Nat : d = Excess(q, k) /\ d <= Len(q) /\ Len(q) - d <= k
    BY <1>1
  <1>3. Newest(q, k) = SubSeq(q, d + 1, Len(q))
    BY <1>2 DEF Newest
  <1>4. /\ SubSeq(q, d + 1, Len(q)) \in Seq(T)
        /\ Len(SubSeq(q, d + 1, Len(q))) = Len(q) - d
        /\ \A i \in 1 .. (Len(q) - d) : SubSeq(q, d + 1, Len(q))[i] = q[d + i]
    BY <1>2
  <1>5. \A i \in 1 .. (Len(q) - d) : d + i \in 1 .. Len(q)
    BY <1>2
  <1> QED  BY <1>1, <1>2, <1>3, <1>4, <1>5

LEMMA SeqInto ==
    ASSUME NEW S, NEW T, NEW q \in Seq(S), \A i \in 1 .. Len(q) : q[i] \in T
    PROVE  q \in Seq(T)
  OBVIOUS

LEMMA ConcatIs ==
    ASSUME NEW T, NEW q \in Seq(T), NEW es \in Seq(T)
    PROVE  /\ q \o es \in Seq(T)
           /\ Len(q \o es) = Len(q) + Len(es)
           /\ \A i \in 1 .. Len(q) : (q \o es)[i] = q[i]
           /\ \A i \in 1 .. Len(es) : (q \o es)[Len(q) + i] = es[i]
           /\ \A i \in 1 .. Len(q \o es) :
                \/ i \in 1 .. Len(q) /\ (q \o es)[i] = q[i]
                \/ /\ i - Len(q) \in 1 .. Len(es)
                   /\ (q \o es)[i] = es[i - Len(q)]
  OBVIOUS

LEMMA ToSetIs ==
    ASSUME NEW T, NEW q \in Seq(T)
    PROVE  /\ \A x : x \in ToSet(q) <=> \E i \in 1 .. Len(q) : x = q[i]
           /\ ToSet(q) \subseteq T
           /\ IsFiniteSet(ToSet(q))
  <1>1. DOMAIN q = 1 .. Len(q)
    OBVIOUS
  <1>2. \A x : x \in ToSet(q) <=> \E i \in 1 .. Len(q) : x = q[i]
    BY <1>1 DEF ToSet
  <1>3. q \in Surjection(1 .. Len(q), ToSet(q))
    BY <1>1, <1>2 DEF Surjection
  <1>4. IsFiniteSet(1 .. Len(q))
    BY FS_Interval
  <1>5. IsFiniteSet(ToSet(q))
    BY <1>3, <1>4, FS_Surjection
  <1> QED  BY <1>2, <1>5

(* The first d members of a sequence are d at most *)
LEMMA FirstFew ==
    ASSUME NEW T, NEW q \in Seq(T), NEW d \in 0 .. Len(q)
    PROVE  /\ IsFiniteSet({q[i] : i \in 1 .. d})
           /\ Cardinality({q[i] : i \in 1 .. d}) <= d
  <1> DEFINE F == {q[i] : i \in 1 .. d}
             f == [i \in 1 .. d |-> q[i]]
  <1>1. f \in Surjection(1 .. d, F)
    BY DEF Surjection
  <1>2. IsFiniteSet(1 .. d) /\ Cardinality(1 .. d) = d
    BY FS_Interval
  <1> QED  BY <1>1, <1>2, FS_Surjection

------------------------------------------------------------------------------
(* The queue *)

(* Dropping the oldest events leaves the others in order *)
LEMMA NewestWaiting ==
    ASSUME NEW q \in Seq(AnyEvent), NEW k \in Nat, NEW lst \in Nat,
           NEW m \in Nat, Waiting(q, lst, m)
    PROVE  Waiting(Newest(q, k), lst, m)
  <1>1. PICK d \in Nat : d = Excess(q, k)
    BY NewestIs
  <1>2. PICK r : r = Newest(q, k)
    OBVIOUS
  <1>3. \A i \in 1 .. Len(r) : r[i] = q[d + i]
    BY <1>1, <1>2, NewestIs
  <1>4. \A i \in 1 .. Len(r) : d + i \in 1 .. Len(q)
    BY <1>1, <1>2, NewestIs
  <1>5. \A i \in 1 .. Len(r) : r[i].n <= m /\ (r[i].ch # Log => lst < r[i].n)
    BY <1>3, <1>4 DEF Waiting
  <1>6. ASSUME NEW i \in 1 .. Len(r), NEW j \in 1 .. Len(r), i < j,
               r[i].ch # Log, r[j].ch # Log
        PROVE  r[i].n < r[j].n
    <2>1. d + i < d + j
      BY <1>6
    <2> QED  BY <1>3, <1>4, <1>6, <2>1 DEF Waiting
  <1> QED  BY <1>2, <1>5, <1>6 DEF Waiting

(* What a push takes out of the queue it counts *)
LEMMA PushCounts ==
    ASSUME NEW q \in Seq(AnyEvent), NEW es \in Seq(AnyEvent),
           NEW owing, IsFiniteSet(owing), NEW c \in Nat,
           Cardinality(owing \ ToSet(q)) <= c, NEW k \in Nat
    PROVE  /\ IsFiniteSet(owing \cup ToSet(es))
           /\ Cardinality((owing \cup ToSet(es)) \ ToSet(Newest(q \o es, k)))
                <= c + Excess(q \o es, k)
  <1>1. PICK all \in Seq(AnyEvent) : all = q \o es
    BY ConcatIs
  <1>2. PICK d \in 0 .. Len(all) : d = Excess(all, k)
    BY <1>1, NewestIs
  <1>a. PICK r : r = Newest(all, k)
    OBVIOUS
  <1>3. /\ r \in Seq(AnyEvent) /\ Len(r) = Len(all) - d
        /\ \A i \in 1 .. Len(r) : r[i] = all[d + i]
    BY <1>2, <1>a, NewestIs
  <1> DEFINE F    == {all[i] : i \in 1 .. d}
             Lost == owing \ ToSet(q)
             Now2 == (owing \cup ToSet(es)) \ ToSet(r)
  <1>4. IsFiniteSet(owing \cup ToSet(es))
    BY ToSetIs, FS_Union
  <1>5. ASSUME NEW x \in ToSet(q) \cup ToSet(es), x \notin ToSet(r)
        PROVE  x \in F
    <2>1. PICK i \in 1 .. Len(all) : x = all[i]
      <3>1. CASE x \in ToSet(q)
        BY <1>1, <3>1, ToSetIs, ConcatIs
      <3>2. CASE x \in ToSet(es)
        <4>1. PICK j \in 1 .. Len(es) : x = es[j]
          BY <3>2, ToSetIs
        <4>2. Len(q) + j \in 1 .. Len(all) /\ all[Len(q) + j] = x
          BY <1>1, <4>1, ConcatIs
        <4> QED  BY <4>2
      <3> QED  BY <1>5, <3>1, <3>2
    <2>2. CASE i > d
      <3>1. i - d \in 1 .. Len(r) /\ d + (i - d) = i
        BY <1>3, <2>1, <2>2
      <3>2. r[i - d] = x
        BY <1>3, <2>1, <3>1
      <3>3. x \in ToSet(r)
        BY <1>3, <3>1, <3>2, ToSetIs
      <3> QED  BY <1>5, <3>3
    <2> QED  BY <2>1, <2>2
  <1>6. Now2 \subseteq Lost \cup F
    BY <1>5
  <1>7. IsFiniteSet(F) /\ Cardinality(F) <= d
    BY FirstFew
  <1>8. IsFiniteSet(Lost) /\ Cardinality(Lost) \in Nat
    BY FS_Difference, FS_CardinalityType
  <1> HIDE DEF F, Lost, Now2
  <1>9. /\ IsFiniteSet(Lost \cup F)
        /\ Cardinality(Lost \cup F) = Cardinality(Lost) + Cardinality(F)
             - Cardinality(Lost \cap F)
    BY <1>7, <1>8, FS_Union
  <1>10. Cardinality(F) \in Nat /\ Cardinality(Lost \cap F) \in Nat
    BY <1>7, <1>8, FS_Intersection, FS_CardinalityType
  <1>11. Cardinality(Now2) <= Cardinality(Lost \cup F)
    BY <1>6, <1>9, FS_Subset
  <1>12. Cardinality(Now2) \in Nat
    BY <1>6, <1>9, FS_Subset, FS_CardinalityType
  <1>13. Cardinality(Lost) <= c
    BY DEF Lost
  <1>14. Cardinality(Now2) <= c + d
    BY <1>7, <1>8, <1>9, <1>10, <1>11, <1>12, <1>13
  <1> QED  BY <1>1, <1>2, <1>a, <1>4, <1>14 DEF Now2
------------------------------------------------------------------------------
(* Sessions *)

(* A push keeps a session in order *)
LEMMA PushOk ==
    ASSUME NEW p, NEW m \in Nat, NEW m2 \in Nat, m <= m2, SessionOk(p, m),
           NEW es \in Seq(AnyEvent), Waiting(p.queue \o es, p.last, m2),
           \A i \in 1 .. Len(es) : es[i].ch \in p.subs /\ es[i].n <= m2
    PROVE  SessionOk(PushEvents(p, es), m2)
  <1>1. p \in AnySession
    BY DEF SessionOk
  <1>2. PICK q \in Seq(AnyEvent) : q = p.queue
    BY <1>1 DEF AnySession
  <1>3. QueueDepth \in Nat
    BY EventConstants
  <1>4. q \o es \in Seq(AnyEvent)
    BY ConcatIs
  <1>5. PICK r : r = Newest(q \o es, QueueDepth)
    OBVIOUS
  <1>b. Excess(q \o es, QueueDepth) \in Nat
    <2>1. Excess(q \o es, QueueDepth) \in 0 .. Len(q \o es)
      BY <1>3, <1>4, NewestIs
    <2>2. Len(q \o es) \in Nat
      BY <1>4
    <2> QED  BY <2>1, <2>2
  <1>6. PICK d \in Nat : d = Excess(q \o es, QueueDepth)
    BY <1>b
  <1>7. r \in Seq(AnyEvent) /\ Len(r) <= QueueDepth
    BY <1>3, <1>4, <1>5, NewestIs
  <1>8. PICK o : o = p.owed \cup ToSet(es)
    OBVIOUS
  <1>9. o \subseteq AnyEvent
    BY <1>1, <1>8, ToSetIs DEF AnySession
  <1>10. PICK p2 : p2 = PushEvents(p, es)
    OBVIOUS
  <1>11. p2 = [p EXCEPT !.queue = r, !.dropped = @ + d, !.owed = o]
    BY <1>2, <1>5, <1>6, <1>8, <1>10 DEF PushEvents
  <1>c. p.dropped + d \in Nat
    BY <1>1 DEF AnySession
  <1>12. /\ p2 \in AnySession
         /\ p2.queue = r /\ p2.dropped = p.dropped + d /\ p2.owed = o
         /\ p2.last = p.last /\ p2.inOrder = p.inOrder /\ p2.subs = p.subs
    <2>1. p2 \in AnySession
      BY <1>1, <1>7, <1>9, <1>11, <1>c DEF AnySession
    <2>2. /\ p2.queue = r /\ p2.dropped = p.dropped + d /\ p2.owed = o
          /\ p2.last = p.last /\ p2.subs = p.subs
      BY <1>1, <1>11 DEF AnySession
    <2>3. p2.inOrder = p.inOrder
      BY <1>1, <1>11 DEF AnySession
    <2> QED  BY <2>1, <2>2, <2>3
  <1>13. p.last \in Nat /\ p.dropped \in Nat
    BY <1>1 DEF AnySession
  <1>14. Waiting(r, p.last, m2)
    BY <1>2, <1>3, <1>4, <1>5, <1>13, NewestWaiting
  <1>15. /\ IsFiniteSet(o)
         /\ Cardinality(o \ ToSet(r)) <= p.dropped + d
    <2>1. IsFiniteSet(p.owed) /\ Cardinality(p.owed \ ToSet(q)) <= p.dropped
      BY <1>2 DEF SessionOk, Covered
    <2> QED  BY <1>3, <1>5, <1>6, <1>8, <1>13, <2>1, PushCounts
  <1>16. ASSUME NEW e \in o  PROVE e.ch \in p.subs /\ e.n <= m2
    <2>1. CASE e \in p.owed
      <3>1. e.ch \in p.subs /\ e.n <= m /\ e.n \in Nat
        BY <1>1, <2>1 DEF SessionOk, Covered, AnySession, AnyEvent
      <3> QED  BY <3>1
    <2>2. CASE e \in ToSet(es)
      BY <2>2, ToSetIs
    <2> QED  BY <1>8, <1>16, <2>1, <2>2
  <1>17. p.last <= m2 /\ p.inOrder
    BY <1>13 DEF SessionOk
  <1>18. Covered(o, p.subs, m2)
    BY <1>15, <1>16 DEF Covered
  <1> QED
    BY <1>7, <1>10, <1>12, <1>14, <1>15, <1>17, <1>18 DEF SessionOk

(* A nonempty set of places has a largest one *)
LEMMA MaxIn ==
    ASSUME NEW k \in Nat, NEW S, S \subseteq 1 .. k, S # {}
    PROVE  Max(S) \in S
  <1> DEFINE T == {k - i : i \in S}
  <1>1. T \subseteq Nat /\ T # {}
    OBVIOUS
  <1>2. PICK x \in T : \A y \in T : <<y, x>> \notin OpToRel(<, Nat)
    BY <1>1, NatLessThanWellFounded, WFMin
  <1>3. PICK i \in S : x = k - i
    BY <1>2
  <1>4. ASSUME NEW j \in S  PROVE i >= j
    <2>1. k - j \in T
      OBVIOUS
    <2>2. ~(k - j < x)
      BY <1>1, <1>2, <2>1 DEF OpToRel
    <2> QED  BY <1>3, <2>2
  <1>5. \E y \in S : \A j \in S : y >= j
    BY <1>3, <1>4
  <1> QED  BY <1>5 DEF Max

(* A drain hands over everything that waits, in order *)
LEMMA HandedOk ==
    ASSUME NEW p, NEW m \in Nat, SessionOk(p, m)
    PROVE  SessionOk(Handed(p, p.queue), m)
  <1>1. p \in AnySession /\ p.last \in Nat /\ p.dropped \in Nat
    BY DEF SessionOk, AnySession
  <1>2. PICK q \in Seq(AnyEvent) : q = p.queue
    BY <1>1 DEF AnySession
  <1>3. Waiting(q, p.last, m) /\ p.inOrder = TRUE /\ p.last <= m
    BY <1>1, <1>2 DEF SessionOk, AnySession
  <1>4. PICK S : S = Popped(p, q)
    OBVIOUS
  <1>5. PICK U : U = {i \in S : q[i].ch # Log}
    OBVIOUS
  <1>6. S = {i \in 1 .. Len(q) : q[i].ch \in p.subs} /\ U \subseteq 1 .. Len(q)
    BY <1>4, <1>5 DEF Popped
  <1>7. /\ \A i \in U : p.last < q[i].n
        /\ \A i, j \in U : i < j => q[i].n < q[j].n
    BY <1>3, <1>5, <1>6 DEF Waiting
  <1>8. PICK l : l = IF U = {} THEN p.last ELSE q[Max(U)].n
    OBVIOUS
  <1>9. l \in Nat /\ l <= m
    <2>1. CASE U = {}
      BY <1>1, <1>3, <1>8, <2>1
    <2>2. CASE U # {}
      <3>a. Len(q) \in Nat /\ U \subseteq 1 .. Len(q)
        BY <1>6
      <3>b. Max(U) \in U
        BY <2>2, <3>a, MaxIn
      <3>1. PICK i \in 1 .. Len(q) : i = Max(U)
        BY <3>a, <3>b
      <3>2. q[i] \in AnyEvent
        BY <3>1
      <3>3. q[i].n \in Nat /\ q[i].n <= m
        BY <1>3, <3>2 DEF Waiting, AnyEvent
      <3> QED  BY <1>8, <2>2, <3>1, <3>3
    <2> QED  BY <2>1, <2>2
  <1>10. PICK o : o = p.owed \ {q[i] : i \in S}
    OBVIOUS
  <1>11. PICK p2 : p2 = Handed(p, q)
    OBVIOUS
  <1>12. p2 = [p EXCEPT !.queue = << >>, !.owed = o, !.last = l,
                       !.inOrder = TRUE]
    <2>1. p2 = [p EXCEPT
           !.queue = << >>, !.owed = @ \ {q[i] : i \in S},
           !.last = IF U = {} THEN @ ELSE q[Max(U)].n,
           !.inOrder = /\ @
                       /\ \A i \in U : p.last < q[i].n
                       /\ \A i, j \in U : i < j => q[i].n < q[j].n]
      BY <1>4, <1>5, <1>11, Zenon DEF Handed
    <2>2. (/\ p.inOrder
           /\ \A i \in U : p.last < q[i].n
           /\ \A i, j \in U : i < j => q[i].n < q[j].n) = TRUE
      BY <1>3, <1>7
    <2> QED  BY <1>8, <1>10, <2>1, <2>2, Zenon
  <1>13. o \subseteq p.owed /\ p.owed \subseteq AnyEvent
    BY <1>1, <1>10 DEF AnySession
  <1>14. /\ p2 \in AnySession
         /\ p2.queue = << >> /\ p2.owed = o /\ p2.last = l
         /\ p2.inOrder = TRUE
         /\ p2.subs = p.subs /\ p2.dropped = p.dropped
    <2>1. p2 \in AnySession
      <3>1. << >> \in Seq(AnyEvent) /\ o \in SUBSET AnyEvent
        BY <1>13
      <3> QED  BY <1>1, <1>9, <1>12, <3>1 DEF AnySession
    <2>2. /\ p2.queue = << >> /\ p2.owed = o /\ p2.last = l
          /\ p2.subs = p.subs /\ p2.dropped = p.dropped
      BY <1>1, <1>12 DEF AnySession
    <2>3. p2.inOrder = TRUE
      BY <1>1, <1>12 DEF AnySession
    <2> QED  BY <2>1, <2>2, <2>3
  <1>15. IsFiniteSet(p.owed) /\ \A e \in p.owed : e.ch \in p.subs /\ e.n <= m
    BY DEF SessionOk, Covered
  <1>16. Covered(o, p.subs, m)
    BY <1>13, <1>15, FS_Subset DEF Covered
  <1>17. o = p.owed \ ToSet(q)
    <2>1. ASSUME NEW e \in p.owed
          PROVE  (e \in {q[i] : i \in S}) <=> (e \in ToSet(q))
      BY <1>6, <1>15, ToSetIs
    <2> QED  BY <1>10, <2>1
  <1>18. o \ ToSet(p2.queue) = o
    BY <1>14 DEF ToSet
  <1>19. Cardinality(o \ ToSet(p2.queue)) <= p.dropped
    BY <1>2, <1>17, <1>18 DEF SessionOk
  <1>20. Waiting(p2.queue, l, m) /\ Len(p2.queue) <= QueueDepth
    BY <1>14, EventConstants DEF Waiting
  <1> QED
    BY <1>2, <1>9, <1>11, <1>14, <1>16, <1>19, <1>20 DEF SessionOk

LEMMA DrainedOk ==
    ASSUME NEW p, NEW m \in Nat, SessionOk(p, m)
    PROVE  SessionOk(Drained(p), m)
  BY HandedOk DEF Drained
LEMMA NumberIs ==
    ASSUME NEW q \in Seq(AnyEvent), NEW i \in 1 .. Len(q)
    PROVE  q[i].n \in Nat /\ q[i].ch \in Channels
  <1>1. q[i] \in AnyEvent
    OBVIOUS
  <1> QED  BY <1>1 DEF AnyEvent

(* Time passes *)
LEMMA SessionLater ==
    ASSUME NEW p, NEW m \in Nat, NEW m2 \in Nat, m <= m2, SessionOk(p, m)
    PROVE  SessionOk(p, m2)
  <1>1. p \in AnySession /\ p.last \in Nat
    BY DEF SessionOk, AnySession
  <1>2. PICK q \in Seq(AnyEvent) : q = p.queue
    BY <1>1 DEF AnySession
  <1>3. \A i \in 1 .. Len(q) : q[i].n \in Nat
    BY NumberIs
  <1>4. \A i \in 1 .. Len(q) : q[i].n <= m
    BY <1>2 DEF SessionOk, Waiting
  <1>5. \A i \in 1 .. Len(q) : q[i].n <= m2
    BY <1>3, <1>4
  <1>6. Waiting(p.queue, p.last, m2)
    BY <1>2, <1>5 DEF SessionOk, Waiting
  <1>7. p.last <= m2
    BY <1>1 DEF SessionOk
  <1>8. \A e \in p.owed : e.n \in Nat
    BY <1>1 DEF AnySession, AnyEvent
  <1>9. \A e \in p.owed : e.n <= m
    BY DEF SessionOk, Covered
  <1>10. \A e \in p.owed : e.n <= m2
    BY <1>8, <1>9
  <1>11. Covered(p.owed, p.subs, m2)
    BY <1>10 DEF SessionOk, Covered
  <1> QED  BY <1>6, <1>7, <1>11 DEF SessionOk

(* What is pushed behind q was made after everything in it, log lines      *)
(* aside                                                                   *)
LEMMA WaitingConcat ==
    ASSUME NEW q \in Seq(AnyEvent), NEW es \in Seq(AnyEvent),
           NEW l \in Nat, NEW m \in Nat, NEW m2 \in Nat, l <= m, m <= m2,
           Waiting(q, l, m), Waiting(es, m, m2)
    PROVE  Waiting(q \o es, l, m2)
  <1>1. PICK all \in Seq(AnyEvent) : all = q \o es
    BY ConcatIs
  <1>2. PICK k \in Nat : k = Len(q)
    OBVIOUS
  <1>3. /\ Len(all) = k + Len(es)
        /\ \A i \in 1 .. Len(all) :
             \/ i \in 1 .. k /\ all[i] = q[i]
             \/ i - k \in 1 .. Len(es) /\ all[i] = es[i - k]
    BY <1>1, <1>2, ConcatIs
  <1>4. \A i \in 1 .. k : q[i].n \in Nat /\ q[i].n <= m
    BY <1>2, NumberIs DEF Waiting
  <1>5. \A i \in 1 .. Len(es) : es[i].n \in Nat /\ es[i].n <= m2
    BY NumberIs DEF Waiting
  <1>6. \A i \in 1 .. k : q[i].ch # Log => l < q[i].n
    BY <1>2 DEF Waiting
  <1>7. \A i \in 1 .. Len(es) : es[i].ch # Log => m < es[i].n
    BY DEF Waiting
  <1>8. ASSUME NEW i \in 1 .. Len(all)
        PROVE  all[i].n <= m2 /\ (all[i].ch # Log => l < all[i].n)
    <2>1. CASE i \in 1 .. k /\ all[i] = q[i]
      BY <1>4, <1>6, <2>1
    <2>2. CASE i - k \in 1 .. Len(es) /\ all[i] = es[i - k]
      BY <1>5, <1>7, <2>2
    <2> QED  BY <1>3, <2>1, <2>2
  <1>9. ASSUME NEW i \in 1 .. Len(all), NEW j \in 1 .. Len(all), i < j,
               all[i].ch # Log, all[j].ch # Log
        PROVE  all[i].n < all[j].n
    <2>1. CASE i \in 1 .. k /\ all[i] = q[i] /\ j \in 1 .. k /\ all[j] = q[j]
      BY <1>2, <1>9, <2>1 DEF Waiting
    <2>2. CASE /\ i \in 1 .. k /\ all[i] = q[i]
               /\ j - k \in 1 .. Len(es) /\ all[j] = es[j - k]
      <3>1. all[i].n \in Nat /\ all[i].n <= m
        BY <1>4, <2>2
      <3>2. all[j].n \in Nat /\ m < all[j].n
        BY <1>5, <1>7, <1>9, <2>2
      <3> QED  BY <3>1, <3>2
    <2>3. CASE /\ i - k \in 1 .. Len(es) /\ all[i] = es[i - k]
               /\ j - k \in 1 .. Len(es) /\ all[j] = es[j - k]
      <3>1. i - k < j - k
        BY <1>9
      <3> QED  BY <1>9, <2>3, <3>1 DEF Waiting
    <2>4. CASE i - k \in 1 .. Len(es) /\ j \in 1 .. k
      BY <1>9, <2>4
    <2> QED  BY <1>3, <2>1, <2>2, <2>3, <2>4
  <1> QED  BY <1>1, <1>8, <1>9 DEF Waiting

(* The state, the link and the gate of a session are its own affair *)
LEMMA FieldsOk ==
    ASSUME NEW p, NEW m \in Nat, SessionOk(p, m)
    PROVE  /\ \A st \in {"FREE", "LIVE", "STALE"} :
                SessionOk([p EXCEPT !.state = st], m)
           /\ \A b \in BOOLEAN : SessionOk([p EXCEPT !.linked = b], m)
           /\ \A b \in BOOLEAN : SessionOk([p EXCEPT !.ready = b], m)
  <1>1. p \in AnySession
    BY DEF SessionOk
  <1>2. ASSUME NEW p2, p2 \in AnySession,
               p2.queue = p.queue, p2.dropped = p.dropped, p2.owed = p.owed,
               p2.last = p.last, p2.inOrder = p.inOrder, p2.subs = p.subs
        PROVE  SessionOk(p2, m)
    BY <1>2 DEF SessionOk
  <1>3. ASSUME NEW st \in {"FREE", "LIVE", "STALE"}
        PROVE  SessionOk([p EXCEPT !.state = st], m)
    <2>1. PICK p2 : p2 = [p EXCEPT !.state = st]
      OBVIOUS
    <2>2. p2 \in AnySession
      BY <1>1, <2>1 DEF AnySession
    <2>3. /\ p2.queue = p.queue /\ p2.dropped = p.dropped /\ p2.owed = p.owed
          /\ p2.last = p.last /\ p2.subs = p.subs
      BY <1>1, <2>1 DEF AnySession
    <2>4. p2.inOrder = p.inOrder
      BY <1>1, <2>1 DEF AnySession
    <2> QED  BY <1>2, <2>1, <2>2, <2>3, <2>4
  <1>4. ASSUME NEW b \in BOOLEAN
        PROVE  SessionOk([p EXCEPT !.linked = b], m)
    <2>1. PICK p2 : p2 = [p EXCEPT !.linked = b]
      OBVIOUS
    <2>2. p2 \in AnySession
      BY <1>1, <2>1 DEF AnySession
    <2>3. /\ p2.queue = p.queue /\ p2.dropped = p.dropped /\ p2.owed = p.owed
          /\ p2.last = p.last /\ p2.subs = p.subs
      BY <1>1, <2>1 DEF AnySession
    <2>4. p2.inOrder = p.inOrder
      BY <1>1, <2>1 DEF AnySession
    <2> QED  BY <1>2, <2>1, <2>2, <2>3, <2>4
  <1>5. ASSUME NEW b \in BOOLEAN
        PROVE  SessionOk([p EXCEPT !.ready = b], m)
    <2>1. PICK p2 : p2 = [p EXCEPT !.ready = b]
      OBVIOUS
    <2>2. p2 \in AnySession
      BY <1>1, <2>1 DEF AnySession
    <2>3. /\ p2.queue = p.queue /\ p2.dropped = p.dropped /\ p2.owed = p.owed
          /\ p2.last = p.last /\ p2.subs = p.subs
      BY <1>1, <2>1 DEF AnySession
    <2>4. p2.inOrder = p.inOrder
      BY <1>1, <2>1 DEF AnySession
    <2> QED  BY <1>2, <2>1, <2>2, <2>3, <2>4
  <1> QED  BY <1>3, <1>4, <1>5

LEMMA NoSessionOk ==
    ASSUME NEW m \in Nat
    PROVE  SessionOk(NoSession, m)
  <1>1. NoSession \in AnySession
    BY DEF NoSession, AnySession
  <1>2. PICK p : p = NoSession
    OBVIOUS
  <1>3. /\ p.queue = << >> /\ p.dropped = 0 /\ p.owed = {} /\ p.last = 0
        /\ p.inOrder
    BY <1>2 DEF NoSession
  <1>4. Waiting(p.queue, p.last, m) /\ Len(p.queue) <= QueueDepth
    BY <1>3, EventConstants DEF Waiting
  <1>5. Covered(p.owed, p.subs, m)
    BY <1>3, FS_EmptySet DEF Covered
  <1>6. p.owed \ ToSet(p.queue) = {}
    BY <1>3
  <1>7. Cardinality(p.owed \ ToSet(p.queue)) <= p.dropped
    BY <1>3, <1>6, FS_EmptySet
  <1> QED  BY <1>1, <1>2, <1>3, <1>4, <1>5, <1>7 DEF SessionOk

(* A withdrawal takes what is owed under the grant with it *)
LEMMA WithoutOk ==
    ASSUME NEW p, NEW m \in Nat, SessionOk(p, m), NEW chs
    PROVE  SessionOk(Without(p, chs), m)
  <1>1. p \in AnySession /\ p.dropped \in Nat
    BY DEF SessionOk, AnySession
  <1>2. PICK o : o = {e \in p.owed : e.ch \notin chs}
    OBVIOUS
  <1>3. PICK p2 : p2 = Without(p, chs)
    OBVIOUS
  <1>4. p2 = [p EXCEPT !.subs = p.subs \ chs, !.owed = o]
    BY <1>1, <1>2, <1>3 DEF Without, AnySession
  <1>5. o \subseteq p.owed /\ p.owed \subseteq AnyEvent
    BY <1>1, <1>2 DEF AnySession
  <1>6. p2 \in AnySession
    BY <1>1, <1>4, <1>5 DEF AnySession
  <1>7. /\ p2.queue = p.queue /\ p2.dropped = p.dropped /\ p2.owed = o
        /\ p2.last = p.last /\ p2.subs = p.subs \ chs
    BY <1>1, <1>4 DEF AnySession
  <1>8. p2.inOrder = p.inOrder
    BY <1>1, <1>4 DEF AnySession
  <1>9. Covered(o, p.subs \ chs, m)
    BY <1>2, <1>5, FS_Subset DEF SessionOk, Covered
  <1>10. Cardinality(o \ ToSet(p.queue)) <= p.dropped
    <2>1. o \ ToSet(p.queue) \subseteq p.owed \ ToSet(p.queue)
      BY <1>5
    <2>2. IsFiniteSet(p.owed \ ToSet(p.queue))
      BY FS_Difference DEF SessionOk, Covered
    <2>3. /\ IsFiniteSet(o \ ToSet(p.queue))
          /\ Cardinality(o \ ToSet(p.queue))
               <= Cardinality(p.owed \ ToSet(p.queue))
      BY <2>1, <2>2, FS_Subset
    <2>4. /\ Cardinality(o \ ToSet(p.queue)) \in Nat
          /\ Cardinality(p.owed \ ToSet(p.queue)) \in Nat
      BY <2>2, <2>3, FS_CardinalityType
    <2>5. Cardinality(p.owed \ ToSet(p.queue)) <= p.dropped
      BY DEF SessionOk
    <2> QED  BY <1>1, <2>3, <2>4, <2>5
  <1> QED
    BY <1>3, <1>6, <1>7, <1>8, <1>9, <1>10 DEF SessionOk

(* The replay of a grant consists of log lines made already *)
LEMMA ReplayIs ==
    ASSUME NEW m \in Nat, RingOk(ring, m), NEW chs
    PROVE  /\ Replay(chs) \in Seq(AnyEvent)
           /\ \A i \in 1 .. Len(Replay(chs)) :
                /\ Log \in chs
                /\ Replay(chs)[i].ch = Log /\ Replay(chs)[i].n <= m
  <1>1. ring \in Seq(Nat \ {0}) /\ ReplayDepth \in Nat
    BY EventConstants DEF RingOk
  <1>2. PICK t \in Seq(Nat \ {0}) : t = Newest(ring, ReplayDepth)
    BY <1>1, NewestIs
  <1>3. \A i \in 1 .. Len(t) : t[i] <= m
    <2>1. PICK d : d = Excess(ring, ReplayDepth)
      OBVIOUS
    <2>2. \A i \in 1 .. Len(Newest(ring, ReplayDepth)) :
            /\ d + i \in 1 .. Len(ring)
            /\ Newest(ring, ReplayDepth)[i] = ring[d + i]
      BY <1>1, <2>1, NewestIs
    <2>3. \A i \in 1 .. Len(t) : d + i \in 1 .. Len(ring) /\ t[i] = ring[d + i]
      BY <1>2, <2>2
    <2> QED  BY <2>3 DEF RingOk
  <1>4. PICK k \in Nat : k = (IF Log \in chs THEN Len(t) ELSE 0)
    OBVIOUS
  <1>5. PICK es : es = [i \in 1 .. k |-> [ch |-> Log, n |-> t[i]]]
    OBVIOUS
  <1>6. es = Replay(chs)
    BY <1>2, <1>4, <1>5 DEF Replay
  <1>7. \A i \in 1 .. k : Log \in chs /\ t[i] \in Nat \ {0} /\ t[i] <= m
    BY <1>3, <1>4
  <1>8. Log \in Channels
    BY DEF Channels, Fixed
  <1>9. \A i \in 1 .. k : es[i] \in AnyEvent /\ es[i].ch = Log /\ es[i].n <= m
    BY <1>5, <1>7, <1>8 DEF AnyEvent
  <1>10. es \in Seq(AnyEvent) /\ Len(es) = k
    BY <1>5, <1>9
  <1> QED  BY <1>6, <1>7, <1>9, <1>10

LEMMA GrantedOk ==
    ASSUME NEW p, NEW m \in Nat, SessionOk(p, m), RingOk(ring, m),
           NEW chs \in SUBSET Channels
    PROVE  SessionOk(GrantedSubs(p, chs), m)
  <1>1. p \in AnySession /\ p.last \in Nat
    BY DEF SessionOk, AnySession
  <1>2. PICK p2 : p2 = [p EXCEPT !.subs = @ \cup chs]
    OBVIOUS
  <1>3. p2 \in AnySession
    BY <1>1, <1>2 DEF AnySession
  <1>4. /\ p2.queue = p.queue /\ p2.dropped = p.dropped /\ p2.owed = p.owed
        /\ p2.last = p.last /\ p2.subs = p.subs \cup chs
    BY <1>1, <1>2 DEF AnySession
  <1>5. p2.inOrder = p.inOrder
    BY <1>1, <1>2 DEF AnySession
  <1>6. Covered(p2.owed, p2.subs, m)
    BY <1>4 DEF SessionOk, Covered
  <1>7. SessionOk(p2, m)
    BY <1>3, <1>4, <1>5, <1>6 DEF SessionOk
  <1>8. PICK es \in Seq(AnyEvent) :
           /\ es = Replay(chs)
           /\ \A i \in 1 .. Len(es) :
                Log \in chs /\ es[i].ch = Log /\ es[i].n <= m
    BY ReplayIs
  <1>9. Waiting(es, m, m)
    BY <1>8 DEF Waiting
  <1>10. p2.queue \in Seq(AnyEvent) /\ p2.last \in Nat
    BY <1>3 DEF AnySession
  <1>11. Waiting(p2.queue, p2.last, m) /\ p2.last <= m
    BY <1>7 DEF SessionOk
  <1>12. Waiting(p2.queue \o es, p2.last, m)
    BY <1>9, <1>10, <1>11, WaitingConcat
  <1>13. \A i \in 1 .. Len(es) : es[i].ch \in p2.subs /\ es[i].n <= m
    BY <1>4, <1>8
  <1>14. SessionOk(PushEvents(p2, es), m)
    BY <1>7, <1>12, <1>13, PushOk
  <1> QED  BY <1>2, <1>8, <1>14 DEF GrantedSubs
------------------------------------------------------------------------------
(* The hub *)

(* Every subscriber's queue takes the event, and every queue that may is   *)
(* drained                                                                 *)
LEMMA PublishOk ==
    ASSUME NEW h, HubOk(h), NEW ch \in Channels
    PROVE  HubOk(PublishEvent(h, ch)) /\ PublishEvent(h, ch).made = h.made + 1
  <1>1. PICK m \in Nat, f \in [Sessions -> AnySession] :
           m = h.made /\ f = h.sess
    BY DEF HubOk
  <1>2. \A s \in Sessions : SessionOk(f[s], m)
    BY <1>1 DEF HubOk
  <1>3. PICK e : e = [ch |-> ch, n |-> m + 1]
    OBVIOUS
  <1>4. e \in AnyEvent /\ e.ch = ch /\ e.n = m + 1
    BY <1>3 DEF AnyEvent
  <1>5. PICK es : es = <<e>>
    OBVIOUS
  <1>6. es \in Seq(AnyEvent) /\ Len(es) = 1 /\ es[1] = e
    BY <1>4, <1>5
  <1>7. Waiting(es, m, m + 1)
    BY <1>4, <1>6 DEF Waiting
  <1>8. PICK pushed : pushed = [s \in Sessions |->
           IF ch \in f[s].subs THEN PushEvents(f[s], es) ELSE f[s]]
    OBVIOUS
  <1>9. ASSUME NEW s \in Sessions  PROVE SessionOk(pushed[s], m + 1)
    <2>1. CASE ch \in f[s].subs
      <3>1. f[s] \in AnySession
        OBVIOUS
      <3>2. f[s].queue \in Seq(AnyEvent) /\ f[s].last \in Nat
        BY <3>1 DEF AnySession
      <3>3. Waiting(f[s].queue, f[s].last, m) /\ f[s].last <= m
        BY <1>2 DEF SessionOk
      <3>4. Waiting(f[s].queue \o es, f[s].last, m + 1)
        BY <1>6, <1>7, <3>2, <3>3, WaitingConcat
      <3>5. \A i \in 1 .. Len(es) : es[i].ch \in f[s].subs /\ es[i].n <= m + 1
        BY <1>4, <1>6, <2>1
      <3>6. SessionOk(PushEvents(f[s], es), m + 1)
        BY <1>2, <1>6, <3>4, <3>5, PushOk
      <3> QED  BY <1>8, <2>1, <3>6
    <2>2. CASE ch \notin f[s].subs
      <3>1. SessionOk(f[s], m + 1)
        BY <1>2, SessionLater
      <3> QED  BY <1>8, <2>2, <3>1
    <2> QED  BY <2>1, <2>2
  <1>10. ASSUME NEW s \in Sessions  PROVE SessionOk(Drained(pushed[s]), m + 1)
    BY <1>9, DrainedOk
  <1>11. PICK g : g = IF AnySubscribed(h, ch)
                      THEN [s \in Sessions |-> Drained(pushed[s])] ELSE pushed
    OBVIOUS
  <1>12. \A s \in Sessions : SessionOk(g[s], m + 1)
    BY <1>9, <1>10, <1>11
  <1>13. g \in [Sessions -> AnySession]
    <2>1. \A s \in Sessions : g[s] \in AnySession
      BY <1>12 DEF SessionOk
    <2>2. g = [s \in Sessions |-> g[s]]
      BY <1>8, <1>11
    <2> QED  BY <2>1, <2>2
  <1>14. PublishEvent(h, ch) = [sess |-> g, made |-> m + 1]
    BY <1>1, <1>3, <1>5, <1>8, <1>11 DEF PublishEvent
  <1> QED  BY <1>1, <1>12, <1>13, <1>14 DEF HubOk

LEMMA EmitOk ==
    ASSUME NEW h, HubOk(h), NEW ch \in Channels
    PROVE  HubOk(Emit(h, ch)) /\ Emit(h, ch).made >= h.made
  <1>1. h.made \in Nat
    BY DEF HubOk
  <1> QED  BY <1>1, PublishOk DEF Emit

LEMMA SessionEventOk ==
    ASSUME NEW h, HubOk(h)
    PROVE  HubOk(EmitSessionEvent(h)) /\ EmitSessionEvent(h).made >= h.made
  <1>1. SessionEvents \in Channels
    BY DEF Channels, Fixed
  <1> QED  BY <1>1, EmitOk DEF EmitSessionEvent

(* One session changes, and the hub makes no event *)
LEMMA OneOk ==
    ASSUME NEW h, HubOk(h), NEW s \in Sessions, NEW p, SessionOk(p, h.made)
    PROVE  /\ HubOk([h EXCEPT !.sess[s] = p])
           /\ [h EXCEPT !.sess[s] = p].made = h.made
  <1>1. h \in [sess : [Sessions -> AnySession], made : Nat]
    BY DEF HubOk
  <1>2. PICK g : g = [h.sess EXCEPT ![s] = p]
    OBVIOUS
  <1>3. p \in AnySession
    BY DEF SessionOk
  <1>4. g \in [Sessions -> AnySession] /\ \A t \in Sessions :
           g[t] = IF t = s THEN p ELSE h.sess[t]
    BY <1>1, <1>2, <1>3
  <1>5. PICK k : k = [h EXCEPT !.sess[s] = p]
    OBVIOUS
  <1>6. /\ k \in [sess : [Sessions -> AnySession], made : Nat]
        /\ k.sess = g /\ k.made = h.made
    BY <1>1, <1>2, <1>4, <1>5
  <1>7. \A t \in Sessions : SessionOk(g[t], h.made)
    BY <1>4 DEF HubOk
  <1> QED  BY <1>5, <1>6, <1>7 DEF HubOk

LEMMA HubFieldsOk ==
    ASSUME NEW h, HubOk(h), NEW s \in Sessions
    PROVE  /\ \A st \in {"FREE", "LIVE", "STALE"} :
                /\ HubOk([h EXCEPT !.sess[s].state = st])
                /\ [h EXCEPT !.sess[s].state = st].made = h.made
           /\ \A b \in BOOLEAN :
                /\ HubOk([h EXCEPT !.sess[s].linked = b])
                /\ [h EXCEPT !.sess[s].linked = b].made = h.made
           /\ \A b \in BOOLEAN :
                /\ HubOk([h EXCEPT !.sess[s].ready = b])
                /\ [h EXCEPT !.sess[s].ready = b].made = h.made
  <1>1. SessionOk(h.sess[s], h.made) /\ h.made \in Nat
    BY DEF HubOk
  <1>2. ASSUME NEW st \in {"FREE", "LIVE", "STALE"}
        PROVE  /\ HubOk([h EXCEPT !.sess[s].state = st])
               /\ [h EXCEPT !.sess[s].state = st].made = h.made
    <2>1. SessionOk([h.sess[s] EXCEPT !.state = st], h.made)
      BY <1>1, FieldsOk
    <2>2. [h EXCEPT !.sess[s].state = st] =
            [h EXCEPT !.sess[s] = [h.sess[s] EXCEPT !.state = st]]
      OBVIOUS
    <2> QED  BY <2>1, <2>2, OneOk
  <1>3. ASSUME NEW b \in BOOLEAN
        PROVE  /\ HubOk([h EXCEPT !.sess[s].linked = b])
               /\ [h EXCEPT !.sess[s].linked = b].made = h.made
    <2>1. SessionOk([h.sess[s] EXCEPT !.linked = b], h.made)
      BY <1>1, FieldsOk
    <2>2. [h EXCEPT !.sess[s].linked = b] =
            [h EXCEPT !.sess[s] = [h.sess[s] EXCEPT !.linked = b]]
      OBVIOUS
    <2> QED  BY <2>1, <2>2, OneOk
  <1>4. ASSUME NEW b \in BOOLEAN
        PROVE  /\ HubOk([h EXCEPT !.sess[s].ready = b])
               /\ [h EXCEPT !.sess[s].ready = b].made = h.made
    <2>1. SessionOk([h.sess[s] EXCEPT !.ready = b], h.made)
      BY <1>1, FieldsOk
    <2>2. [h EXCEPT !.sess[s].ready = b] =
            [h EXCEPT !.sess[s] = [h.sess[s] EXCEPT !.ready = b]]
      OBVIOUS
    <2> QED  BY <2>1, <2>2, OneOk
  <1> QED  BY <1>2, <1>3, <1>4

LEMMA StaledOk ==
    ASSUME NEW h, HubOk(h), NEW s \in Sessions
    PROVE  HubOk(Staled(h, s)) /\ Staled(h, s).made >= h.made
  <1>1. PICK k : k = [h EXCEPT !.sess[s].state = "STALE"]
    OBVIOUS
  <1>2. HubOk(k) /\ k.made = h.made
    BY <1>1, HubFieldsOk
  <1> QED  BY <1>1, <1>2, SessionEventOk DEF Staled

LEMMA RingLater ==
    ASSUME NEW r, NEW m \in Nat, NEW m2 \in Nat, m <= m2, RingOk(r, m)
    PROVE  RingOk(r, m2)
  <1>1. \A i \in 1 .. Len(r) : r[i] \in Nat /\ r[i] <= m
    BY DEF RingOk
  <1>2. \A i \in 1 .. Len(r) : r[i] <= m2
    BY <1>1
  <1> QED  BY <1>2 DEF RingOk

(* What a handler arrives at is the state after its step *)
LEMMA BecomesOk ==
    ASSUME NEW h, HubOk(h), h.made >= made, Becomes(h), UNCHANGED ring,
           HubOk(Now), RingOk(ring, made)
    PROVE  HubOk(Now)' /\ RingOk(ring, made)'
  <1>1. h.made \in Nat /\ made \in Nat
    BY DEF HubOk, Now
  <1>2. RingOk(ring, h.made)
    BY <1>1, RingLater
  <1>3. sess' = h.sess /\ made' = h.made
    BY DEF Becomes
  <1>4. RingOk(ring', made')
    BY <1>2, <1>3
  <1>5. HubOk([sess |-> sess', made |-> made'])
    BY <1>3 DEF HubOk
  <1> QED  BY <1>4, <1>5 DEF Now

LEMMA SetOk ==
    ASSUME HubOk(Now), RingOk(ring, made), NEW s \in Sessions, NEW p,
           SessionOk(p, made), sess' = [sess EXCEPT ![s] = p],
           UNCHANGED <<made, ring>>
    PROVE  HubOk(Now)' /\ RingOk(ring, made)'
  <1>1. PICK h : h = [Now EXCEPT !.sess[s] = p]
    OBVIOUS
  <1>2. Now.made = made /\ Now.sess = sess
    BY DEF Now
  <1>3. HubOk(h) /\ h.made = made
    BY <1>1, <1>2, OneOk
  <1>4. h.sess = [sess EXCEPT ![s] = p]
    BY <1>1, <1>2 DEF Now
  <1>5. Becomes(h)
    BY <1>3, <1>4 DEF Becomes
  <1>6. made \in Nat
    BY DEF HubOk, Now
  <1> QED  BY <1>3, <1>5, <1>6, BecomesOk
LEMMA NowIs ==
    ASSUME HubOk(Now)
    PROVE  /\ Now.made = made /\ Now.sess = sess /\ made \in Nat
           /\ sess \in [Sessions -> AnySession]
           /\ \A s \in Sessions : SessionOk(sess[s], made)
  BY DEF HubOk, Now

(* Every step keeps the hub in order *)
LEMMA EventStep ==
    ASSUME EventInv, EventNext
    PROVE  EventInv'
  <1>0. HubOk(Now) /\ RingOk(ring, made)
    BY DEF EventInv
  <1>1. /\ Now.made = made /\ Now.sess = sess /\ made \in Nat
        /\ sess \in [Sessions -> AnySession]
        /\ \A s \in Sessions : SessionOk(sess[s], made)
    BY <1>0, NowIs
  <1>2. /\ PairingEvents \in Channels /\ SafetyEvents \in Channels
        /\ Log \in Channels /\ UserEvents \subseteq Channels
        /\ Catalog \subseteq Channels
    BY EventConstants DEF Channels, Fixed
  <1>3. made' <= MaxEvents
    BY DEF EventNext, Bounded
  <1> DEFINE Kept == HubOk(Now)' /\ RingOk(ring, made)'
  <1>4. ASSUME EmitTakeoverEvent  PROVE Kept
    <2>1. HubOk(EmitSessionEvent(Now)) /\ EmitSessionEvent(Now).made >= made
      BY <1>0, <1>1, SessionEventOk
    <2> QED  BY <1>0, <1>4, <2>1, BecomesOk DEF EmitTakeoverEvent
  <1>5. ASSUME EmitPairingEvent  PROVE Kept
    <2>1. /\ HubOk(Emit(Now, PairingEvents))
          /\ Emit(Now, PairingEvents).made >= made
      BY <1>0, <1>1, <1>2, EmitOk
    <2> QED  BY <1>0, <1>5, <2>1, BecomesOk DEF EmitPairingEvent
  <1>6. ASSUME EmitSafetyEdgeEvents  PROVE Kept
    <2>1. PICK h : h = Emit(Now, SafetyEvents)
      OBVIOUS
    <2>2. HubOk(h) /\ h.made >= made /\ h.made \in Nat
      BY <1>0, <1>1, <1>2, <2>1, EmitOk DEF HubOk
    <2>3. PICK k : k = Emit(h, SafetyEvents)
      OBVIOUS
    <2>4. HubOk(k) /\ k.made >= h.made /\ k.made \in Nat
      BY <1>2, <2>2, <2>3, EmitOk DEF HubOk
    <2>5. k.made >= made
      BY <1>1, <2>2, <2>4
    <2>6. (Becomes(h) \/ Becomes(k)) /\ UNCHANGED ring
      BY <1>6, <2>1, <2>3 DEF EmitSafetyEdgeEvents
    <2> QED  BY <1>0, <2>2, <2>4, <2>5, <2>6, BecomesOk
  <1>7. ASSUME NEW ch \in UserEvents, PublishUserEvent(ch)  PROVE Kept
    <2>1. HubOk(Emit(Now, ch)) /\ Emit(Now, ch).made >= made
      BY <1>0, <1>1, <1>2, EmitOk
    <2> QED  BY <1>0, <1>7, <2>1, BecomesOk DEF PublishUserEvent
  <1>8. ASSUME PublishLog  PROVE Kept
    <2>1. PICK h : h = PublishEvent(Now, Log)
      OBVIOUS
    <2>2. HubOk(h) /\ h.made = made + 1
      BY <1>0, <1>1, <1>2, <2>1, PublishOk
    <2>3. sess' = h.sess /\ made' = made + 1
      BY <1>8, <2>1, <2>2 DEF PublishLog, Becomes
    <2>4. HubOk([sess |-> sess', made |-> made'])
      BY <2>2, <2>3 DEF HubOk
    <2>5. ring' = Newest(Append(ring, made + 1), RingDepth)
      BY <1>8 DEF PublishLog, RingPush
    <2>6. PICK r : r = Append(ring, made + 1)
      OBVIOUS
    <2>7. r \in Seq(Nat \ {0}) /\ \A i \in 1 .. Len(r) : r[i] <= made + 1
      <3>1. ring \in Seq(Nat \ {0}) /\ \A i \in 1 .. Len(ring) : ring[i] <= made
        BY <1>0 DEF RingOk
      <3>2. \A i \in 1 .. Len(ring) : ring[i] <= made + 1
        BY <1>1, <3>1
      <3>3. made + 1 \in Nat \ {0}
        BY <1>1
      <3> QED  BY <1>1, <2>6, <3>1, <3>2, <3>3
    <2>8. RingDepth \in Nat
      BY EventConstants
    <2>9. PICK d \in Nat : d = Excess(r, RingDepth) /\ d <= Len(r)
      <3>1. Excess(r, RingDepth) \in 0 .. Len(r)
        BY <2>7, <2>8, NewestIs
      <3> QED  BY <2>7, <3>1
    <2>a. PICK t : t = Newest(r, RingDepth)
      OBVIOUS
    <2>b. /\ t \in Seq(Nat \ {0}) /\ Len(t) <= RingDepth
          /\ \A i \in 1 .. Len(t) : t[i] = r[d + i]
          /\ \A i \in 1 .. Len(t) : d + i \in 1 .. Len(r)
      BY <2>7, <2>8, <2>9, <2>a, NewestIs
    <2>10. /\ ring' \in Seq(Nat \ {0}) /\ Len(ring') <= RingDepth
           /\ \A i \in 1 .. Len(ring') : ring'[i] = r[d + i]
           /\ \A i \in 1 .. Len(ring') : d + i \in 1 .. Len(r)
      BY <2>5, <2>6, <2>a, <2>b
    <2>12. \A i \in 1 .. Len(ring') : ring'[i] <= made'
      BY <2>3, <2>7, <2>10
    <2>13. RingOk(ring', made')
      BY <2>10, <2>12 DEF RingOk
    <2> QED  BY <2>4, <2>13 DEF Now
  <1>9. ASSUME NEW s \in Sessions, NEW wishes \in SUBSET Catalog,
               NEW b \in BOOLEAN, Hello(s, wishes, b)
        PROVE  Kept
    <2>1. PICK p : p = [NoSession EXCEPT !.state = "LIVE", !.linked = TRUE,
                                         !.ready = b]
      OBVIOUS
    <2>2. p = [[[NoSession EXCEPT !.state = "LIVE"] EXCEPT !.linked = TRUE]
                 EXCEPT !.ready = b]
      BY <2>1 DEF NoSession
    <2>3. SessionOk(p, made)
      <3>1. SessionOk([NoSession EXCEPT !.state = "LIVE"], made)
        BY <1>1, NoSessionOk, FieldsOk
      <3>2. SessionOk([[NoSession EXCEPT !.state = "LIVE"]
                         EXCEPT !.linked = TRUE], made)
        BY <1>1, <3>1, FieldsOk
      <3> QED  BY <1>1, <2>2, <3>2, FieldsOk
    <2>4. SessionOk(GrantedSubs(p, wishes), made)
      BY <1>0, <1>1, <1>2, <2>3, GrantedOk
    <2>5. /\ sess' = [sess EXCEPT ![s] = GrantedSubs(p, wishes)]
          /\ UNCHANGED <<made, ring>>
      BY <1>9, <2>1 DEF Hello
    <2> QED  BY <1>0, <2>4, <2>5, SetOk
  <1>10. ASSUME NEW s \in Sessions, NEW ch \in Catalog,
                Subscribe(s, ch) \/ Unsubscribe(s, ch)
         PROVE  Kept
    <2>1. SessionOk(GrantedSubs(sess[s], {ch}), made)
      BY <1>0, <1>1, <1>2, GrantedOk
    <2>2. SessionOk(Without(sess[s], {ch}), made)
      BY <1>1, WithoutOk
    <2>3. /\ \/ sess' = [sess EXCEPT ![s] = GrantedSubs(sess[s], {ch})]
             \/ sess' = [sess EXCEPT ![s] = Without(sess[s], {ch})]
          /\ UNCHANGED <<made, ring>>
      BY <1>1, <1>10 DEF Subscribe, Unsubscribe
    <2> QED  BY <1>0, <2>1, <2>2, <2>3, SetOk
  <1>11. ASSUME NEW s \in Sessions, CatalogReady(s)  PROVE Kept
    <2>1. SessionOk([sess[s] EXCEPT !.ready = TRUE], made)
      BY <1>1, FieldsOk
    <2>2. /\ sess' = [sess EXCEPT ![s] = [sess[s] EXCEPT !.ready = TRUE]]
          /\ UNCHANGED <<made, ring>>
      BY <1>1, <1>11 DEF CatalogReady
    <2> QED  BY <1>0, <2>1, <2>2, SetOk
  <1>12. ASSUME NEW s \in Sessions, Drain(s)  PROVE Kept
    <2>1. SessionOk(Drained(sess[s]), made)
      BY <1>1, DrainedOk
    <2>2. /\ sess' = [sess EXCEPT ![s] = Drained(sess[s])]
          /\ UNCHANGED <<made, ring>>
      BY <1>1, <1>12 DEF Drain
    <2> QED  BY <1>0, <2>1, <2>2, SetOk
  <1>13. ASSUME NEW s \in Sessions, MarkStale(s)  PROVE Kept
    <2>1. HubOk(Staled(Now, s)) /\ Staled(Now, s).made >= made
      BY <1>0, <1>1, StaledOk
    <2> QED  BY <1>0, <1>13, <2>1, BecomesOk DEF MarkStale
  <1>14. ASSUME NEW s \in Sessions, ParkAndDetach(s)  PROVE Kept
    <2>1. PICK h : h = IF sess[s].state = "LIVE" THEN Staled(Now, s) ELSE Now
      OBVIOUS
    <2>2. HubOk(h) /\ h.made >= made
      BY <1>0, <1>1, <2>1, StaledOk
    <2>3. PICK k : k = [h EXCEPT !.sess[s].linked = FALSE]
      OBVIOUS
    <2>4. HubOk(k) /\ k.made >= made
      BY <2>2, <2>3, HubFieldsOk
    <2>5. Becomes(k) /\ UNCHANGED ring
      BY <1>14, <2>1, <2>3 DEF ParkAndDetach
    <2> QED  BY <1>0, <2>4, <2>5, BecomesOk
  <1>15. ASSUME NEW s \in Sessions, ReviveIfStale(s)  PROVE Kept
    <2>1. PICK h : h = [Now EXCEPT !.sess[s].state = "LIVE"]
      OBVIOUS
    <2>2. HubOk(h) /\ h.made = made
      BY <1>0, <1>1, <2>1, HubFieldsOk
    <2>3. HubOk(EmitSessionEvent(h)) /\ EmitSessionEvent(h).made >= made
      BY <2>2, SessionEventOk
    <2> QED  BY <1>0, <1>15, <2>1, <2>3, BecomesOk DEF ReviveIfStale
  <1>16. ASSUME NEW s \in Sessions, NEW matched \in BOOLEAN,
                NEW tripped \in BOOLEAN, NEW welcomed \in BOOLEAN,
                HandleReattach(s, matched, tripped, welcomed)
         PROVE  Kept
    <2>1. PICK moved : moved = [Now EXCEPT !.sess[s].linked = TRUE]
      OBVIOUS
    <2>2. HubOk(moved) /\ moved.made = made
      BY <1>0, <1>1, <2>1, HubFieldsOk
    <2>3. PICK watched :
             watched = IF tripped THEN Emit(moved, PairingEvents) ELSE moved
      OBVIOUS
    <2>4. HubOk(watched) /\ watched.made >= made
      BY <1>1, <1>2, <2>2, <2>3, EmitOk
    <2>5. PICK gated : gated = [watched EXCEPT !.sess[s].ready = @ /\ matched]
      OBVIOUS
    <2>6. PICK b \in BOOLEAN : b = (watched.sess[s].ready /\ matched)
      OBVIOUS
    <2>7. gated = [watched EXCEPT !.sess[s].ready = b]
      BY <2>5, <2>6
    <2>8. HubOk(gated) /\ gated.made >= made
      BY <2>4, <2>7, HubFieldsOk
    <2>9. PICK live : live = [gated EXCEPT !.sess[s].state = "LIVE"]
      OBVIOUS
    <2>10. HubOk(live) /\ live.made = gated.made
      BY <2>8, <2>9, HubFieldsOk
    <2>11. PICK out : out = EmitSessionEvent(live)
      OBVIOUS
    <2>12. HubOk(out) /\ out.made >= live.made
      BY <2>10, <2>11, SessionEventOk
    <2>13. out.made \in Nat /\ live.made \in Nat
      BY <2>10, <2>12 DEF HubOk
    <2>14. out.made >= made
      BY <1>1, <2>8, <2>10, <2>12, <2>13
    <2>15. (Becomes(out) \/ Becomes(gated)) /\ UNCHANGED ring
      BY <1>16, <2>1, <2>3, <2>5, <2>9, <2>11 DEF HandleReattach
    <2> QED  BY <1>0, <2>8, <2>12, <2>14, <2>15, BecomesOk
  <1>17. ASSUME NEW s \in Sessions, Teardown(s)  PROVE Kept
    <2>1. SessionOk(NoSession, made)
      BY <1>1, NoSessionOk
    <2> QED  BY <1>0, <1>17, <2>1, SetOk DEF Teardown
  <1>18. ASSUME NEW ws \in SUBSET Catalog, CatalogChanged(ws)  PROVE Kept
    <2>1. \A s \in Sessions : SessionOk(sess'[s], made)
      <3> SUFFICES ASSUME NEW s \in Sessions
                   PROVE  SessionOk(sess'[s], made)
        OBVIOUS
      <3>1. PICK p : p = Without(sess[s], ws)
        OBVIOUS
      <3>2. SessionOk(p, made)
        BY <1>1, <3>1, WithoutOk
      <3>3. PICK b \in BOOLEAN : b = (p.ready /\ ws \subseteq UserEvents)
        OBVIOUS
      <3>4. sess'[s] = [p EXCEPT !.ready = @ /\ ws \subseteq UserEvents]
        BY <1>18, <3>1 DEF CatalogChanged
      <3>5. sess'[s] = [p EXCEPT !.ready = b]
        BY <3>3, <3>4
      <3>6. SessionOk([p EXCEPT !.ready = b], made)
        BY <1>1, <3>2, FieldsOk
      <3> QED  BY <3>5, <3>6
    <2>2. sess' = [s \in Sessions |-> sess'[s]] /\ UNCHANGED <<made, ring>>
      BY <1>18 DEF CatalogChanged
    <2>3. \A s \in Sessions : sess'[s] \in AnySession
      BY <2>1 DEF SessionOk
    <2>4. sess' \in [Sessions -> AnySession]
      BY <2>2, <2>3
    <2>5. HubOk([sess |-> sess', made |-> made'])
      BY <1>1, <2>1, <2>2, <2>4 DEF HubOk
    <2>6. RingOk(ring', made')
      BY <1>0, <2>2
    <2> QED  BY <2>5, <2>6 DEF Now
  <1>19. Kept
    BY <1>4, <1>5, <1>6, <1>7, <1>8, <1>9, <1>10, <1>11, <1>12, <1>13, <1>14,
       <1>15, <1>16, <1>17, <1>18 DEF EventNext
  <1> QED  BY <1>3, <1>19 DEF EventInv

(* The hub starts with no session, no event and an empty ring, and every   *)
(* step keeps it in order.                                                 *)
THEOREM EventInvHolds == EventSpec => []EventInv
  <1>1. EventInit => EventInv
    <2> SUFFICES ASSUME EventInit  PROVE EventInv
      OBVIOUS
    <2>1. made = 0 /\ ring = << >> /\ sess = [s \in Sessions |-> NoSession]
      BY DEF EventInit
    <2>2. \A s \in Sessions : SessionOk(sess[s], made)
      BY <2>1, NoSessionOk
    <2>3. sess \in [Sessions -> AnySession]
      BY <2>1, <2>2 DEF SessionOk
    <2>4. HubOk(Now)
      BY <2>1, <2>2, <2>3 DEF HubOk, Now
    <2>5. RingOk(ring, made)
      BY <2>1, EventConstants DEF RingOk
    <2> QED  BY <2>1, <2>4, <2>5, EventConstants DEF EventInv
  <1>2. EventInv /\ [EventNext]_eventVars => EventInv'
    <2>1. ASSUME EventInv, UNCHANGED eventVars  PROVE EventInv'
      <3>1. sess' = sess /\ made' = made /\ ring' = ring
        BY <2>1 DEF eventVars
      <3> QED  BY <2>1, <3>1 DEF EventInv, Now
    <2> QED  BY <2>1, EventStep
  <1> QED  BY <1>1, <1>2, PTL DEF EventSpec

(* SPEC 9.4, EventQueue and pumpEventDrain, for any sessions, channels and *)
(* depths: a session is handed the events of all its channels in the order *)
(* the hub made them and none of them twice, log lines aside.              *)
THEOREM EventOrderHolds == EventSpec => []EventsInOrder
  <1>1. EventInv => EventsInOrder
    BY DEF EventInv, HubOk, SessionOk, Now, EventsInOrder
  <1> QED  BY <1>1, EventInvHolds, PTL

(* SPEC 9.4, "visible, never silent", for any sessions, channels and       *)
(* depths: what a session's grants cover and it was not handed waits in    *)
(* its queue or was counted by eventsDropped().                            *)
THEOREM NeverSilentHolds == EventSpec => []NeverSilent
  <1>1. EventInv => NeverSilent
    BY DEF EventInv, HubOk, SessionOk, Now, NeverSilent
  <1> QED  BY <1>1, EventInvHolds, PTL

(* The values of the event plane's variables; no queue and no ring ever    *)
(* holds more than its depth.                                              *)
THEOREM EventTypesHold == EventSpec => []EventTypeOK
  <1>1. ASSUME EventInv  PROVE EventTypeOK
    <2>1. /\ made \in Nat /\ made <= MaxEvents /\ MaxEvents \in Nat
          /\ sess \in [Sessions -> AnySession]
          /\ \A s \in Sessions : SessionOk(sess[s], made)
      BY <1>1, NowIs, EventConstants DEF EventInv
    <2>2. \A e \in AnyEvent : e.n <= made => e \in Event
      BY <2>1 DEF AnyEvent, Event
    <2>3. ASSUME NEW s \in Sessions
          PROVE  sess[s] \in Session /\ Len(sess[s].queue) <= QueueDepth
      <3>1. PICK p \in AnySession : p = sess[s]
        BY <2>1
      <3>2. SessionOk(p, made)
        BY <2>1, <3>1
      <3>3. p.queue \in Seq(Event)
        <4>1. PICK q \in Seq(AnyEvent) : q = p.queue
          BY DEF AnySession
        <4>2. \A i \in 1 .. Len(q) : q[i] \in AnyEvent /\ q[i].n <= made
          BY <3>2, <4>1 DEF SessionOk, Waiting
        <4>3. \A i \in 1 .. Len(q) : q[i] \in Event
          BY <2>2, <4>2
        <4> QED  BY <4>1, <4>3
      <3>4. p.owed \in SUBSET Event
        BY <2>2, <3>2 DEF SessionOk, Covered, AnySession
      <3>5. p.last \in 0 .. MaxEvents
        BY <2>1, <3>2 DEF SessionOk, AnySession
      <3>6. p \in Session
        BY <3>3, <3>4, <3>5 DEF AnySession, Session
      <3> QED  BY <3>1, <3>2, <3>6 DEF SessionOk
    <2>4. sess \in [Sessions -> Session]
      BY <2>1, <2>3
    <2>5. ring \in Seq(1 .. MaxEvents) /\ Len(ring) <= RingDepth
      <3>1. /\ ring \in Seq(Nat \ {0}) /\ Len(ring) <= RingDepth
            /\ \A i \in 1 .. Len(ring) : ring[i] <= made
        BY <1>1 DEF EventInv, RingOk
      <3>2. \A i \in 1 .. Len(ring) : ring[i] \in 1 .. MaxEvents
        BY <2>1, <3>1
      <3>3. ring \in Seq(1 .. MaxEvents)
        BY <3>1, <3>2, SeqInto
      <3> QED  BY <3>1, <3>3
    <2> QED  BY <2>1, <2>3, <2>4, <2>5 DEF EventTypeOK
  <1> QED  BY <1>1, EventInvHolds, PTL
=============================================================================
