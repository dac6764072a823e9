----------------------------- MODULE HubSafety -----------------------------
(***************************************************************************)
(* The safety plane: the latched levels (ESTOP, PAUSE) and modes of the    *)
(* hub, the retained safety snapshot, and the clients that repeat a raw    *)
(* ESTOP frame until they see it latched.                                  *)
(*                                                                         *)
(* A frame in flight stays in flight until its link closes, so it may be   *)
(* delivered late, out of order, repeatedly or never: the datagram         *)
(* bindings.  An ordered link has fewer behaviours.  An op on the          *)
(* safety-intents channel is one step, its arrival at the hub, because     *)
(* every condition on it is evaluated there.                               *)
(*                                                                         *)
(* What the machine decides (canClearEstop, the acceptance of an op) is a  *)
(* free choice.  The cause and the owner session that the snapshot also    *)
(* carries are left out: nothing here reads them.                          *)
(***************************************************************************)
EXTENDS Naturals, FiniteSets

CONSTANTS
    Clients,        \* client ends, each with at most one link to the hub
    Controllers,    \* the clients whose sessions hold the control role
    CutsPower,      \* estop_cuts_power, a property of the hub
    Engages,        \* arguments with which the machine calls setOverride
    None,           \* no safety shadow yet
    MaxAttempts,    \* limits::estop_repeat_max
    MaxSeq,         \* bound: ESTOP initiations per client and for the hub
    MaxPublish      \* bound: publications of the safety snapshot

ASSUME ControllersAreClients == Controllers \subseteq Clients
ASSUME CutsPowerIsBoolean == CutsPower \in BOOLEAN
ASSUME EngagesAreBooleans == Engages \subseteq BOOLEAN
ASSUME BoundsAreNaturals ==
    /\ MaxAttempts \in Nat \ {0}
    /\ MaxSeq \in Nat
    /\ MaxPublish \in Nat

Levels == {"ESTOP", "PAUSE"}
Modes == {"OVERRIDE", "HOME_REQUIRED"}
Snapshots == [seq : Nat, word : SUBSET Levels, modes : SUBSET Modes,
              estopSeq : Nat]

ASSUME NoneIsNeither == None \notin Snapshots /\ None \notin Clients

VARIABLES
    word,           \* _safetyWord, the latched levels
    modes,          \* _safetyModes
    estopSeq,       \* _estopSeq, the initiation the latch belongs to
    retained,       \* the safety channel's entry in the retained store
    link,           \* "none", "open" (attached) or "ready" (and subscribed)
    up,             \* raw ESTOP frames in flight, by their seq
    down,           \* safety STATE frames in flight
    active,         \* _estopActive: an initiation is being repeated
    failed,         \* _estopSendFailed
    sent,           \* _estopSentSeq
    attempts,       \* _estopAttempts
    shadow,         \* the client's copy of the safety channel
    \* History: no action reads these.
    stopped,        \* the hub has been latched since the client's initiation
    initiators,     \* whose frames latched an ESTOP; None: the hub's own count
    owed            \* operator acts outstanding since the last latch

hub == <<word, modes, estopSeq, retained>>
client == <<active, failed, sent, attempts, shadow>>
history == <<stopped, initiators, owed>>
vars == <<hub, link, up, down, client, history>>

-----------------------------------------------------------------------------
(* Helpers of the hub.                                                      *)

Attached(c) == link[c] # "none"
Served == {c \in Clients : link[c] = "ready"}

Latched == "ESTOP" \in word

(* buildSafetyPayload: the next retained entry.                             *)
Snapshot(w, m, s) ==
    [seq |-> retained.seq + 1, word |-> w, modes |-> m, estopSeq |-> s]

(* publishSafetySnapshot, called by a handler once it has made its change.  *)
publishSafetySnapshot ==
    /\ retained.seq < MaxPublish
    /\ retained' = Snapshot(word', modes', estopSeq')

(* broadcastSafetyNow: the retained entry to every session that has a       *)
(* transport, is ready and subscribes the channel.                          *)
Broadcast(snap) ==
    [c \in Clients |-> IF c \in Served THEN down[c] \cup {snap} ELSE down[c]]

broadcastSafetyNow == down' = Broadcast(retained')

nextEstopSeq == IF Latched THEN estopSeq ELSE estopSeq + 1

(* An ESTOP drops override; one that cuts power loses the home.             *)
ModesAfterEstop ==
    (modes \ {"OVERRIDE"})
        \cup (IF CutsPower THEN {"HOME_REQUIRED"} ELSE {})

OwedAfterEstop ==
    owed \cup {"resume"} \cup (IF CutsPower THEN {"home"} ELSE {})

(* handleEstopFrame: latch and publish on the transition only, broadcast    *)
(* always.                                                                  *)
LatchEstop(s, origin) ==
    /\ word' = word \cup {"ESTOP"}
    /\ modes' = ModesAfterEstop
    /\ estopSeq' = s
    /\ publishSafetySnapshot
    /\ stopped' = [c \in Clients |-> TRUE]
    /\ initiators' = initiators \cup {origin}
    /\ owed' = OwedAfterEstop

handleEstopFrame(s, origin) ==
    /\ \/ ~Latched /\ LatchEstop(s, origin)
       \/ Latched /\ UNCHANGED <<hub, history>>
    /\ broadcastSafetyNow
    /\ UNCHANGED <<link, up, client>>

-----------------------------------------------------------------------------
(* What reaches the hub.                                                    *)

(* A raw ESTOP frame needs no session, only a transport to arrive on.       *)
RawEstop(c) ==
    /\ Attached(c)
    /\ \E s \in up[c] : handleEstopFrame(s, c)

(* The estop op: any role, counted by the hub itself.                       *)
OpEstop(c) ==
    /\ c \in Served
    /\ nextEstopSeq <= MaxSeq
    /\ handleEstopFrame(nextEstopSeq, None)

(* latchEstop(cause, origin), called by the machine.                        *)
MachineEstop ==
    /\ nextEstopSeq <= MaxSeq
    /\ handleEstopFrame(nextEstopSeq, None)

(* Mutant: release forgets PAUSE *)
LevelsAfterRelease_free == word \ {"ESTOP"}

(* releaseEstop: to PAUSE, when the machine lets the latch go.              *)
LevelsAfterRelease == (word \ {"ESTOP"}) \cup {"PAUSE"}

releaseEstop ==
    /\ Latched
    /\ word' = LevelsAfterRelease
    /\ UNCHANGED <<modes, estopSeq>>
    /\ publishSafetySnapshot
    /\ broadcastSafetyNow
    /\ UNCHANGED <<link, up, client, history>>

OpRelease(c) ==
    /\ c \in Served \cap Controllers
    /\ releaseEstop

(* releaseEstop called by the machine rather than by an op.                 *)
MachineRelease == releaseEstop

(* Mutant: an op that moves only the mode counts as no change *)
Changed_wordOnly(w, m) == w # word

(* What applySafetyOpLatch returns: the cause and the owner change only     *)
(* with the word.                                                           *)
Changed(w, m) == w # word \/ m # modes

(* applySafetyOpLatch with the publication that handleIntent makes of its   *)
(* result: an op that changes nothing publishes and broadcasts nothing.     *)
applySafetyOpLatch(w, m) ==
    /\ word' = w
    /\ modes' = m
    /\ UNCHANGED estopSeq
    /\ \/ Changed(w, m) /\ publishSafetySnapshot /\ broadcastSafetyNow
       \/ ~Changed(w, m) /\ UNCHANGED <<retained, down>>
    /\ UNCHANGED <<link, up, client>>

(* pause: any role.                                                         *)
OpPause(c) ==
    /\ c \in Served
    /\ applySafetyOpLatch(word \cup {"PAUSE"}, modes)
    /\ UNCHANGED history

(* override carries PAUSE.                                                  *)
LevelsAfterOverride == word \cup {"PAUSE"}

OpOverride(c) ==
    /\ c \in Served \cap Controllers
    /\ applySafetyOpLatch(LevelsAfterOverride, modes \cup {"OVERRIDE"})
    /\ UNCHANGED history

(* Mutant: resume ignores override *)
ResumeRefused_unhomed == Latched \/ "HOME_REQUIRED" \in modes

(* resume, the only clear of PAUSE, and what refuses it.                    *)
ResumeRefused == Latched \/ modes # {}

OpResume(c) ==
    /\ c \in Served \cap Controllers
    /\ ~ResumeRefused
    /\ applySafetyOpLatch(word \ {"PAUSE"}, modes)
    /\ owed' = owed \ {"resume"}
    /\ UNCHANGED <<stopped, initiators>>

(* The machine's setters return at once when the value does not change.     *)
Set(S, x, b) == IF b THEN S \cup {x} ELSE S \ {x}

setOverride(b) ==
    /\ Set(modes, "OVERRIDE", b) # modes
    /\ modes' = Set(modes, "OVERRIDE", b)
    /\ UNCHANGED <<word, estopSeq>>
    /\ publishSafetySnapshot
    /\ broadcastSafetyNow
    /\ UNCHANGED <<link, up, client, history>>

setHomeRequired(b) ==
    /\ Set(modes, "HOME_REQUIRED", b) # modes
    /\ modes' = Set(modes, "HOME_REQUIRED", b)
    /\ UNCHANGED <<word, estopSeq>>
    /\ publishSafetySnapshot
    /\ broadcastSafetyNow
    /\ owed' = IF b THEN owed ELSE owed \ {"home"}
    /\ UNCHANGED <<link, up, client, stopped, initiators>>

(* The retained push of pushSubscriptions to a ready session.               *)
Push(c) ==
    /\ c \in Served
    /\ retained \notin down[c]
    /\ down' = [down EXCEPT ![c] = @ \cup {retained}]
    /\ UNCHANGED <<hub, link, up, client, history>>

-----------------------------------------------------------------------------
(* Links.                                                                   *)

(* Client::connect on a new transport forgets the initiation and the        *)
(* shadows of the last one; the seq counter goes on.                        *)
Open(c) ==
    /\ link[c] = "none"
    /\ link' = [link EXCEPT ![c] = "open"]
    /\ active' = [active EXCEPT ![c] = FALSE]
    /\ failed' = [failed EXCEPT ![c] = FALSE]
    /\ shadow' = [shadow EXCEPT ![c] = None]
    /\ UNCHANGED <<hub, up, down, sent, attempts, history>>

(* The session becomes ready (a matching etag or CATALOG_READY).            *)
Ready(c) ==
    /\ link[c] = "open"
    /\ link' = [link EXCEPT ![c] = "ready"]
    /\ UNCHANGED <<hub, up, down, client, history>>

(* The transport goes away, and with it whatever it still carried.          *)
Close(c) ==
    /\ Attached(c)
    /\ link' = [link EXCEPT ![c] = "none"]
    /\ up' = [up EXCEPT ![c] = {}]
    /\ down' = [down EXCEPT ![c] = {}]
    /\ UNCHANGED <<hub, client, history>>

-----------------------------------------------------------------------------
(* The client.                                                              *)

(* A write on a transport that is closed is lost without a sign.            *)
Written(c, s) ==
    IF Attached(c) THEN [up EXCEPT ![c] = @ \cup {s}] ELSE up

initiateEstop(c) ==
    /\ sent[c] < MaxSeq
    /\ active' = [active EXCEPT ![c] = TRUE]
    /\ failed' = [failed EXCEPT ![c] = FALSE]
    /\ sent' = [sent EXCEPT ![c] = @ + 1]
    /\ attempts' = [attempts EXCEPT ![c] = 1]
    /\ up' = Written(c, sent[c] + 1)
    /\ stopped' = [stopped EXCEPT ![c] = Latched]
    /\ UNCHANGED <<hub, link, down, shadow, initiators, owed>>

(* pumpEstopRepeat: once more, or a loud local failure.                     *)
MayRepeat(c) == attempts[c] < MaxAttempts

RepeatEstop(c) ==
    /\ active[c]
    /\ MayRepeat(c)
    /\ attempts' = [attempts EXCEPT ![c] = @ + 1]
    /\ up' = Written(c, sent[c])
    /\ UNCHANGED <<hub, link, down, active, failed, sent, shadow, history>>

GiveUp(c) ==
    /\ active[c]
    /\ ~MayRepeat(c)
    /\ active' = [active EXCEPT ![c] = FALSE]
    /\ failed' = [failed EXCEPT ![c] = TRUE]
    /\ UNCHANGED <<hub, link, up, down, sent, attempts, shadow, history>>

(* Mutant: the seq is not compared *)
Reached_anyLatch(c, snap) == "ESTOP" \in snap.word

(* The snapshot that ends the repetition: latched, by this initiation or    *)
(* by a later one.                                                          *)
Reached(c, snap) == "ESTOP" \in snap.word /\ snap.estopSeq >= sent[c]

Newer(c, snap) == shadow[c] # None => snap.seq > shadow[c].seq

(* handleState on the safety channel.                                       *)
handleState(c) ==
    \E snap \in down[c] :
        /\ Newer(c, snap)
        /\ shadow' = [shadow EXCEPT ![c] = snap]
        /\ active' = [active EXCEPT ![c] = @ /\ ~Reached(c, snap)]
        /\ failed' = [failed EXCEPT
                ![c] = IF active[c] /\ Reached(c, snap) THEN FALSE ELSE @]
        /\ UNCHANGED <<hub, link, up, down, sent, attempts, history>>

-----------------------------------------------------------------------------

Init ==
    /\ word = {}
    /\ modes = {}
    /\ estopSeq = 0
    /\ retained = [seq |-> 0, word |-> {}, modes |-> {}, estopSeq |-> 0]
    /\ link = [c \in Clients |-> "none"]
    /\ up = [c \in Clients |-> {}]
    /\ down = [c \in Clients |-> {}]
    /\ active = [c \in Clients |-> FALSE]
    /\ failed = [c \in Clients |-> FALSE]
    /\ sent = [c \in Clients |-> 0]
    /\ attempts = [c \in Clients |-> 0]
    /\ shadow = [c \in Clients |-> None]
    /\ stopped = [c \in Clients |-> FALSE]
    /\ initiators = {}
    /\ owed = {}

ClientNext(c) ==
    \/ initiateEstop(c)
    \/ RepeatEstop(c)
    \/ GiveUp(c)
    \/ handleState(c)

LinkNext(c) == Open(c) \/ Ready(c) \/ Close(c) \/ Push(c)

OpNext(c) ==
    \/ RawEstop(c)
    \/ OpEstop(c)
    \/ OpRelease(c)
    \/ OpPause(c)
    \/ OpOverride(c)
    \/ OpResume(c)

MachineNext ==
    \/ MachineEstop
    \/ MachineRelease
    \/ \E b \in Engages : setOverride(b)
    \/ \E b \in BOOLEAN : setHomeRequired(b)

Next ==
    \/ \E c \in Clients : ClientNext(c) \/ LinkNext(c) \/ OpNext(c)
    \/ MachineNext

Spec == Init /\ [][Next]_vars

-----------------------------------------------------------------------------
(* Properties.                                                              *)

(* The state has its types.                                                 *)
TypeOK ==
    /\ word \in SUBSET Levels
    /\ modes \in SUBSET Modes
    /\ estopSeq \in Nat
    /\ retained \in Snapshots
    /\ link \in [Clients -> {"none", "open", "ready"}]
    /\ up \in [Clients -> SUBSET Nat]
    /\ down \in [Clients -> SUBSET Snapshots]
    /\ active \in [Clients -> BOOLEAN]
    /\ failed \in [Clients -> BOOLEAN]
    /\ sent \in [Clients -> Nat]
    /\ attempts \in [Clients -> 0 .. MaxAttempts]
    /\ shadow \in [Clients -> Snapshots \cup {None}]
    /\ stopped \in [Clients -> BOOLEAN]
    /\ initiators \in SUBSET (Clients \cup {None})
    /\ owed \in SUBSET {"resume", "home"}

(* A client never goes on showing a safety state that is not in force: once *)
(* no push is due to it and it has taken the newest snapshot sent to it,    *)
(* what it shows is the hub's own state, whichever latch, release, op or    *)
(* setter came last and whatever arrived late or repeatedly.                *)
UpToDate(c) ==
    retained \in down[c] /\ \A snap \in down[c] : ~Newer(c, snap)

Shows(c) ==
    /\ shadow[c] # None
    /\ shadow[c].word = word
    /\ shadow[c].modes = modes
    /\ shadow[c].estopSeq = estopSeq

ShownIsInForce == \A c \in Served : UpToDate(c) => Shows(c)

(* Override never exists without PAUSE (safety.hpp), as long as the machine *)
(* uses setOverride only to report that the return move arrived: override,  *)
(* resume, ESTOP and release keep the two together.                         *)
OverrideCarriesPause == "OVERRIDE" \in modes => "PAUSE" \in word

(* After an ESTOP the machine is not free (neither latched nor paused)      *)
(* until a controller has resumed it and, where ESTOP cuts power, a home    *)
(* has completed, whatever is paused, overridden, released and repeated in  *)
(* between.                                                                 *)
StopHolds == owed # {} => word # {}

(* A client stops repeating only for a latch that its initiation could have *)
(* caused: when it is the only one whose frames have latched the hub, the   *)
(* snapshot that ends the repetition shows a hub that has been latched      *)
(* since the initiation, however late the snapshot comes.                   *)
Acknowledged(c) ==
    link[c] = link'[c] /\ active[c] /\ ~active'[c] /\ ~failed'[c]

SoleInitiatorIsTold ==
    [][\A c \in Clients :
        Acknowledged(c) /\ initiators \subseteq {c} => stopped[c]]_vars

(* The same whoever else initiates: "the observable latch is the only       *)
(* acknowledgment that means anything" (SPEC 11.2).                         *)
AcknowledgedIsLatched ==
    [][\A c \in Clients : Acknowledged(c) => stopped[c]]_vars
=============================================================================
