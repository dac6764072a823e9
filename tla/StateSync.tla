------------------------------ MODULE StateSync ------------------------------
(***************************************************************************)
(* The STATE plane between the hub and one of its subscribers: the         *)
(* retained value and sequence number of every channel, the grants, the    *)
(* push records and the shedding of one session, the link, and at the      *)
(* other end the client's shadow and its SYNCING -> LIVE gate.             *)
(* Subscribers do not influence each other here, so there is one.          *)
(*                                                                         *)
(* A link is a sequence of frames on their way to the client.  It may be   *)
(* unordered or lossy ("the weakest transport writes the rules"); frames   *)
(* to the hub are handled in the step that sends them.  The catalog        *)
(* channel, whose STATE announces the catalog and which every client       *)
(* subscribes last, is kept apart from Channels.  A catalog is a number,   *)
(* its etag; fetching one is a single step.                                *)
(***************************************************************************)
EXTENDS Naturals, Sequences, FiniteSets, SequencesExt

CONSTANTS
    Order,        \* sequence of channels, as the client wishes for them
    Priority,     \* [Channels -> priorities]
    Seeded,       \* the channels that hold a value from the start
    FirstSeq,     \* the sequence number those have reached
    Modulus,      \* sequence numbers wrap here, at 2^16 in the code
    NoSeq,        \* a push record that is not valid
    Ordered,      \* does the link keep the order of frames?
    Lossy,        \* may the link lose frames and deliver them twice?
    Dynamic,      \* where the catalog may change: in the "user" space, in "fixed" entries
    MaxInFlight,  \* frames the link holds before it refuses a write
    MaxVersion,   \* bound: values published on one channel
    MaxLinks,     \* bound: connections of the client
    MaxChanges    \* bound: changes of the catalog; also calls of setCongestionLevel and subscribe

Channels == {Order[i] : i \in DOMAIN Order}
Seqs     == 0 .. (Modulus - 1)

ASSUME StateConstants ==
    /\ Order \in Seq(Channels)
    /\ Priority \in [Channels -> {"background", "normal", "elevated", "critical"}]
    /\ Seeded \subseteq Channels
    /\ Modulus \in Nat /\ Modulus > 1 /\ FirstSeq \in Seqs /\ NoSeq \notin Nat
    /\ Ordered \in BOOLEAN /\ Lossy \in BOOLEAN /\ Dynamic \subseteq {"user", "fixed"}
    /\ MaxInFlight \in Nat \ {0} /\ MaxVersion \in Nat \ {0} /\ MaxLinks \in Nat
    /\ MaxChanges \in Nat

VARIABLES
    catalog,      \* the channels that exist
    etag,         \* _etag of that catalog
    retained,     \* RetainedStore; ver, a history field, counts the values ever published
    session,      \* the session at the hub: none, attached to a link, or parked
    ready,        \* HubSession::ready
    subs,         \* the granted channels
    pushed,       \* those with everPushed
    rec,          \* PushRecord::lastSeq, or NoSeq
    shed,         \* PushRecord::shedCounter, modulo 4
    told,         \* the etag pushed on the catalog channel, 0 if none since the grant
    level,        \* congestionLevel
    link,         \* frames on their way to the client
    state,        \* ClientSessionState
    held,         \* _cachedEtag, also the one last declared (_readyEtag); 0 for none
    heard,        \* the newest announcement (_catalogMetaSeq)
    announced,    \* _shadows has an entry for the catalog channel
    catalogReady, \* _catalogReady
    pending,      \* _readyPending: CATALOG_READY is repeated
    shadow,       \* _shadows: sequence number and version, version 0 for an unused entry
    refetching,   \* _refetching: an announced catalog is being fetched
    late,         \* _wishesAfterHello: subscribe() was called after HELLO went out
    resyncing,    \* _resyncing: back to SYNCING until the hub reopens
    promised,     \* the channels WELCOME counted; _requiredRetained is their number
    adopted,      \* _adoptedCount
    links,        \* number of connections so far
    calls,        \* number of calls of setCongestionLevel and subscribe so far
    untold        \* history: channels whose CHANNEL_WITHDRAWN the link of now refused

catalogVars == <<catalog, etag, retained>>
paceVars    == <<subs, pushed, rec, shed, told, level>>
hubVars     == <<catalogVars, session, ready, paceVars>>
fetchVars   == <<held, heard, announced, catalogReady, pending, refetching, late>>
gateVars    == <<state, resyncing, shadow, promised, adopted>>
clientVars  == <<fetchVars, gateVars>>
counters    == <<links, calls, untold>>
vars        == <<hubVars, link, clientVars, counters>>

------------------------------------------------------------------------------
(* serial_arithmetic.hpp and shedding.hpp *)

(* Mutant: plain comparison of the numbers *)
SeqIsNewer_plain(a, b) == a > b

SeqIsNewer(a, b) ==
    LET d == (a + Modulus - b) % Modulus IN d # 0 /\ d < Modulus \div 2

(* shedDecision for a STATE channel: one of how many due pushes is sent;   *)
(* 0 if none is.                                                           *)
ShedDecision(p, l) ==
    CASE l = 0 \/ p = "critical"      -> 1
      [] l = 1 /\ p = "background"    -> 4
      [] l = 1 /\ p # "background"    -> 1
      [] l = 2 /\ p = "background"    -> 0
      [] l = 2 /\ p = "normal"        -> 4
      [] l = 2 /\ p = "elevated"      -> 2

------------------------------------------------------------------------------
(* The hub *)

NoShadow == [seq |-> 0, ver |-> 0]

(* The frames of s that the link has room for; it refuses the others *)
Fitting(s) == SubSeq(s, 1, Min({Len(s), MaxInFlight - Len(link)}))

(* The n-th of the positions P: the one up to which there are n *)
Nth(P, n) == CHOOSE i \in P : Cardinality({j \in P : j <= i}) = n

(* The channels of C, as the client wishes for them *)
InOrder(C) ==
    LET P == {i \in DOMAIN Order : Order[i] \in C}
    IN  [n \in 1 .. Cardinality(P) |-> Order[Nth(P, n)]]

(* publishState *)
Publish(ch) ==
    /\ ch \in catalog
    /\ retained[ch].ver < MaxVersion
    /\ retained' = [retained EXCEPT ![ch] =
         [held |-> TRUE, seq |-> (@.seq + 1) % Modulus, ver |-> @.ver + 1]]
    /\ UNCHANGED <<catalog, etag, session, ready, paceVars, link, clientVars, counters>>

(* The hub answers a HELLO over a new link.  connect() has discarded what  *)
(* the client knew of the last session.  A parked session is reattached    *)
(* with its grants, or was reclaimed and a new one is made, which is also  *)
(* what follows while the hub still takes the old one for attached.        *)
(* A HELLO on the link of that session finds its congestion level.         *)
(* WELCOME counts the retained values that follow, of Channels and of the  *)
(* catalog channel.                                                        *)
Welcome(granted) ==
    [type |-> "WELCOME", etag |-> etag,
     promised |-> {ch \in granted \cap catalog : retained[ch].held}]

Connect ==
    /\ links < MaxLinks
    /\ links' = links + 1
    /\ \/ /\ session = "parked"
          /\ ready' = (ready /\ held = etag)
          /\ level' = 0
          /\ UNCHANGED <<subs, rec, shed>>
       \/ /\ subs' = catalog
          /\ ready' = (held = etag)
          /\ level' \in {0, level}
          /\ rec' = [ch \in Channels |-> NoSeq]
          /\ shed' = [ch \in Channels |-> 0]
    /\ session' = "attached"
    /\ pushed' = {} /\ told' = 0
    /\ link' = <<Welcome(subs')>>
    /\ state' = "HELLO_SENT"
    /\ catalogReady' = TRUE
    /\ pending' = FALSE /\ refetching' = FALSE /\ resyncing' = FALSE /\ late' = FALSE
    /\ heard' = 0 /\ announced' = FALSE
    /\ shadow' = [ch \in Channels |-> NoShadow]
    /\ promised' = {} /\ adopted' = 0
    /\ untold' = {}
    /\ UNCHANGED <<catalogVars, held, calls>>

(* The link is lost and the hub is told: parkAndDetach.  The client keeps  *)
(* its state until it connects again.                                      *)
Park ==
    /\ session = "attached"
    /\ session' = "parked"
    /\ level' = 0
    /\ link' = <<>>
    /\ UNCHANGED <<catalogVars, ready, subs, pushed, rec, shed, told, clientVars, counters>>

(* setCongestionLevel *)
SetCongestionLevel(l) ==
    /\ session = "attached" /\ calls < MaxChanges
    /\ l # level
    /\ level' = l
    /\ calls' = calls + 1
    /\ UNCHANGED <<catalogVars, session, ready, subs, pushed, rec, shed, told, link,
                   clientVars, links, untold>>

(* Mutant: a push that is no change waits, even the first after a grant *)
Due_changed(ch) ==
    /\ ch \in subs \cap catalog /\ retained[ch].held
    /\ (rec[ch] = NoSeq \/ SeqIsNewer(retained[ch].seq, rec[ch]))

(* changePending and dueForPush, but for the schedule of a periodic channel *)
Due(ch) ==
    /\ ch \in subs \cap catalog
    /\ retained[ch].held
    /\ \/ ch \notin pushed
       \/ rec[ch] = NoSeq
       \/ SeqIsNewer(retained[ch].seq, rec[ch])

(* This due push is shed; the first one after a grant never is *)
Shed(ch) ==
    LET n == ShedDecision(Priority[ch], level)
    IN  ch \in pushed /\ (n = 0 \/ (shed[ch] + 1) % n # 0)

(* Mutant: a push that the link refused is taken for sent *)
Recorded_all(wanted, sent) == wanted

(* The pushes that are recorded: those the link took *)
Recorded(wanted, sent) == ToSet(sent)

(* pumpStatePacing for the due channels D: those whose time has come *)
PumpStatePacing(D) ==
    LET T == {ch \in D : ~Shed(ch)}
        sent == Fitting(InOrder(T))
        A == Recorded(T, sent)
        frame(ch) == [type |-> "STATE", ch |-> ch, seq |-> retained[ch].seq,
                      ver |-> retained[ch].ver]
    IN  /\ session = "attached" /\ ready
        /\ \A ch \in Channels : Due(ch) /\ ch \notin pushed => ch \in D
        /\ link' = link \o [i \in DOMAIN sent |-> frame(sent[i])]
        /\ pushed' = pushed \cup A \cup (D \ T)
        /\ rec' = [ch \in Channels |-> IF ch \in A THEN retained[ch].seq ELSE rec[ch]]
        /\ shed' = [ch \in Channels |->
                      IF ch \in D \cap pushed /\ ShedDecision(Priority[ch], level) > 1
                      THEN (shed[ch] + 1) % 4 ELSE shed[ch]]
        /\ UNCHANGED <<catalogVars, session, ready, subs, told, level, clientVars, counters>>

Pump(ch) == \E D \in SUBSET {x \in Channels : Due(x)} : ch \in D /\ PumpStatePacing(D)

(* pumpStatePacing for the catalog channel, after first pushes of others *)
Announcement == [type |-> "ANNOUNCE", etag |-> etag]

PumpAnnouncement ==
    /\ session = "attached" /\ ready
    /\ told # etag
    /\ \A ch \in Channels : Due(ch) => ch \in pushed
    /\ Len(link) < MaxInFlight
    /\ link' = Append(link, Announcement)
    /\ told' = etag
    /\ UNCHANGED <<catalogVars, session, ready, subs, pushed, rec, shed, level,
                   clientVars, counters>>

(* handleSubscribe for wishes that are in the catalog: new grants and      *)
(* renewed ones                                                            *)
Granting(wishes) ==
    /\ subs' = subs \cup (wishes \cap catalog)
    /\ pushed' = pushed \ wishes

(* Client::subscribe.  A wish made while HELLO is out waits for WELCOME,   *)
(* with no session it waits for connect().                                 *)
Subscribe(ch) ==
    /\ calls < MaxChanges
    /\ calls' = calls + 1
    /\ \/ /\ state = "HELLO_SENT"
          /\ late' = TRUE
          /\ UNCHANGED <<subs, pushed>>
       \/ /\ state \in {"SYNCING", "LIVE"} /\ session = "attached"
          /\ ch \in catalog
          /\ Granting({ch})
          /\ UNCHANGED late
    /\ UNCHANGED <<catalogVars, session, ready, rec, shed, told, level, link,
                   held, heard, announced, catalogReady, pending, refetching, gateVars, links,
                   untold>>

(* dropSubscription takes the push record along *)
RecordsWithout(C) == [ch \in Channels |-> IF ch \in C \cap subs THEN NoSeq ELSE rec[ch]]

(* catalogChanged: the entries of gone vanish or change, new are in the    *)
(* catalog from now on.  Values and grants of gone are dropped and the     *)
(* client told.  A change outside the user space is announced while the    *)
(* session can still receive it, and revokes its readiness.  A frame the   *)
(* link refuses is not sent again.                                         *)
CatalogChanged(gone, new, fixedSame) ==
    LET nacks == [i \in DOMAIN InOrder(gone \cap subs) |->
                    [type |-> "WITHDRAWN", ch |-> InOrder(gone \cap subs)[i]]]
        tail  == IF ~fixedSame /\ ready THEN <<[Announcement EXCEPT !.etag = @ + 1]>> ELSE <<>>
    IN  /\ etag <= MaxChanges
        /\ (IF fixedSame THEN "user" ELSE "fixed") \in Dynamic
        /\ gone \cup new # {} \/ ~fixedSame
        /\ etag' = etag + 1
        /\ catalog' = (catalog \ gone) \cup new
        /\ retained' = [ch \in Channels |->
             IF ch \in gone THEN [held |-> FALSE, seq |-> 0, ver |-> retained[ch].ver]
             ELSE retained[ch]]
        /\ subs' = subs \ gone
        /\ rec' = RecordsWithout(gone)
        /\ shed' = [ch \in Channels |-> IF ch \in gone \cap subs THEN 0 ELSE shed[ch]]
        /\ link' = IF session = "attached" THEN link \o Fitting(nacks \o tail) ELSE link
        /\ ready' = (ready /\ fixedSame)
        /\ pushed' = IF fixedSame THEN pushed \ gone ELSE {}
        /\ told' = IF fixedSame THEN told ELSE 0
        /\ untold' = IF session = "attached"
                     THEN untold \cup ((gone \cap subs) \ {f.ch : f \in ToSet(Fitting(nacks))})
                     ELSE untold
        /\ UNCHANGED <<session, level, clientVars, links, calls>>

(* An intent of a session that is not ready is refused (handleIntent) *)
RefuseIntent ==
    /\ session = "attached" /\ ~ready /\ state = "LIVE"
    /\ \A i \in DOMAIN link : link[i].type # "NOT_READY"
    /\ link' = link \o Fitting(<<[type |-> "NOT_READY"]>>)
    /\ UNCHANGED <<hubVars, clientVars, counters>>

------------------------------------------------------------------------------
(* The client: what it does with frame f *)

(* checkLiveTransition; the catalog channel is promised too *)
Gate(s, ok, n, p) ==
    IF s = "SYNCING" /\ ~resyncing /\ ok /\ n >= Cardinality(p) + 1 THEN "LIVE" ELSE s

(* resendSubscriptionWishes: all that the application wished for.  The     *)
(* wish for the catalog channel was in the HELLO and is not repeated.      *)
ResendSubscriptionWishes == Granting(Channels) /\ UNCHANGED told

(* WELCOME discards the shadow *)
CleanShadow == [ch \in Channels |-> NoShadow]

HandleWelcome(f) ==
    /\ f.type = "WELCOME"
    /\ IF state = "HELLO_SENT"
       THEN /\ shadow' = CleanShadow
            /\ promised' = f.promised
            /\ adopted' = 0 /\ announced' = FALSE
            /\ catalogReady' = (held = f.etag)
            /\ state' = Gate("SYNCING", catalogReady', 0, f.promised)
            /\ IF late THEN ResendSubscriptionWishes ELSE UNCHANGED <<subs, pushed, told>>
            /\ late' = FALSE
            /\ UNCHANGED <<held, heard, pending, refetching, resyncing>>
       ELSE UNCHANGED <<clientVars, subs, pushed, told>>
    /\ UNCHANGED <<catalogVars, session, ready, rec, shed, level>>

(* applyStateFrame *)
Newer(f) ==
    \/ shadow[f.ch].ver = 0
    \/ SeqIsNewer(f.seq, shadow[f.ch].seq)

(* Mutant: every STATE frame counts while SYNCING *)
Counts_every(f) == state = "SYNCING"

(* The first value of a channel counts towards LIVE *)
Counts(f) == state = "SYNCING" /\ shadow[f.ch].ver = 0

(* Any STATE is proof that the hub has reopened *)
Reopened == resyncing /\ ~refetching /\ state = "SYNCING"

HandleState(f) ==
    /\ f.type = "STATE"
    /\ pending' = FALSE
    /\ resyncing' = (resyncing /\ ~Reopened)
    /\ shadow' = IF Newer(f) THEN [shadow EXCEPT ![f.ch] = [seq |-> f.seq, ver |-> f.ver]]
                 ELSE shadow
    /\ adopted' = IF Newer(f) /\ Counts(f) /\ ~Reopened THEN adopted + 1 ELSE adopted
    /\ state' = IF Reopened THEN "LIVE"
                ELSE IF adopted' # adopted THEN Gate(state, catalogReady, adopted', promised)
                ELSE state
    /\ UNCHANGED <<hubVars, held, heard, announced, catalogReady, refetching, late, promised>>

(* handleState and noteCatalogAnnouncement: a client that holds a catalog  *)
(* fetches the one announced                                               *)
HandleAnnouncement(f) ==
    /\ f.type = "ANNOUNCE"
    /\ pending' = FALSE
    /\ resyncing' = (resyncing /\ ~Reopened)
    /\ announced' = TRUE
    /\ adopted' = IF state = "SYNCING" /\ ~announced /\ ~Reopened THEN adopted + 1 ELSE adopted
    /\ state' = IF Reopened THEN "LIVE"
                ELSE IF adopted' # adopted THEN Gate(state, catalogReady, adopted', promised)
                ELSE state
    /\ heard' = Max({heard, f.etag})
    /\ refetching' = (refetching \/ (f.etag > heard /\ f.etag # held /\ catalogReady))
    /\ UNCHANGED <<hubVars, held, catalogReady, late, shadow, promised>>

ShadowWithout(ch) == [shadow EXCEPT ![ch] = NoShadow]

(* handleNack, CHANNEL_WITHDRAWN; any NACK refuses a HELLO that is out *)
HandleWithdrawn(f) ==
    /\ f.type = "WITHDRAWN"
    /\ shadow' = ShadowWithout(f.ch)
    /\ state' = IF state = "HELLO_SENT" THEN "CLOSED" ELSE state
    /\ UNCHANGED <<hubVars, fetchVars, resyncing, promised, adopted>>

(* sendCatalogReady, if it is called, and handleCatalogReady: the hub      *)
(* takes any etag                                                          *)
SendCatalogReady(called) ==
    /\ ready' = (ready \/ (called /\ session = "attached"))
    /\ pending' = (pending \/ called)

(* handleNack, NOT_READY: back to SYNCING, and the etag the client holds   *)
(* is declared unless a new catalog is on its way                          *)
HandleNotReady(f) ==
    /\ f.type = "NOT_READY"
    /\ IF state = "LIVE"
       THEN /\ state' = "SYNCING"
            /\ resyncing' = TRUE
            /\ SendCatalogReady(~refetching)
       ELSE /\ state' = IF state = "HELLO_SENT" THEN "CLOSED" ELSE state
            /\ UNCHANGED <<resyncing, ready, pending>>
    /\ UNCHANGED <<catalogVars, session, paceVars, held, heard, announced, catalogReady,
                   refetching, late, shadow, promised, adopted>>

(* A frame is read; a link that is not reliable may hold it twice *)
Receive ==
    /\ state # "CLOSED"
    /\ \E i \in DOMAIN link :
         /\ Ordered => i = 1
         /\ \/ HandleWelcome(link[i]) \/ HandleState(link[i]) \/ HandleAnnouncement(link[i])
            \/ HandleWithdrawn(link[i]) \/ HandleNotReady(link[i])
         /\ link' = RemoveAt(link, i) \/ (Lossy /\ UNCHANGED link)
    /\ UNCHANGED counters

LoseFrame ==
    /\ Lossy
    /\ \E i \in DOMAIN link : link' = RemoveAt(link, i)
    /\ UNCHANGED <<hubVars, clientVars, counters>>

(* A catalog is complete, its etag is declared: handleCatalogReady *)
CatalogReady ==
    /\ session = "attached" /\ state \in {"SYNCING", "LIVE"}
    /\ ~catalogReady \/ refetching
    /\ held' = etag
    /\ catalogReady' = TRUE /\ refetching' = FALSE
    /\ SendCatalogReady(TRUE)
    /\ state' = Gate(state, TRUE, adopted, promised)
    /\ UNCHANGED <<catalogVars, session, paceVars, link, heard, announced, late, resyncing,
                   shadow, promised, adopted, counters>>

(* The fetch of a new catalog is given up: pumpBlobAbandon, or the refusal *)
(* of one that does not fit.  The client stays with the one it holds.      *)
AbandonRefetch ==
    /\ refetching
    /\ refetching' = FALSE
    /\ SendCatalogReady(resyncing)
    /\ UNCHANGED <<catalogVars, session, paceVars, link, held, heard, announced, catalogReady,
                   late, gateVars, counters>>

(* The client says GOODBYE and closes the link.  handleGoodbye ends the    *)
(* session; one whose GOODBYE is lost is parked.                           *)
Leave ==
    /\ state' = "CLOSED"
    /\ link' = <<>>
    /\ level' = 0
    /\ \/ /\ session = "attached"
          /\ session' = "none" /\ ready' = FALSE
          /\ subs' = {} /\ pushed' = {} /\ told' = 0
          /\ rec' = [ch \in Channels |-> NoSeq]
          /\ shed' = [ch \in Channels |-> 0]
       \/ /\ session = "attached" => Lossy
          /\ session' = IF session = "attached" THEN "parked" ELSE session
          /\ UNCHANGED <<ready, subs, pushed, rec, shed, told>>
    /\ UNCHANGED <<catalogVars, fetchVars, resyncing, shadow, promised, adopted, counters>>

(* refuseCatalogTransfer of a client that has no catalog to stay with *)
RefuseCatalogTransfer ==
    /\ session = "attached" /\ state \in {"SYNCING", "LIVE"}
    /\ ~catalogReady
    /\ Leave

Disconnect == state # "CLOSED" /\ Leave

(* pumpCatalogReady: the declaration is repeated *)
RepeatReady ==
    /\ session = "attached" /\ pending /\ ~ready
    /\ ready' = TRUE
    /\ UNCHANGED <<catalogVars, session, paceVars, link, clientVars, counters>>

------------------------------------------------------------------------------
Init ==
    /\ catalog = Channels /\ etag = 1
    /\ retained = [ch \in Channels |->
         [held |-> ch \in Seeded, seq |-> IF ch \in Seeded THEN FirstSeq ELSE 0,
          ver |-> IF ch \in Seeded THEN 1 ELSE 0]]
    /\ session = "none" /\ ready = FALSE
    /\ subs = {} /\ pushed = {} /\ told = 0
    /\ rec = [ch \in Channels |-> NoSeq]
    /\ shed = [ch \in Channels |-> 0]
    /\ level = 0
    /\ link = <<>>
    /\ held \in {0, 1} /\ heard = 0 /\ announced = FALSE
    /\ state = "CLOSED" /\ catalogReady = TRUE
    /\ pending = FALSE /\ refetching = FALSE /\ resyncing = FALSE /\ late = FALSE
    /\ shadow = [ch \in Channels |-> NoShadow]
    /\ promised = {} /\ adopted = 0
    /\ links = 0 /\ calls = 0 /\ untold = {}

(* At most one channel appears, vanishes or changes at a time *)
CatalogChanges ==
    \E gone, new \in {{}} \cup {{ch} : ch \in Channels}, fixedSame \in BOOLEAN :
      /\ gone \subseteq catalog /\ new \cap (catalog \ gone) = {}
      /\ CatalogChanged(gone, new, fixedSame)

Next ==
    \/ \E ch \in Channels : Publish(ch) \/ Pump(ch) \/ Subscribe(ch)
    \/ \E l \in 0 .. 2 : SetCongestionLevel(l)
    \/ Connect \/ Park \/ PumpAnnouncement \/ CatalogChanges \/ RefuseIntent
    \/ Receive \/ LoseFrame \/ CatalogReady \/ AbandonRefetch \/ RepeatReady
    \/ RefuseCatalogTransfer \/ Disconnect

(* The owner loop calls update() for ever, at both ends, so a due push is  *)
(* made, a frame on the link is read, an unfinished catalog is fetched and *)
(* an unanswered declaration repeated.                                     *)
Fairness ==
    /\ \A ch \in Channels : WF_vars(Pump(ch))
    /\ WF_vars(PumpAnnouncement)
    /\ WF_vars(Receive)
    /\ WF_vars(CatalogReady)
    /\ WF_vars(RepeatReady)

Spec == Init /\ [][Next]_vars
FairSpec == Spec /\ Fairness

------------------------------------------------------------------------------
(* Properties *)

Frames ==
    [type : {"WELCOME"}, etag : Nat, promised : SUBSET Channels]
    \cup [type : {"STATE"}, ch : Channels, seq : Seqs, ver : 1 .. MaxVersion]
    \cup [type : {"ANNOUNCE"}, etag : Nat]
    \cup [type : {"WITHDRAWN"}, ch : Channels] \cup [type : {"NOT_READY"}]

(* Every variable keeps its type, only granted channels count as pushed,   *)
(* the link never holds more than it can.                                  *)
TypeOK ==
    /\ catalog \subseteq Channels /\ etag \in 1 .. (MaxChanges + 1)
    /\ retained \in [Channels -> [held : BOOLEAN, seq : Seqs, ver : 0 .. MaxVersion]]
    /\ session \in {"none", "attached", "parked"} /\ ready \in BOOLEAN
    /\ subs \subseteq Channels /\ pushed \subseteq subs
    /\ rec \in [Channels -> Seqs \cup {NoSeq}]
    /\ shed \in [Channels -> 0 .. 3] /\ told \in 0 .. etag /\ level \in 0 .. 2
    /\ link \in Seq(Frames) /\ Len(link) <= MaxInFlight
    /\ held \in 0 .. etag /\ heard \in 0 .. etag
    /\ state \in {"CLOSED", "HELLO_SENT", "SYNCING", "LIVE"}
    /\ {announced, catalogReady, pending, refetching, resyncing, late} \subseteq BOOLEAN
    /\ shadow \in [Channels -> [seq : Seqs, ver : 0 .. MaxVersion]]
    /\ promised \subseteq Channels /\ adopted \in Nat
    /\ links \in 0 .. MaxLinks /\ calls \in 0 .. MaxChanges
    /\ untold \subseteq Channels

(* The STATE plane is a latest-value register (LatestValue): through       *)
(* reconnects, conflation, shedding and the wrap of the numbers the client *)
(* shows published values and never goes back to an older one.             *)
Abstract == INSTANCE LatestValue
    WITH latest <- [ch \in Channels |-> retained[ch].ver],
         seen   <- [ch \in Channels |-> shadow[ch].ver]

ImplementsLatestValue == Abstract!Spec

(* "onLive fires after ALL retained STATE pushes promised by WELCOME have  *)
(* been adopted": a LIVE client has the catalog's announcement, and a      *)
(* value of every promised channel that has not been withdrawn since.      *)
LiveHasAdopted ==
    state = "LIVE" =>
      /\ announced
      /\ \A ch \in promised : shadow[ch].ver # 0 \/ ch \notin subs

(* A subscriber that stays attached and ready ends up with the latest      *)
(* value of every granted channel, whatever was shed, refused by the link  *)
(* or conflated on the way.  Background channels are excepted: congestion  *)
(* may shed them for ever.  So are channels whose withdrawal the link      *)
(* refused: it is not said again, and the values of a second life of the   *)
(* channel look old to a client that has not forgotten the first.          *)
Converges ==
    \A ch \in Channels :
      Priority[ch] # "background" =>
        (<>[](session = "attached" /\ ready /\ ch \in subs /\ retained[ch].held
                 /\ ch \notin untold)
           => <>[](shadow[ch].ver = retained[ch].ver))

(* "the count of retained STATE pushes that will follow": a client does    *)
(* not stay SYNCING for ever on a session that is attached and ready,      *)
(* under the catalog the hub booted with.                                  *)
ReachesLive ==
    ~<>[](session = "attached" /\ ready /\ state = "SYNCING" /\ etag = 1)

(* A re-sync ends: a client that a change of the fixed entries threw back  *)
(* to SYNCING sees STATE again, whatever becomes of its refetch.           *)
ResyncEnds == ~<>[](session = "attached" /\ resyncing)
=============================================================================
