----------------------------- MODULE HubIntents -----------------------------
(***************************************************************************)
(* The write plane of the Valence hub (SPEC 9.3): INTENT and ECHO, the     *)
(* idempotency ring that answers a repeated intent, cfg_gen with the       *)
(* compare-and-set it guards, and trial writes, which are live but not     *)
(* stored until their session commits them.                                *)
(*                                                                         *)
(* Every client has at most one session here; how sessions come and go is  *)
(* HubSessions' business and appears as HELLO, going STALE and ending.     *)
(* The wire delivers an intent late, twice or not at all, but dies with    *)
(* its link.  The settings themselves belong to the application's          *)
(* delegate: they are modelled from the contracts in hub.hpp.              *)
(***************************************************************************)
EXTENDS Naturals, Sequences, FiniteSets

CONSTANTS
    Clients,
    Keys,           \* the settings
    Trialable,      \* those trialBaseline() answers for
    Limit,          \* the highest legal value of a setting
    Asked,          \* the values clients ask for, legal or not
    NoGen,          \* an intent without precondition
    Conditional,    \* do clients send preconditions?
    Repeats,        \* does the wire deliver an intent again?
    RingDepth,      \* idempotency_ring_depth
    Window,         \* how many newer intents a late or repeated one may follow
    MaxTrials,      \* entries of _trials
    EchoFits,       \* does an encoded ECHO fit IntentRing's slot?
    MaxId,          \* bound: intents one run of a client sends
    MaxGen,         \* bound: changes of the configuration by writes and the machine
    MaxRestarts     \* bound: restarts of client processes

Legal  == 0 .. Limit
Ids    == 1 .. MaxId                \* _nextIntentId starts at 1

ASSUME IntentConstants ==
    /\ Trialable \subseteq Keys
    /\ Limit \in Nat /\ Asked \subseteq Nat
    /\ RingDepth \in Nat \ {0}
    /\ Window \in Nat /\ MaxTrials \in Nat
    /\ EchoFits \subseteq BOOLEAN /\ Conditional \subseteq BOOLEAN
    /\ Repeats \subseteq BOOLEAN
    /\ MaxId \in Nat /\ MaxGen \in Nat /\ MaxRestarts \in Nat
    /\ NoGen \notin Nat

Ops == {"commit", "revert"}

(* IntentMsg.  basis is a history field: the settings as they were when    *)
(* the client read the generation it conditions its write on.              *)
Intent ==
    [id : Ids, kind : {"durable", "trial"} \cup Ops,
     value : UNION {[S -> Asked] : S \in SUBSET Keys},
     pre : Nat \cup {NoGen}, basis : [Keys -> Legal]]

VARIABLES
    live,     \* [Keys -> Legal]: the settings in effect
    saved,    \* [Keys -> Legal]: the settings in storage
    gen,      \* _cfgGen
    trials,   \* _trials: who tries which key, and its pre-trial value
    up,       \* [Clients -> state of the client's session at the hub]
    linked,   \* [Clients -> does the client have a link and a session?]
    nextId,   \* [Clients -> _nextIntentId of the running process]
    wire,     \* [Clients -> intents that may still arrive]
    ring,     \* [Clients -> IntentRing of the session, with the intent each entry is of]
    times,    \* history: how often an intent of this run was applied
    truthful, \* history: no ECHO has answered another intent than its own
    restarts  \* number of client restarts so far

vars == <<live, saved, gen, trials, up, linked, nextId, wire, ring, times,
          truthful, restarts>>

settings == <<live, saved, gen, trials>>

(* TrialEntry *)
Trial == [by : Clients, key : Keys, base : Legal]

TrialsOf(c)    == {t \in trials : t.by = c}
KeysTriedBy(c) == {t.key : t \in TrialsOf(c)}
OnTrial        == {t.key : t \in trials}

(* findTrial answers another session's entry for one of the keys *)
HeldByOther(c, ks) == \E t \in trials : t.key \in ks /\ t.by # c

------------------------------------------------------------------------------
(* endSessionTrials *)

(* Mutant: cfg_gen is forgotten *)
GenAfter_kept(new) == gen

(* ++_cfgGen iff the delegate reports a change *)
GenAfter(new) == IF new # live THEN gen + 1 ELSE gen

(* restoreTrial puts every pre-trial value of the session back *)
Restored(c) ==
    [k \in Keys |-> IF k \in KeysTriedBy(c)
                    THEN (CHOOSE t \in TrialsOf(c) : t.key = k).base
                    ELSE live[k]]

(* onTrialCommit stores the current value of the keys ks *)
Persist(cfg, ks) == [k \in Keys |-> IF k \in ks THEN cfg[k] ELSE saved[k]]

RevertTrials(c) ==
    /\ live' = Restored(c)
    /\ gen' = GenAfter(Restored(c))
    /\ trials' = trials \ TrialsOf(c)
    /\ UNCHANGED saved

CommitTrials(c) ==
    /\ saved' = Persist(live, KeysTriedBy(c))
    /\ trials' = trials \ TrialsOf(c)
    /\ UNCHANGED <<live, gen>>

------------------------------------------------------------------------------
(* IntentRing *)

(* Mutant: an id older than a stored one is taken for a repetition *)
Stored_older(c, id) == {i \in 1 .. Len(ring[c]) : ring[c][i].id >= id}

(* lookup: the entries of this id, at most one *)
Stored(c, id) == {i \in 1 .. Len(ring[c]) : ring[c][i].id = id}

(* Mutant: only the last answer is remembered *)
Store_short(r, e) == <<[id |-> e.id, of |-> e.of]>>

(* store, into the oldest place once the ring is full; a big ECHO is not   *)
(* stored, and the caller does not look                                    *)
Store(r, e) ==
    IF e.fits
    THEN Append(IF Len(r) = RingDepth THEN Tail(r) ELSE r, [id |-> e.id, of |-> e.of])
    ELSE r

(* The intents that may still arrive once the next id is given out *)
InWindow(ms, next) == {m \in ms : m.id + Window >= next}

------------------------------------------------------------------------------
(* handleIntent, for an intent m that reaches a session of client c.       *)

(* The ECHO that goes out was made for the intent of *)
Answered(m, of) == truthful' = (truthful /\ m = of)

(* Any refusal before something is applied: the rate limiter, readiness,   *)
(* catalog and access, a failed precondition, a key on another session's   *)
(* trial, a key that cannot be tried, a full trial table, the delegate's   *)
(* own.  Nothing changes and nothing is stored.                            *)
RefuseIntent(c, m) ==
    UNCHANGED <<settings, ring, times, truthful>>

(* A stored id: the stored ECHO again *)
EchoStored(c, m) ==
    /\ \E i \in Stored(c, m.id) : Answered(m, ring[c][i].of)
    /\ UNCHANGED <<settings, ring, times>>

(* store and ECHO, once an intent is applied *)
Echo(c, m) ==
    /\ \E fits \in EchoFits :
         ring' = [ring EXCEPT ![c] = Store(@, [id |-> m.id, of |-> m, fits |-> fits])]
    /\ times' = [times EXCEPT ![c][m.id] = IF @ = 2 THEN 2 ELSE @ + 1]
    /\ Answered(m, m)

(* Mutant: the precondition is not compared *)
Precondition_ignored(m) == TRUE

(* The cfg_gen CAS *)
Precondition(m) == m.pre \in {NoGen, gen}

(* Mutant: a key on trial can be written durably by anybody *)
KeysAreFree_durable(c, m) ==
    m.kind = "trial" => ~HeldByOther(c, DOMAIN m.value)

(* Step 5e: no key is on another session's trial *)
KeysAreFree(c, m) == ~HeldByOther(c, DOMAIN m.value)

(* A trial write needs a baseline and a place for every key it opens *)
CanTry(m) ==
    /\ DOMAIN m.value \subseteq Trialable
    /\ Cardinality(trials) + Cardinality(DOMAIN m.value \ OnTrial) <= MaxTrials

(* The delegate applies the keys ks of the intent, clamped *)
Clamped(v) == IF v > Limit THEN Limit ELSE v
Applied(m, ks) == [k \in Keys |-> IF k \in ks THEN Clamped(m.value[k]) ELSE live[k]]

(* The entries a trial write of the keys ks opens *)
Opened(c, ks) == {[by |-> c, key |-> k, base |-> live[k]] : k \in ks \ OnTrial}

(* applyTrialIntent: a key joins the trial set only when it was applied *)
TryWrite(c, m) ==
    /\ m.kind = "trial" /\ CanTry(m)
    /\ \E ks \in SUBSET DOMAIN m.value :
         /\ live' = Applied(m, ks)
         /\ gen' = GenAfter(Applied(m, ks))
         /\ trials' = trials \cup Opened(c, ks)
    /\ UNCHANGED saved

(* Mutant: the durable write ends the trial and onTrialCommit is not called *)
Stores_changed(c, m, ks) == {k \in ks : Applied(m, ks)[k] # live[k]}

(* What a durable write stores: the delegate, each value that moved;       *)
(* onTrialCommit, each key whose trial it ended.                           *)
Stores(c, m, ks) ==
    {k \in ks : Applied(m, ks)[k] # live[k] \/ k \in KeysTriedBy(c)}

(* applyIntent *)
DurableWrite(c, m) ==
    /\ m.kind = "durable"
    /\ \E ks \in SUBSET DOMAIN m.value :
         /\ live' = Applied(m, ks)
         /\ gen' = GenAfter(Applied(m, ks))
         /\ saved' = Persist(Applied(m, ks), Stores(c, m, ks))
         /\ trials' = {t \in TrialsOf(c) : t.key \notin ks} \cup (trials \ TrialsOf(c))

(* handleTrialOpIntent *)
TrialOp(c, m) ==
    \/ m.kind = "commit" /\ CommitTrials(c)
    \/ m.kind = "revert" /\ RevertTrials(c)

ApplyIntent(c, m) ==
    /\ Stored(c, m.id) = {}
    /\ Precondition(m)
    /\ \/ KeysAreFree(c, m) /\ (TryWrite(c, m) \/ DurableWrite(c, m)) /\ gen' <= MaxGen
       \/ TrialOp(c, m)
    /\ Echo(c, m)

(* A frame arrives on the link: pumpSlot revives a STALE session first.    *)
(* The wire may keep a copy.                                               *)
HandleIntent(c) ==
    /\ linked[c] /\ up[c] # "none"
    /\ up' = [up EXCEPT ![c] = "live"]
    /\ \E m \in wire[c] :
         /\ RefuseIntent(c, m) \/ EchoStored(c, m) \/ ApplyIntent(c, m)
         /\ \E again \in Repeats :
              wire' = [wire EXCEPT ![c] = IF again THEN @ ELSE @ \ {m}]
    /\ UNCHANGED <<linked, nextId, restarts>>

------------------------------------------------------------------------------
(* The client *)

(* sendIntentImpl, with or without the precondition *)
SendIntent(c) ==
    /\ linked[c] /\ nextId[c] <= MaxId
    /\ \E kind \in {"durable", "trial"} \cup Ops, cas \in Conditional :
       \E S \in IF kind \in Ops THEN {{}} ELSE SUBSET Keys \ {{}} :
       \E value \in [S -> Asked] :
         LET m == [id |-> nextId[c], kind |-> kind, value |-> value,
                   pre |-> IF cas THEN gen ELSE NoGen,
                   basis |-> IF cas THEN live ELSE [k \in Keys |-> 0]]
         IN  wire' = [wire EXCEPT ![c] = InWindow(@ \cup {m}, nextId[c] + 1)]
    /\ nextId' = [nextId EXCEPT ![c] = @ + 1]
    /\ UNCHANGED <<settings, up, linked, ring, times, truthful, restarts>>

(* The link is gone as far as the client can tell; the hub need not know *)
LoseLink(c) ==
    /\ linked[c]
    /\ linked' = [linked EXCEPT ![c] = FALSE]
    /\ wire' = [wire EXCEPT ![c] = {}]
    /\ UNCHANGED <<settings, up, nextId, ring, times, truthful, restarts>>

(* The client process starts again with the instance id it has kept, and   *)
(* with nothing else: ids start at 1.                                      *)
Restart(c) ==
    /\ restarts < MaxRestarts
    /\ restarts' = restarts + 1
    /\ linked' = [linked EXCEPT ![c] = FALSE]
    /\ wire' = [wire EXCEPT ![c] = {}]
    /\ nextId' = [nextId EXCEPT ![c] = 1]
    /\ times' = [times EXCEPT ![c] = [i \in Ids |-> 0]]
    /\ UNCHANGED <<settings, up, ring, truthful>>

------------------------------------------------------------------------------
(* The session, as HubSessions has it *)

(* A session ends or begins anew: HubSession::reset takes the ring along *)
FreshRing(c) ==
    /\ ring' = [ring EXCEPT ![c] = <<>>]
    /\ times' = [times EXCEPT ![c] = [i \in Ids |-> 0]]

(* HELLO on a new link.  handleReattach keeps the ring of a STALE session; *)
(* any other session of the instance ends first.                           *)
Hello(c) ==
    /\ ~linked[c]
    /\ linked' = [linked EXCEPT ![c] = TRUE]
    /\ up' = [up EXCEPT ![c] = "live"]
    /\ \/ /\ up[c] = "stale"
          /\ UNCHANGED <<settings, ring, times>>
       \/ RevertTrials(c) /\ FreshRing(c)
    /\ UNCHANGED <<nextId, wire, truthful, restarts>>

(* markStale and parkAndDetach: the trials revert, the ring stays *)
GoStale(c) ==
    /\ up[c] = "live"
    /\ up' = [up EXCEPT ![c] = "stale"]
    /\ RevertTrials(c)
    /\ UNCHANGED <<linked, nextId, wire, ring, times, truthful, restarts>>

(* teardownSession *)
EndSession(c) ==
    /\ up[c] # "none"
    /\ up' = [up EXCEPT ![c] = "none"]
    /\ linked' = [linked EXCEPT ![c] = FALSE]
    /\ wire' = [wire EXCEPT ![c] = {}]
    /\ RevertTrials(c)
    /\ FreshRing(c)
    /\ UNCHANGED <<nextId, truthful, restarts>>

(* The machine changes a setting itself and calls bumpConfigGeneration.    *)
(* The stored value of a key on trial stays its pre-trial value.           *)
MachineChanges ==
    /\ gen < MaxGen
    /\ \E k \in Keys, v \in Legal :
         /\ v # live[k]
         /\ live' = [live EXCEPT ![k] = v]
         /\ saved' = IF k \in OnTrial THEN saved ELSE [saved EXCEPT ![k] = v]
    /\ gen' = gen + 1
    /\ UNCHANGED <<trials, up, linked, nextId, wire, ring, times, truthful, restarts>>

------------------------------------------------------------------------------
Init ==
    /\ live = [k \in Keys |-> 0] /\ saved = [k \in Keys |-> 0]
    /\ gen = 0 /\ trials = {}
    /\ up = [c \in Clients |-> "none"]
    /\ linked = [c \in Clients |-> FALSE]
    /\ nextId = [c \in Clients |-> 1]
    /\ wire = [c \in Clients |-> {}]
    /\ ring = [c \in Clients |-> <<>>]
    /\ times = [c \in Clients |-> [i \in Ids |-> 0]]
    /\ truthful = TRUE
    /\ restarts = 0

Next ==
    \/ \E c \in Clients :
         \/ SendIntent(c) \/ HandleIntent(c) \/ LoseLink(c) \/ Restart(c)
         \/ Hello(c) \/ GoStale(c) \/ EndSession(c)
    \/ MachineChanges

Spec == Init /\ [][Next]_vars

------------------------------------------------------------------------------
(* Properties *)

(* Every variable keeps its type; the rings keep their depth and the trial *)
(* table its size.                                                         *)
TypeOK ==
    /\ live \in [Keys -> Legal] /\ saved \in [Keys -> Legal]
    /\ gen \in Nat
    /\ trials \subseteq Trial /\ Cardinality(trials) <= MaxTrials
    /\ up \in [Clients -> {"none", "live", "stale"}]
    /\ linked \in [Clients -> BOOLEAN]
    /\ nextId \in [Clients -> 1 .. (MaxId + 1)]
    /\ \A c \in Clients : wire[c] \subseteq Intent
    /\ \A c \in Clients : Len(ring[c]) <= RingDepth
    /\ times \in [Clients -> [Ids -> 0 .. 2]]
    /\ truthful \in BOOLEAN
    /\ restarts \in 0 .. MaxRestarts

(* 9.3: what a trial remembers is what storage holds, and a setting not on *)
(* trial is in effect as stored.  So a power cut at any moment, a revert,  *)
(* a lost session and a commit all leave the settings somebody meant.      *)
BaselinesAreStored ==
    /\ \A t \in trials : t.base = saved[t.key]
    /\ \A k \in Keys \ OnTrial : live[k] = saved[k]

(* 9.3 "exclusive keys": one trial for a key, and while it lasts nobody    *)
(* but its session or the machine moves the value.                         *)
TrialIsExclusive ==
    [][/\ \A t, u \in trials' : t.key = u.key => t = u
       /\ \A t \in trials \cap trials' :
            live'[t.key] # live[t.key] => HandleIntent(t.by) \/ MachineChanges]_vars

(* SPEC 3, rule 2: cfg_gen advances if and only if a setting in effect     *)
(* changed, whoever changed it: a write, a revert, a lost session or the   *)
(* machine.                                                                *)
GenFollowsSettings == [][gen' # gen <=> live' # live]_vars

(* 9.3 precondition: a conditional write is applied only to the settings   *)
(* its client had seen, whatever was tried, reverted or changed since.     *)
CasSeesNoChange ==
    [][\A c \in Clients : \A m \in wire[c] :
         (m.pre # NoGen /\ ApplyIntent(c, m)) => live = m.basis]_vars

(* "a duplicate id re-emits the stored ECHO and MUST NOT re-apply": within *)
(* the window the ring covers no intent of one session is applied twice.   *)
NeverReapplied == \A c \in Clients, i \in Ids : times[c][i] <= 1

(* As long as no client process has restarted, an ECHO answers the intent  *)
(* it was made for, however often and in whatever order intents arrive and *)
(* whichever way the session is resumed.                                   *)
EchoTruthfulInOneRun == restarts = 0 => truthful

(* "ECHO is mandatory and truthful": an ECHO answers the intent it was     *)
(* made for.                                                               *)
EchoIsTruthful == truthful
=============================================================================
