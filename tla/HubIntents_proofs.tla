-------------------------- MODULE HubIntents_proofs --------------------------
(***************************************************************************)
(* Theorems about HubIntents, for any number of clients, settings, ring    *)
(* and trial places and for every order in which intents arrive.           *)
(*                                                                         *)
(* BaselinesAreStored is inductive only together with the rule that a key  *)
(* is on one trial at a time: a revert restores "the" baseline of a key,   *)
(* and a second entry would leave its key out of step with storage.        *)
(***************************************************************************)
EXTENDS HubIntents, Integers, FiniteSetTheorems, TLAPS

OneTrial == \A t, u \in trials : t.key = u.key => t = u

SettingsOK ==
    /\ live \in [Keys -> Legal]
    /\ saved \in [Keys -> Legal]
    /\ gen \in Nat
    /\ trials \subseteq Trial
    /\ OneTrial
    /\ BaselinesAreStored

WireOK ==
    /\ wire \in [Clients -> SUBSET Intent]
    /\ nextId \in [Clients -> Nat \ {0}]

(* The inductive invariant *)
IInv == SettingsOK /\ WireOK

(* What one step may do to the settings *)
SettingsStep == (gen' # gen <=> live' # live) /\ gen' >= gen

------------------------------------------------------------------------------
(* endSessionTrials *)

(* Every key the session tries has exactly one entry, and its baseline is  *)
(* what storage holds.                                                     *)
LEMMA RestoredIsSaved ==
    ASSUME SettingsOK, NEW c \in Clients
    PROVE  /\ Restored(c) \in [Keys -> Legal]
           /\ \A k \in KeysTriedBy(c) : k \in Keys /\ Restored(c)[k] = saved[k]
           /\ \A k \in Keys \ KeysTriedBy(c) : Restored(c)[k] = live[k]
<1>1. \A k \in KeysTriedBy(c) :
         /\ k \in Keys
         /\ (CHOOSE t \in TrialsOf(c) : t.key = k).base = saved[k]
  <2> SUFFICES ASSUME NEW k \in KeysTriedBy(c)
               PROVE  k \in Keys /\ (CHOOSE t \in TrialsOf(c) : t.key = k).base = saved[k]
    OBVIOUS
  <2>1. PICK t \in TrialsOf(c) : t.key = k
    BY DEF KeysTriedBy
  <2>2. (CHOOSE u \in TrialsOf(c) : u.key = k) \in TrialsOf(c)
        /\ (CHOOSE u \in TrialsOf(c) : u.key = k).key = k
    BY <2>1
  <2>3. \A u \in TrialsOf(c) : u \in trials /\ u \in Trial
    BY DEF TrialsOf, SettingsOK
  <2>4. \A u \in trials : u.base = saved[u.key]
    BY DEF SettingsOK, BaselinesAreStored
  <2> QED
    BY <2>1, <2>2, <2>3, <2>4 DEF Trial
<1>2. saved \in [Keys -> Legal] /\ live \in [Keys -> Legal]
  BY DEF SettingsOK
<1> QED
  BY <1>1, <1>2 DEF Restored

(* A change of the settings in effect is a change of generation *)
LEMMA GenCounts ==
    ASSUME gen \in Nat, NEW new, live' = new, gen' = GenAfter(new)
    PROVE  gen' \in Nat /\ SettingsStep
BY DEF GenAfter, SettingsStep

LEMMA RevertKeeps ==
    ASSUME SettingsOK, NEW c \in Clients, RevertTrials(c)
    PROVE  SettingsOK' /\ SettingsStep
<1>1. /\ live' = Restored(c) /\ gen' = GenAfter(Restored(c))
      /\ trials' = trials \ TrialsOf(c) /\ saved' = saved
  BY DEF RevertTrials
<1>2. gen' \in Nat /\ SettingsStep
  BY <1>1, GenCounts DEF SettingsOK
<1>3. trials' \subseteq Trial /\ OneTrial'
  BY <1>1 DEF SettingsOK, OneTrial
<1>4. \A t \in trials' : t.base = saved'[t.key]
  BY <1>1 DEF SettingsOK, BaselinesAreStored
<1>5. ASSUME NEW k \in Keys, k \notin OnTrial'
      PROVE  live'[k] = saved'[k]
  <2>1. CASE k \in KeysTriedBy(c)
    BY <2>1, <1>1, RestoredIsSaved
  <2>2. CASE k \notin KeysTriedBy(c)
    <3>1. k \notin OnTrial
      BY <2>2, <1>5, <1>1 DEF OnTrial, KeysTriedBy
    <3> QED
      BY <2>2, <3>1, <1>1, RestoredIsSaved DEF SettingsOK, BaselinesAreStored
  <2> QED
    BY <2>1, <2>2
<1>6. live' \in [Keys -> Legal] /\ saved' \in [Keys -> Legal]
  BY <1>1, RestoredIsSaved DEF SettingsOK
<1> QED
  BY <1>2, <1>3, <1>4, <1>5, <1>6 DEF SettingsOK, BaselinesAreStored

LEMMA CommitKeeps ==
    ASSUME SettingsOK, NEW c \in Clients, CommitTrials(c)
    PROVE  SettingsOK' /\ SettingsStep
<1>1. /\ saved' = Persist(live, KeysTriedBy(c))
      /\ trials' = trials \ TrialsOf(c) /\ live' = live /\ gen' = gen
  BY DEF CommitTrials
<1>2. \A k \in Keys : saved'[k] = IF k \in KeysTriedBy(c) THEN live[k] ELSE saved[k]
  BY <1>1 DEF Persist
<1>3. saved' \in [Keys -> Legal]
  BY <1>1 DEF Persist, SettingsOK
<1>4. trials' \subseteq Trial /\ OneTrial'
  BY <1>1 DEF SettingsOK, OneTrial
<1>5. ASSUME NEW t \in trials'
      PROVE  t.base = saved'[t.key]
  <2>1. t \in trials /\ t \notin TrialsOf(c) /\ t.key \in Keys
    BY <1>1, <1>4 DEF Trial
  <2>2. t.key \notin KeysTriedBy(c)
    <3> SUFFICES ASSUME NEW u \in TrialsOf(c), u.key = t.key PROVE FALSE
      BY DEF KeysTriedBy
    <3> QED
      BY <2>1 DEF SettingsOK, OneTrial, TrialsOf
  <2> QED
    BY <2>1, <2>2, <1>2 DEF SettingsOK, BaselinesAreStored
<1>6. ASSUME NEW k \in Keys, k \notin OnTrial'
      PROVE  live'[k] = saved'[k]
  <2>1. k \in KeysTriedBy(c) \/ k \notin OnTrial
    BY <1>6, <1>1 DEF OnTrial, KeysTriedBy
  <2> QED
    BY <2>1, <1>1, <1>2 DEF SettingsOK, BaselinesAreStored
<1> QED
  BY <1>1, <1>3, <1>4, <1>5, <1>6 DEF SettingsOK, BaselinesAreStored, SettingsStep

------------------------------------------------------------------------------
(* handleIntent *)

LEMMA AppliedIsLegal ==
    ASSUME SettingsOK, NEW m \in Intent, NEW ks \in SUBSET DOMAIN m.value
    PROVE  /\ Applied(m, ks) \in [Keys -> Legal]
           /\ ks \subseteq Keys
           /\ \A k \in Keys \ ks : Applied(m, ks)[k] = live[k]
<1>1. PICK S \in SUBSET Keys : m.value \in [S -> Asked]
  BY DEF Intent
<1>2. \A k \in ks : k \in Keys /\ m.value[k] \in Nat
  BY <1>1, IntentConstants
<1>3. \A v \in Nat : Clamped(v) \in Legal
  BY IntentConstants DEF Clamped, Legal
<1> QED
  BY <1>2, <1>3 DEF Applied, SettingsOK

LEMMA TryKeeps ==
    ASSUME SettingsOK, NEW c \in Clients, NEW m \in Intent,
           KeysAreFree(c, m), TryWrite(c, m)
    PROVE  SettingsOK' /\ SettingsStep
<1>1. PICK ks \in SUBSET DOMAIN m.value :
         /\ live' = Applied(m, ks) /\ gen' = GenAfter(Applied(m, ks))
         /\ trials' = trials \cup Opened(c, ks)
  BY DEF TryWrite
<1>2. saved' = saved
  BY DEF TryWrite
<1>3. gen' \in Nat /\ SettingsStep
  BY <1>1, GenCounts DEF SettingsOK
<1>4. ks \subseteq Keys /\ live' \in [Keys -> Legal]
      /\ \A k \in Keys \ ks : live'[k] = live[k]
  BY <1>1, AppliedIsLegal
<1>5. \A t \in Opened(c, ks) :
         /\ t \in Trial /\ t.key \in ks /\ t.key \notin OnTrial
         /\ t = [by |-> c, key |-> t.key, base |-> live[t.key]]
  BY <1>4 DEF Opened, Trial, SettingsOK
<1>6. trials' \subseteq Trial
  BY <1>1, <1>5 DEF SettingsOK
<1>7. OneTrial'
  <2> SUFFICES ASSUME NEW t \in trials', NEW u \in trials', t.key = u.key PROVE t = u
    BY DEF OneTrial
  <2>1. CASE t \in trials /\ u \in trials
    BY <2>1 DEF SettingsOK, OneTrial
  <2>2. CASE t \in Opened(c, ks) /\ u \in Opened(c, ks)
    BY <2>2, <1>5
  <2>3. CASE t \in Opened(c, ks) /\ u \in trials
    BY <2>3, <1>5 DEF OnTrial
  <2>4. CASE t \in trials /\ u \in Opened(c, ks)
    BY <2>4, <1>5 DEF OnTrial
  <2> QED
    BY <2>1, <2>2, <2>3, <2>4, <1>1
<1>8. \A t \in trials' : t.base = saved'[t.key]
  <2> SUFFICES ASSUME NEW t \in trials' PROVE t.base = saved[t.key]
    BY <1>2
  <2>1. CASE t \in trials
    BY <2>1 DEF SettingsOK, BaselinesAreStored
  <2>2. CASE t \in Opened(c, ks)
    <3>1. t.base = live[t.key] /\ t.key \in Keys \ OnTrial
      BY <2>2, <1>5, <1>4
    <3> QED
      BY <3>1 DEF SettingsOK, BaselinesAreStored
  <2> QED
    BY <2>1, <2>2, <1>1
<1>9. ASSUME NEW k \in Keys, k \notin OnTrial'
      PROVE  live'[k] = saved'[k]
  <2>1. k \notin OnTrial
    BY <1>9, <1>1 DEF OnTrial
  <2>2. k \notin ks
    <3> SUFFICES ASSUME k \in ks PROVE FALSE
      OBVIOUS
    <3>1. [by |-> c, key |-> k, base |-> live[k]] \in trials'
      BY <2>1, <1>1 DEF Opened
    <3> QED
      BY <3>1, <1>9 DEF OnTrial
  <2> QED
    BY <2>1, <2>2, <1>2, <1>4 DEF SettingsOK, BaselinesAreStored
<1> QED
  BY <1>2, <1>3, <1>4, <1>6, <1>7, <1>8, <1>9 DEF SettingsOK, BaselinesAreStored

LEMMA DurableKeeps ==
    ASSUME SettingsOK, NEW c \in Clients, NEW m \in Intent,
           KeysAreFree(c, m), DurableWrite(c, m)
    PROVE  SettingsOK' /\ SettingsStep
<1>1. PICK ks \in SUBSET DOMAIN m.value :
         /\ live' = Applied(m, ks) /\ gen' = GenAfter(Applied(m, ks))
         /\ saved' = Persist(Applied(m, ks), Stores(c, m, ks))
         /\ trials' = {t \in TrialsOf(c) : t.key \notin ks} \cup (trials \ TrialsOf(c))
  BY DEF DurableWrite
<1>3. gen' \in Nat /\ SettingsStep
  BY <1>1, GenCounts DEF SettingsOK
<1>4. ks \subseteq Keys /\ live' \in [Keys -> Legal]
      /\ \A k \in Keys \ ks : live'[k] = live[k]
  BY <1>1, AppliedIsLegal
<1>5. saved' \in [Keys -> Legal]
      /\ \A k \in Keys : saved'[k] = IF k \in Stores(c, m, ks) THEN live'[k] ELSE saved[k]
  BY <1>1, <1>4 DEF Persist, SettingsOK
(* No key written is on anybody else's trial, so all of them leave the set *)
<1>6. \A t \in trials' : t \in trials /\ t \in Trial /\ t.key \notin ks
  <2> SUFFICES ASSUME NEW t \in trials' PROVE t \in trials /\ t \in Trial /\ t.key \notin ks
    OBVIOUS
  <2>1. t \in trials
    BY <1>1 DEF TrialsOf
  <2>2. CASE t \in TrialsOf(c)
    BY <2>1, <2>2, <1>1 DEF SettingsOK
  <2>3. CASE t \notin TrialsOf(c)
    <3>1. t.by # c
      BY <2>1, <2>3 DEF TrialsOf
    <3> QED
      BY <2>1, <3>1 DEF KeysAreFree, HeldByOther, SettingsOK
  <2> QED
    BY <2>2, <2>3
<1>7. trials' \subseteq Trial /\ OneTrial'
  BY <1>6 DEF SettingsOK, OneTrial
<1>8. ASSUME NEW t \in trials' PROVE t.base = saved'[t.key]
  <2>1. t \in trials /\ t.key \in Keys /\ t.key \notin Stores(c, m, ks)
    BY <1>6 DEF Stores, Trial
  <2> QED
    BY <2>1, <1>5 DEF SettingsOK, BaselinesAreStored
<1>9. ASSUME NEW k \in Keys, k \notin OnTrial'
      PROVE  live'[k] = saved'[k]
  <2>1. CASE k \in Stores(c, m, ks)
    BY <2>1, <1>5
  <2>2. CASE k \notin Stores(c, m, ks)
    <3>1. live'[k] = live[k]
      BY <2>2, <1>1, <1>4 DEF Stores
    <3>2. k \notin OnTrial
      <4> SUFFICES ASSUME NEW t \in trials, t.key = k PROVE FALSE
        BY DEF OnTrial
      <4>1. t \notin trials'
        BY <1>9 DEF OnTrial
      <4>2. t \in TrialsOf(c) /\ k \in ks
        BY <4>1, <1>1
      <4> QED
        BY <4>2, <2>2 DEF Stores, KeysTriedBy
    <3> QED
      BY <3>1, <3>2, <2>2, <1>5 DEF SettingsOK, BaselinesAreStored
  <2> QED
    BY <2>1, <2>2
<1> QED
  BY <1>3, <1>4, <1>5, <1>7, <1>8, <1>9 DEF SettingsOK, BaselinesAreStored

LEMMA ApplyKeeps ==
    ASSUME SettingsOK, NEW c \in Clients, NEW m \in Intent, ApplyIntent(c, m)
    PROVE  SettingsOK' /\ SettingsStep
<1>1. CASE KeysAreFree(c, m) /\ TryWrite(c, m)
  BY <1>1, TryKeeps
<1>2. CASE KeysAreFree(c, m) /\ DurableWrite(c, m)
  BY <1>2, DurableKeeps
<1>3. CASE TrialOp(c, m)
  BY <1>3, CommitKeeps, RevertKeeps DEF TrialOp
<1> QED
  BY <1>1, <1>2, <1>3 DEF ApplyIntent

------------------------------------------------------------------------------
(* Who moves a key on trial *)

(* What the end of a session restores is on no trial any more *)
LEMMA RevertSparesTrials ==
    ASSUME SettingsOK, NEW c \in Clients, RevertTrials(c)
    PROVE  \A t \in trials \cap trials' : live'[t.key] = live[t.key]
<1> SUFFICES ASSUME NEW t \in trials \cap trials' PROVE live'[t.key] = live[t.key]
  OBVIOUS
<1>1. t \notin TrialsOf(c) /\ live' = Restored(c)
  BY DEF RevertTrials
<1>2. t.key \in Keys
  BY DEF SettingsOK, Trial
<1>3. t.key \notin KeysTriedBy(c)
  BY <1>1 DEF KeysTriedBy, TrialsOf, SettingsOK, OneTrial
<1> QED
  BY <1>1, <1>2, <1>3, RestoredIsSaved

(* An intent moves no key that somebody else tries *)
LEMMA ApplySparesOthers ==
    ASSUME SettingsOK, NEW c \in Clients, NEW m \in Intent, ApplyIntent(c, m),
           NEW t \in trials \cap trials', t.by # c
    PROVE  live'[t.key] = live[t.key]
<1>1. t.key \in Keys
  BY DEF SettingsOK, Trial
<1>2. CASE KeysAreFree(c, m) /\ (TryWrite(c, m) \/ DurableWrite(c, m))
  <2>1. PICK ks \in SUBSET DOMAIN m.value : live' = Applied(m, ks)
    BY <1>2 DEF TryWrite, DurableWrite
  <2>2. t.key \notin ks
    BY <1>2, <2>1 DEF KeysAreFree, HeldByOther
  <2> QED
    BY <1>1, <2>1, <2>2, AppliedIsLegal
<1>3. CASE TrialOp(c, m)
  BY <1>3, RevertSparesTrials DEF TrialOp, CommitTrials
<1> QED
  BY <1>2, <1>3 DEF ApplyIntent

------------------------------------------------------------------------------
(* The steps *)

(* What every step of the module does *)
GoodStep ==
    /\ IInv'
    /\ SettingsStep
    /\ OneTrial'
    /\ \A t \in trials \cap trials' :
         live'[t.key] # live[t.key] => HandleIntent(t.by) \/ MachineChanges

LEMMA SettingsUnchanged ==
    ASSUME IInv, UNCHANGED settings, WireOK'
    PROVE  GoodStep
<1>1. live' = live /\ saved' = saved /\ gen' = gen /\ trials' = trials
  BY DEF settings
<1> QED
  BY <1>1 DEF GoodStep, IInv, SettingsOK, OneTrial, BaselinesAreStored, OnTrial,
              SettingsStep

LEMMA RevertingStep ==
    ASSUME IInv, NEW c \in Clients, RevertTrials(c), WireOK'
    PROVE  GoodStep
<1>1. SettingsOK' /\ SettingsStep
  BY RevertKeeps DEF IInv
<1>2. \A t \in trials \cap trials' : live'[t.key] = live[t.key]
  BY RevertSparesTrials DEF IInv
<1> QED
  BY <1>1, <1>2 DEF GoodStep, IInv, SettingsOK

(* The intent a client sends carries its next id and, when it is           *)
(* conditional, the generation and the settings of this moment.            *)
LEMMA SendShape ==
    ASSUME IInv, NEW c \in Clients, SendIntent(c)
    PROVE  \E m \in Intent :
              /\ m.id = nextId[c]
              /\ m.pre # NoGen => m.pre = gen /\ m.basis = live
              /\ wire' = [wire EXCEPT ![c] = InWindow(@ \cup {m}, nextId[c] + 1)]
<1>1. PICK kind \in {"durable", "trial"} \cup Ops, cas \in Conditional :
      \E S \in IF kind \in Ops THEN {{}} ELSE SUBSET Keys \ {{}} :
      \E value \in [S -> Asked] :
         wire' = [wire EXCEPT ![c] = InWindow(@ \cup
                    {[id |-> nextId[c], kind |-> kind, value |-> value,
                      pre |-> IF cas THEN gen ELSE NoGen,
                      basis |-> IF cas THEN live ELSE [k \in Keys |-> 0]]},
                    nextId[c] + 1)]
  BY DEF SendIntent
<1>2. PICK S \in IF kind \in Ops THEN {{}} ELSE SUBSET Keys \ {{}} :
      \E value \in [S -> Asked] :
         wire' = [wire EXCEPT ![c] = InWindow(@ \cup
                    {[id |-> nextId[c], kind |-> kind, value |-> value,
                      pre |-> IF cas THEN gen ELSE NoGen,
                      basis |-> IF cas THEN live ELSE [k \in Keys |-> 0]]},
                    nextId[c] + 1)]
  BY <1>1
<1>3. PICK value \in [S -> Asked] :
         wire' = [wire EXCEPT ![c] = InWindow(@ \cup
                    {[id |-> nextId[c], kind |-> kind, value |-> value,
                      pre |-> IF cas THEN gen ELSE NoGen,
                      basis |-> IF cas THEN live ELSE [k \in Keys |-> 0]]},
                    nextId[c] + 1)]
  BY <1>2
<1> DEFINE m == [id |-> nextId[c], kind |-> kind, value |-> value,
                 pre |-> IF cas THEN gen ELSE NoGen,
                 basis |-> IF cas THEN live ELSE [k \in Keys |-> 0]]
<1>4. m \in Intent
  <2>1. nextId[c] \in Ids
    BY DEF SendIntent, IInv, WireOK, Ids
  <2>2. S \in SUBSET Keys
    OBVIOUS
  <2>3. value \in UNION {[T -> Asked] : T \in SUBSET Keys}
    BY <2>2, <1>3
  <2>4. (IF cas THEN gen ELSE NoGen) \in Nat \cup {NoGen}
    BY DEF IInv, SettingsOK
  <2>5. [k \in Keys |-> 0] \in [Keys -> Legal]
    BY IntentConstants DEF Legal
  <2>6. (IF cas THEN live ELSE [k \in Keys |-> 0]) \in [Keys -> Legal]
    BY <2>5 DEF IInv, SettingsOK
  <2> QED
    BY <2>1, <2>3, <2>4, <2>6 DEF Intent
<1>5. wire' = [wire EXCEPT ![c] = InWindow(@ \cup {m}, nextId[c] + 1)]
  BY <1>3
<1>6. m.id = nextId[c] /\ (m.pre # NoGen => m.pre = gen /\ m.basis = live)
  OBVIOUS
<1> HIDE DEF m
<1> QED
  BY <1>4, <1>5, <1>6

LEMMA SendIntentKeeps ==
    ASSUME IInv, NEW c \in Clients, SendIntent(c)
    PROVE  GoodStep
<1>1. PICK m \in Intent :
         wire' = [wire EXCEPT ![c] = InWindow(@ \cup {m}, nextId[c] + 1)]
  BY SendShape
<1>2. \A ms \in SUBSET Intent : InWindow(ms, nextId[c] + 1) \in SUBSET Intent
  BY DEF InWindow
<1>3. wire' \in [Clients -> SUBSET Intent]
  BY <1>1, <1>2 DEF IInv, WireOK
<1>4. nextId' \in [Clients -> Nat \ {0}]
  BY DEF SendIntent, IInv, WireOK
<1>5. UNCHANGED settings
  BY DEF SendIntent
<1> QED
  BY <1>3, <1>4, <1>5, SettingsUnchanged DEF WireOK

LEMMA HandleIntentKeeps ==
    ASSUME IInv, NEW c \in Clients, HandleIntent(c)
    PROVE  GoodStep
<1>1. PICK m \in wire[c] :
         /\ RefuseIntent(c, m) \/ EchoStored(c, m) \/ ApplyIntent(c, m)
         /\ \E again \in Repeats :
              wire' = [wire EXCEPT ![c] = IF again THEN @ ELSE @ \ {m}]
  BY DEF HandleIntent
<1>2. m \in Intent /\ WireOK'
  BY <1>1 DEF IInv, WireOK, HandleIntent
<1>3. CASE RefuseIntent(c, m) \/ EchoStored(c, m)
  BY <1>2, <1>3, SettingsUnchanged DEF RefuseIntent, EchoStored, settings
<1>4. CASE ApplyIntent(c, m)
  <2>1. SettingsOK' /\ SettingsStep
    BY <1>2, <1>4, ApplyKeeps DEF IInv
  <2>2. ASSUME NEW t \in trials \cap trials', live'[t.key] # live[t.key]
        PROVE  HandleIntent(t.by)
    <3>1. t.by = c
      BY <2>2, <1>2, <1>4, ApplySparesOthers DEF IInv
    <3> QED
      BY <3>1
  <2> QED
    BY <2>1, <2>2, <1>2 DEF GoodStep, IInv, SettingsOK
<1> QED
  BY <1>1, <1>3, <1>4

LEMMA SessionStepsKeep ==
    ASSUME IInv, NEW c \in Clients,
           LoseLink(c) \/ Restart(c) \/ Hello(c) \/ GoStale(c) \/ EndSession(c)
    PROVE  GoodStep
<1>1. WireOK'
  BY DEF IInv, WireOK, LoseLink, Restart, Hello, GoStale, EndSession
<1>2. UNCHANGED settings \/ RevertTrials(c)
  BY DEF settings, LoseLink, Restart, Hello, GoStale, EndSession
<1> QED
  BY <1>1, <1>2, SettingsUnchanged, RevertingStep

LEMMA MachineKeeps ==
    ASSUME IInv, MachineChanges
    PROVE  GoodStep
<1>1. PICK k \in Keys, v \in Legal :
         /\ v # live[k]
         /\ live' = [live EXCEPT ![k] = v]
         /\ saved' = IF k \in OnTrial THEN saved ELSE [saved EXCEPT ![k] = v]
  BY DEF MachineChanges
<1>2. gen' = gen + 1 /\ trials' = trials /\ WireOK'
  BY DEF MachineChanges, IInv, WireOK
<1>3. live' \in [Keys -> Legal] /\ saved' \in [Keys -> Legal] /\ gen' \in Nat
      /\ trials' \subseteq Trial /\ OneTrial'
  BY <1>1, <1>2 DEF IInv, SettingsOK, OneTrial
<1>4. SettingsStep
  BY <1>1, <1>2 DEF SettingsStep, IInv, SettingsOK
<1>5. \A t \in trials' : t.base = saved'[t.key]
  <2> SUFFICES ASSUME NEW t \in trials PROVE t.base = saved'[t.key]
    BY <1>2
  <2>1. t.key \in OnTrial /\ t.key \in Keys
    BY DEF OnTrial, IInv, SettingsOK, Trial
  <2>2. saved'[t.key] = saved[t.key]
    BY <1>1, <2>1 DEF IInv, SettingsOK
  <2> QED
    BY <2>2 DEF IInv, SettingsOK, BaselinesAreStored
<1>6. \A x \in Keys \ OnTrial' : live'[x] = saved'[x]
  BY <1>1, <1>2 DEF IInv, SettingsOK, BaselinesAreStored, OnTrial
<1>7. BaselinesAreStored'
  BY <1>5, <1>6 DEF BaselinesAreStored
<1> QED
  BY <1>2, <1>3, <1>4, <1>7 DEF GoodStep, IInv, SettingsOK

LEMMA NextKeeps ==
    ASSUME IInv, [Next]_vars
    PROVE  IInv' /\ (Next => GoodStep)
<1>1. CASE Next
  BY <1>1, SendIntentKeeps, HandleIntentKeeps, SessionStepsKeep, MachineKeeps
  DEF Next, GoodStep
<1>2. CASE UNCHANGED vars
  <2>1. UNCHANGED settings /\ WireOK'
    BY <1>2 DEF vars, settings, IInv, WireOK
  <2>2. GoodStep
    BY <2>1, SettingsUnchanged
  <2> QED
    BY <2>2 DEF GoodStep
<1> QED
  BY <1>1, <1>2

LEMMA InitHolds == Init => IInv
<1> SUFFICES ASSUME Init PROVE IInv
  OBVIOUS
<1>1. 0 \in Legal
  BY IntentConstants DEF Legal
<1> QED
  BY <1>1 DEF Init, IInv, SettingsOK, WireOK, OneTrial, BaselinesAreStored, OnTrial

LEMMA IInvHolds == Spec => []IInv
<1>1. Init => IInv
  BY InitHolds
<1>2. IInv /\ [Next]_vars => IInv'
  BY NextKeeps
<1> QED
  BY <1>1, <1>2, PTL DEF Spec

------------------------------------------------------------------------------
(* Whatever is tried, committed, reverted or lost, the pre-trial value of  *)
(* a key on trial is the stored one and every other setting is in effect   *)
(* as stored (handleIntent, endSessionTrials).                             *)
THEOREM BaselinesHold == Spec => []BaselinesAreStored
<1>1. IInv => BaselinesAreStored
  BY DEF IInv, SettingsOK
<1> QED
  BY <1>1, IInvHolds, PTL

(* cfg_gen moves exactly when a setting in effect does, in every handler   *)
(* that applies, restores or commits one.                                  *)
THEOREM GenHolds == Spec => GenFollowsSettings
<1>1. IInv /\ [Next]_vars => [gen' # gen <=> live' # live]_vars
  BY NextKeeps DEF GoodStep, SettingsStep
<1> QED
  BY <1>1, IInvHolds, PTL DEF Spec, GenFollowsSettings

(* A key is on one trial at a time, and only its session or the machine    *)
(* moves it while that lasts.                                              *)
THEOREM TrialsHold == Spec => TrialIsExclusive
<1> DEFINE A == /\ \A t, u \in trials' : t.key = u.key => t = u
                /\ \A t \in trials \cap trials' :
                     live'[t.key] # live[t.key] => HandleIntent(t.by) \/ MachineChanges
<1>1. IInv /\ [Next]_vars => [A]_vars
  BY NextKeeps DEF GoodStep, OneTrial
<1> QED
  BY <1>1, IInvHolds, PTL DEF Spec, TrialIsExclusive

------------------------------------------------------------------------------
(* The ring, the wire and the ids of one client                            *)

Entry == [id : Ids, of : Intent]

BookOK ==
    /\ ring \in [Clients -> Seq(Entry)]
    /\ times \in [Clients -> [Ids -> 0 .. 2]]
    /\ restarts \in Nat /\ truthful \in BOOLEAN

(* What a conditional write was conditioned on is not newer than the       *)
(* settings, and is the settings while the generation has not moved.       *)
CasOK ==
    \A c \in Clients : \A m \in wire[c] : m.pre # NoGen =>
       m.pre <= gen /\ (m.pre = gen => live = m.basis)

(* One run of a client names each of its intents once, and the ring has    *)
(* them under their names.                                                 *)
Named(c) ==
    /\ \A m \in wire[c] : m.id < nextId[c]
    /\ \A m, k \in wire[c] : m.id = k.id => m = k
    /\ \A i \in 1 .. Len(ring[c]) :
         /\ ring[c][i].id < nextId[c]
         /\ \A m \in wire[c] : m.id = ring[c][i].id => m = ring[c][i].of

NamesOK == restarts = 0 => truthful /\ \A c \in Clients : Named(c)

BookInv == IInv /\ BookOK /\ CasOK /\ NamesOK

------------------------------------------------------------------------------
(* IntentRing                                                              *)

(* How many entries a full ring gives up for a new one *)
Shift(r) == IF Len(r) = RingDepth THEN 1 ELSE 0

(* The ring s is the ring r with the answer to m at its end, and without its *)
(* oldest one if r was full.                                                 *)
Pushed(r, id, m, s) ==
    /\ Len(s) = Len(r) + 1 - Shift(r) /\ Len(s) \in Nat \ {0}
    /\ \A p \in 1 .. (Len(s) - 1) :
         p + Shift(r) \in 1 .. Len(r) /\ s[p] = r[p + Shift(r)]
    /\ s[Len(s)].id = id /\ s[Len(s)].of = m

(* Store pushes the answer of an ECHO that fits and keeps the ring otherwise *)
LEMMA StoreShape ==
    ASSUME NEW r \in Seq(Entry), NEW id \in Ids, NEW m \in Intent, NEW fits \in BOOLEAN
    PROVE  /\ Store(r, [id |-> id, of |-> m, fits |-> fits]) \in Seq(Entry)
           /\ ~fits => Store(r, [id |-> id, of |-> m, fits |-> fits]) = r
           /\ fits => Pushed(r, id, m, Store(r, [id |-> id, of |-> m, fits |-> fits]))
<1> DEFINE e == [id |-> id, of |-> m, fits |-> fits]
           x == [id |-> id, of |-> m]
           a == IF Len(r) = RingDepth THEN Tail(r) ELSE r
<1>1. x \in Entry /\ x.id = id /\ x.of = m
  BY DEF Entry
<1>2. Store(r, e) = IF fits THEN Append(a, x) ELSE r
  BY DEF Store
<1>3. /\ a \in Seq(Entry) /\ Len(a) = Len(r) - Shift(r)
      /\ \A p \in 1 .. Len(a) : p + Shift(r) \in 1 .. Len(r) /\ a[p] = r[p + Shift(r)]
  <2>1. CASE Len(r) = RingDepth
    BY <2>1, IntentConstants DEF Shift
  <2>2. CASE Len(r) # RingDepth
    BY <2>2 DEF Shift
  <2> QED
    BY <2>1, <2>2
<1> HIDE DEF x, a
<1>4. /\ Append(a, x) \in Seq(Entry) /\ Len(Append(a, x)) = Len(a) + 1
      /\ \A p \in 1 .. Len(a) : Append(a, x)[p] = a[p]
      /\ Append(a, x)[Len(a) + 1] = x
  BY <1>1, <1>3
<1> DEFINE s == Store(r, e)
<1>5. CASE fits
  <2>1. s = Append(a, x)
    BY <1>2, <1>5
  <2> HIDE DEF s
  <2>2. Len(s) = Len(a) + 1 /\ Len(a) \in Nat /\ Len(s) - 1 = Len(a) /\ Shift(r) \in {0, 1}
    BY <2>1, <1>3, <1>4 DEF Shift
  <2>3. Len(s) = Len(r) + 1 - Shift(r) /\ Len(s) \in Nat \ {0}
    BY <2>2, <1>3
  <2>4. \A p \in 1 .. (Len(s) - 1) : p + Shift(r) \in 1 .. Len(r) /\ s[p] = r[p + Shift(r)]
    BY <2>1, <2>2, <1>3, <1>4
  <2>5. s \in Seq(Entry) /\ s[Len(s)].id = id /\ s[Len(s)].of = m
    BY <2>1, <2>2, <1>1, <1>4
  <2>6. Pushed(r, id, m, s)
    BY <2>3, <2>4, <2>5 DEF Pushed
  <2> QED
    BY <1>5, <2>5, <2>6 DEF s
<1>6. CASE ~fits
  BY <1>2, <1>6
<1> QED
  BY <1>5, <1>6

------------------------------------------------------------------------------
(* The steps, once more, for the book of intents                           *)

(* Intents that are still underway stay conditioned as they were *)
LEMMA CasLess ==
    ASSUME IInv, IInv', CasOK, SettingsStep,
           NEW c \in Clients, NEW m \in wire[c], m.pre # NoGen
    PROVE  m.pre <= gen' /\ (m.pre = gen' => live' = m.basis)
<1>1. m.pre \in Nat /\ gen \in Nat /\ gen' \in Nat
  BY DEF IInv, WireOK, SettingsOK, Intent
<1>2. m.pre <= gen /\ (m.pre = gen => live = m.basis) /\ (gen' # gen <=> live' # live) /\ gen' >= gen
  BY DEF CasOK, SettingsStep
<1>3. CASE gen' = gen
  BY <1>2, <1>3
<1>4. CASE gen' # gen
  <2> QED
    BY <1>1, <1>2, <1>4
<1> QED
  BY <1>3, <1>4

LEMMA CasStep ==
    ASSUME IInv, IInv', CasOK, SettingsStep, \A c \in Clients : wire'[c] \subseteq wire[c]
    PROVE  CasOK'
BY CasLess DEF CasOK

(* A step that names no intent, and forgets rings as a whole *)
LEMMA LessNamed ==
    ASSUME NamesOK, nextId' = nextId, restarts' = restarts,
           restarts = 0 => truthful' = truthful,
           \A c \in Clients : wire'[c] \subseteq wire[c],
           \A c \in Clients : ring'[c] = ring[c] \/ ring'[c] = <<>>
    PROVE  NamesOK'
<1> SUFFICES ASSUME restarts = 0, NEW c \in Clients PROVE Named(c)'
  BY DEF NamesOK
<1>1. Named(c) /\ nextId'[c] = nextId[c] /\ wire'[c] \subseteq wire[c]
  BY DEF NamesOK
<1>2. \A m \in wire'[c] : m.id < nextId'[c]
  BY <1>1 DEF Named
<1>3. \A m, k \in wire'[c] : m.id = k.id => m = k
  BY <1>1 DEF Named
<1>4. \A i \in 1 .. Len(ring'[c]) :
         /\ ring'[c][i].id < nextId'[c]
         /\ \A m \in wire'[c] : m.id = ring'[c][i].id => m = ring'[c][i].of
  <2>1. CASE ring'[c] = ring[c]
    BY <2>1, <1>1 DEF Named
  <2>2. CASE ring'[c] = <<>>
    BY <2>2
  <2> QED
    BY <2>1, <2>2
<1> QED
  BY <1>2, <1>3, <1>4 DEF Named

LEMMA SendBook ==
    ASSUME BookInv, NEW c \in Clients, SendIntent(c)
    PROVE  BookInv'
<1>0. IInv' /\ SettingsStep
  BY SendIntentKeeps DEF GoodStep, BookInv
<1>1. PICK m \in Intent :
         /\ m.id = nextId[c]
         /\ m.pre # NoGen => m.pre = gen /\ m.basis = live
         /\ wire' = [wire EXCEPT ![c] = InWindow(@ \cup {m}, nextId[c] + 1)]
  BY SendShape DEF BookInv
<1>2. /\ nextId' = [nextId EXCEPT ![c] = @ + 1]
      /\ UNCHANGED <<settings, ring, times, truthful, restarts>>
  BY DEF SendIntent
<1>3. BookOK'
  BY <1>2 DEF BookInv, BookOK
<1>4. /\ wire'[c] \subseteq wire[c] \cup {m}
      /\ \A d \in Clients : d # c => wire'[d] = wire[d] /\ nextId'[d] = nextId[d]
      /\ nextId'[c] = nextId[c] + 1
  BY <1>1, <1>2 DEF BookInv, IInv, WireOK, InWindow
<1>5. CasOK'
  <2>1. live' = live /\ gen' = gen
    BY <1>2 DEF settings
  <2> SUFFICES ASSUME NEW d \in Clients, NEW k \in wire'[d], k.pre # NoGen
               PROVE  k.pre <= gen /\ (k.pre = gen => live = k.basis)
    BY <2>1 DEF CasOK
  <2>2. CASE k \in wire[d]
    BY <2>2 DEF BookInv, CasOK
  <2>3. CASE k = m
    BY <2>3, <1>1 DEF BookInv, IInv, SettingsOK
  <2> QED
    BY <2>2, <2>3, <1>4
<1>6. NamesOK'
  <2> SUFFICES ASSUME restarts = 0, NEW d \in Clients PROVE Named(d)'
    BY <1>2 DEF NamesOK, BookInv
  <2>1. Named(d) /\ ring'[d] = ring[d]
    BY <1>2 DEF BookInv, NamesOK
  <2>2. CASE d # c
    BY <2>1, <2>2, <1>4 DEF Named
  <2>3. CASE d = c
    <3>1. nextId[c] \in Nat /\ nextId'[c] = nextId[c] + 1
      BY <1>4 DEF BookInv, IInv, WireOK
    <3>2. \A k \in wire[c] : k \in Intent /\ k.id \in Nat /\ k.id < nextId[c]
      BY <2>1, <2>3 DEF Named, BookInv, IInv, WireOK, Intent, Ids
    <3>3. \A i \in 1 .. Len(ring[c]) : ring[c][i].id \in Nat /\ ring[c][i].id < nextId[c]
      <4>1. ring[c] \in Seq(Entry)
        BY DEF BookInv, BookOK
      <4>2. \A i \in 1 .. Len(ring[c]) : ring[c][i] \in Entry
        BY <4>1
      <4>3. \A x \in Entry : x.id \in Nat
        BY DEF Entry, Ids
      <4> QED
        BY <2>1, <2>3, <4>2, <4>3 DEF Named
    <3>4. \A k \in wire'[c] : k.id < nextId'[c]
      BY <3>1, <3>2, <1>1, <1>4
    <3>5. \A k, l \in wire'[c] : k.id = l.id => k = l
      BY <2>1, <2>3, <3>1, <3>2, <1>1, <1>4 DEF Named
    <3>6. \A i \in 1 .. Len(ring[c]) :
             /\ ring[c][i].id < nextId'[c]
             /\ \A k \in wire'[c] : k.id = ring[c][i].id => k = ring[c][i].of
      <4> SUFFICES ASSUME NEW i \in 1 .. Len(ring[c])
                   PROVE  /\ ring[c][i].id < nextId'[c]
                          /\ \A k \in wire'[c] : k.id = ring[c][i].id => k = ring[c][i].of
        OBVIOUS
      <4>1. ring[c][i].id < nextId'[c] /\ ring[c][i].id # m.id
        BY <3>1, <3>3, <1>1
      <4>2. \A k \in wire[c] : k.id = ring[c][i].id => k = ring[c][i].of
        BY <2>1, <2>3 DEF Named
      <4> QED
        BY <4>1, <4>2, <1>4
    <3> QED
      BY <2>1, <2>3, <3>4, <3>5, <3>6 DEF Named
  <2> QED
    BY <2>2, <2>3
<1> QED
  BY <1>0, <1>3, <1>5, <1>6 DEF BookInv

LEMMA EchoShape ==
    ASSUME BookOK, NEW c \in Clients, NEW m \in Intent, Echo(c, m), restarts' = restarts
    PROVE  /\ BookOK'
           /\ truthful' = truthful
           /\ \A d \in Clients : d # c => ring'[d] = ring[d] /\ times'[d] = times[d]
           /\ times'[c][m.id] = (IF times[c][m.id] = 2 THEN 2 ELSE times[c][m.id] + 1)
           /\ \A i \in Ids : i # m.id => times'[c][i] = times[c][i]
           /\ \E fits \in EchoFits :
                ring'[c] = Store(ring[c], [id |-> m.id, of |-> m, fits |-> fits])
<1>0. m.id \in Ids /\ EchoFits \subseteq BOOLEAN
  BY IntentConstants DEF Intent
<1>1. PICK fits \in EchoFits :
         ring' = [ring EXCEPT ![c] = Store(@, [id |-> m.id, of |-> m, fits |-> fits])]
  BY DEF Echo
<1>2. /\ times' = [times EXCEPT ![c][m.id] = IF @ = 2 THEN 2 ELSE @ + 1]
      /\ truthful' = (truthful /\ m = m)
  BY DEF Echo, Answered
<1> DEFINE s == Store(ring[c], [id |-> m.id, of |-> m, fits |-> fits])
<1>3. s \in Seq(Entry)
  BY <1>0, StoreShape DEF BookOK
<1>4. /\ ring' \in [Clients -> Seq(Entry)] /\ ring'[c] = s
      /\ \A d \in Clients : d # c => ring'[d] = ring[d]
  BY <1>1, <1>3 DEF BookOK
<1>5. /\ times' \in [Clients -> [Ids -> 0 .. 2]]
      /\ \A d \in Clients : d # c => times'[d] = times[d]
      /\ times'[c][m.id] = (IF times[c][m.id] = 2 THEN 2 ELSE times[c][m.id] + 1)
      /\ \A i \in Ids : i # m.id => times'[c][i] = times[c][i]
  <2> DEFINE v == IF times[c][m.id] = 2 THEN 2 ELSE times[c][m.id] + 1
             b == [times[c] EXCEPT ![m.id] = v]
  <2>1. times' = [times EXCEPT ![c] = b]
    BY <1>2, Zenon
  <2>2. times \in [Clients -> [Ids -> 0 .. 2]] /\ v \in 0 .. 2
    <3>1. times \in [Clients -> [Ids -> 0 .. 2]]
      BY DEF BookOK
    <3>2. times[c][m.id] \in 0 .. 2
      BY <1>0, <3>1
    <3> QED
      BY <3>1, <3>2
  <2> HIDE DEF v
  <2>3. b \in [Ids -> 0 .. 2] /\ b[m.id] = v /\ \A i \in Ids : i # m.id => b[i] = times[c][i]
    BY <1>0, <2>2
  <2> HIDE DEF b
  <2>4. QED
    BY <2>1, <2>2, <2>3 DEF v
<1>6. truthful' = truthful
  BY <1>2 DEF BookOK
<1> QED
  BY <1>1, <1>4, <1>5, <1>6 DEF BookOK

(* handleIntent stores what it answers under the name the intent has *)
LEMMA ApplyNames ==
    ASSUME IInv, BookOK, NamesOK, NEW c \in Clients, NEW m \in wire[c], Echo(c, m),
           nextId' = nextId, restarts' = restarts,
           \A d \in Clients : wire'[d] \subseteq wire[d]
    PROVE  NamesOK'
<1>0. m \in Intent /\ m.id \in Ids
  BY DEF IInv, WireOK, Intent
<1>1. /\ truthful' = truthful
      /\ \A d \in Clients : d # c => ring'[d] = ring[d]
  BY <1>0, EchoShape
<1>2. PICK fits \in EchoFits :
         ring'[c] = Store(ring[c], [id |-> m.id, of |-> m, fits |-> fits])
  BY <1>0, EchoShape
<1> SUFFICES ASSUME restarts = 0, NEW d \in Clients PROVE Named(d)'
  BY <1>1 DEF NamesOK
<1>3. Named(d) /\ nextId'[d] = nextId[d] /\ wire'[d] \subseteq wire[d]
  BY DEF NamesOK
<1>4. /\ \A k \in wire'[d] : k.id < nextId'[d]
      /\ \A k, l \in wire'[d] : k.id = l.id => k = l
  BY <1>3 DEF Named
<1>5. \A i \in 1 .. Len(ring'[d]) :
         \/ \E j \in 1 .. Len(ring[d]) : ring'[d][i] = ring[d][j]
         \/ d = c /\ ring'[d][i].id = m.id /\ ring'[d][i].of = m
  <2>1. CASE d # c
    BY <2>1, <1>1
  <2>2. CASE d = c
    <3>1. ring[c] \in Seq(Entry) /\ fits \in BOOLEAN
      BY IntentConstants DEF BookOK
    <3> DEFINE s == Store(ring[c], [id |-> m.id, of |-> m, fits |-> fits])
    <3>2. /\ ~fits => s = ring[c]
          /\ fits => Pushed(ring[c], m.id, m, s)
      BY <3>1, <1>0, StoreShape
    <3>3. ring'[c] = s
      BY <1>2
    <3> HIDE DEF s
    <3>4. CASE fits
      <4>1. \A i \in 1 .. Len(s) : i \in 1 .. (Len(s) - 1) \/ i = Len(s)
        BY <3>2, <3>4 DEF Pushed
      <4> QED
        BY <3>2, <3>3, <3>4, <4>1, <2>2 DEF Pushed
    <3>5. CASE ~fits
      BY <3>2, <3>3, <3>5, <2>2
    <3> QED
      BY <3>4, <3>5
  <2> QED
    BY <2>1, <2>2
<1>6. \A i \in 1 .. Len(ring'[d]) :
         /\ ring'[d][i].id < nextId'[d]
         /\ \A k \in wire'[d] : k.id = ring'[d][i].id => k = ring'[d][i].of
  <2> SUFFICES ASSUME NEW i \in 1 .. Len(ring'[d])
               PROVE  /\ ring'[d][i].id < nextId'[d]
                      /\ \A k \in wire'[d] : k.id = ring'[d][i].id => k = ring'[d][i].of
    OBVIOUS
  <2>1. CASE \E j \in 1 .. Len(ring[d]) : ring'[d][i] = ring[d][j]
    BY <2>1, <1>3 DEF Named
  <2>2. CASE d = c /\ ring'[d][i].id = m.id /\ ring'[d][i].of = m
    BY <2>2, <1>3 DEF Named
  <2> QED
    BY <2>1, <2>2, <1>5
<1> QED
  BY <1>4, <1>6 DEF Named

LEMMA HandleBook ==
    ASSUME BookInv, NEW c \in Clients, HandleIntent(c)
    PROVE  BookInv'
<1>0. IInv' /\ SettingsStep
  BY HandleIntentKeeps DEF GoodStep, BookInv
<1>1. PICK m \in wire[c] :
         /\ RefuseIntent(c, m) \/ EchoStored(c, m) \/ ApplyIntent(c, m)
         /\ \E again \in Repeats :
              wire' = [wire EXCEPT ![c] = IF again THEN @ ELSE @ \ {m}]
  BY DEF HandleIntent
<1>2. nextId' = nextId /\ restarts' = restarts /\ \A d \in Clients : wire'[d] \subseteq wire[d]
  BY <1>1 DEF HandleIntent, BookInv, IInv, WireOK
<1>3. m \in Intent
  BY DEF BookInv, IInv, WireOK
<1>4. CasOK'
  BY <1>0, <1>2, CasStep DEF BookInv
<1>5. CASE RefuseIntent(c, m)
  <2>1. UNCHANGED <<ring, times, truthful>>
    BY <1>5 DEF RefuseIntent
  <2>2. BookOK'
    BY <1>2, <2>1 DEF BookInv, BookOK
  <2>3. NamesOK'
    BY <1>2, <2>1, LessNamed DEF BookInv
  <2> QED
    BY <1>0, <1>4, <2>2, <2>3 DEF BookInv
<1>6. CASE EchoStored(c, m)
  <2>1. PICK i \in 1 .. Len(ring[c]) : ring[c][i].id = m.id /\ truthful' = (truthful /\ m = ring[c][i].of)
    BY <1>6 DEF EchoStored, Stored, Answered
  <2>2. UNCHANGED <<ring, times>>
    BY <1>6 DEF EchoStored
  <2>3. truthful' \in BOOLEAN
    BY <2>1
  <2>4. BookOK'
    BY <1>2, <2>2, <2>3 DEF BookInv, BookOK
  <2>5. restarts = 0 => truthful' = truthful
    BY <2>1 DEF BookInv, NamesOK, Named, BookOK
  <2>6. NamesOK'
    BY <1>2, <2>2, <2>5, LessNamed DEF BookInv
  <2> QED
    BY <1>0, <1>4, <2>4, <2>6 DEF BookInv
<1>7. CASE ApplyIntent(c, m)
  <2>1. Echo(c, m)
    BY <1>7 DEF ApplyIntent
  <2>2. BookOK'
    BY <1>2, <1>3, <2>1, EchoShape DEF BookInv
  <2>3. NamesOK'
    BY <1>2, <2>1, ApplyNames DEF BookInv
  <2> QED
    BY <1>0, <1>4, <2>2, <2>3 DEF BookInv
<1> QED
  BY <1>1, <1>5, <1>6, <1>7

LEMMA SessionBook ==
    ASSUME BookInv, NEW c \in Clients,
           LoseLink(c) \/ Restart(c) \/ Hello(c) \/ GoStale(c) \/ EndSession(c)
    PROVE  BookInv'
<1>0. IInv' /\ SettingsStep
  BY SessionStepsKeep DEF GoodStep, BookInv
<1>1. /\ \A d \in Clients : wire'[d] \subseteq wire[d]
      /\ truthful' = truthful
  BY DEF LoseLink, Restart, Hello, GoStale, EndSession, BookInv, IInv, WireOK
<1>2. CasOK'
  BY <1>0, <1>1, CasStep DEF BookInv
<1>3. /\ ring' = ring \/ ring' = [ring EXCEPT ![c] = <<>>]
      /\ times' = times \/ times' = [times EXCEPT ![c] = [i \in Ids |-> 0]]
  BY DEF LoseLink, Restart, Hello, GoStale, EndSession, FreshRing
<1>4. /\ ring' \in [Clients -> Seq(Entry)] /\ times' \in [Clients -> [Ids -> 0 .. 2]]
      /\ \A d \in Clients : ring'[d] = ring[d] \/ ring'[d] = <<>>
  <2>1. ring \in [Clients -> Seq(Entry)] /\ times \in [Clients -> [Ids -> 0 .. 2]]
    BY DEF BookInv, BookOK
  <2>2. <<>> \in Seq(Entry)
    OBVIOUS
  <2>3. [i \in Ids |-> 0] \in [Ids -> 0 .. 2]
    OBVIOUS
  <2>4. ring' \in [Clients -> Seq(Entry)]
    BY <1>3, <2>1, <2>2
  <2>5. times' \in [Clients -> [Ids -> 0 .. 2]]
    BY <1>3, <2>1, <2>3
  <2>6. \A d \in Clients : ring'[d] = ring[d] \/ ring'[d] = <<>>
    BY <1>3, <2>1
  <2> QED
    BY <2>4, <2>5, <2>6
<1>5. CASE ~Restart(c)
  <2>1. nextId' = nextId /\ restarts' = restarts
    BY <1>5 DEF LoseLink, Hello, GoStale, EndSession
  <2>2. BookOK'
    BY <1>1, <1>4, <2>1 DEF BookInv, BookOK
  <2>3. NamesOK'
    BY <1>1, <1>4, <2>1, LessNamed DEF BookInv
  <2> QED
    BY <1>0, <1>2, <2>2, <2>3 DEF BookInv
<1>6. CASE Restart(c)
  <2>1. restarts' \in Nat /\ restarts' # 0
    BY <1>6 DEF Restart, BookInv, BookOK
  <2> QED
    BY <1>0, <1>1, <1>2, <1>4, <2>1 DEF BookInv, BookOK, NamesOK
<1> QED
  BY <1>5, <1>6

LEMMA BookKeeps ==
    ASSUME BookInv, [Next]_vars
    PROVE  BookInv'
<1>1. CASE UNCHANGED vars \/ MachineChanges
  <2>1. IInv' /\ SettingsStep
    <3>1. CASE MachineChanges
      BY <3>1, MachineKeeps DEF GoodStep, BookInv
    <3>2. CASE UNCHANGED vars
      BY <3>2, NextKeeps DEF BookInv, vars, SettingsStep, IInv, SettingsOK
    <3> QED
      BY <1>1, <3>1, <3>2
  <2>2. UNCHANGED <<nextId, wire, ring, times, truthful, restarts>>
    BY <1>1 DEF vars, MachineChanges
  <2>3. BookOK' /\ CasOK' /\ NamesOK'
    BY <2>1, <2>2, CasStep, LessNamed DEF BookInv, BookOK
  <2> QED
    BY <2>1, <2>3 DEF BookInv
<1> QED
  BY <1>1, SendBook, HandleBook, SessionBook DEF Next

LEMMA BookInvHolds == Spec => []BookInv
<1>1. Init => BookInv
  <2> SUFFICES ASSUME Init PROVE BookInv
    OBVIOUS
  <2>1. BookOK
    BY DEF Init, BookOK
  <2>2. CasOK /\ NamesOK
    BY DEF Init, CasOK, NamesOK, Named
  <2> QED
    BY <2>1, <2>2, InitHolds DEF BookInv
<1>2. BookInv /\ [Next]_vars => BookInv'
  BY BookKeeps
<1> QED
  BY <1>1, <1>2, PTL DEF Spec

(* While no client process has restarted, the ECHO an intent gets, stored  *)
(* or new, is the one that was made for it.                                *)
THEOREM EchoHolds == Spec => []EchoTruthfulInOneRun
<1>1. BookInv => EchoTruthfulInOneRun
  BY DEF BookInv, NamesOK, EchoTruthfulInOneRun
<1> QED
  BY <1>1, BookInvHolds, PTL

(* handleIntent's comparison of generations admits a conditional write     *)
(* only while the settings are those its client had seen.                  *)
THEOREM CasHolds == Spec => CasSeesNoChange
<1> DEFINE A == \A c \in Clients : \A m \in wire[c] :
                  (m.pre # NoGen /\ ApplyIntent(c, m)) => live = m.basis
<1>1. BookInv => A
  BY DEF BookInv, CasOK, ApplyIntent, Precondition
<1>2. BookInv /\ [Next]_vars => [A]_vars
  BY <1>1
<1> QED
  BY <1>2, BookInvHolds, PTL DEF Spec, CasSeesNoChange

------------------------------------------------------------------------------
(* How long an answer stays in the ring                                    *)

(* The answer to intent i is in the ring, and whatever was stored after it *)
(* had been sent less than Window intents before i, or after i.            *)
Kept(c, i) ==
    \E p \in 1 .. Len(ring[c]) :
       /\ ring[c][p].id = i
       /\ \A q \in (p + 1) .. Len(ring[c]) :
            ring[c][q].id + Window > i /\ ring[c][q].id < nextId[c]

(* The ring answers each id once; the wire carries ids of the window; and  *)
(* an intent that was applied is out of the window or in the ring.         *)
RingOK(c) ==
    /\ \A p, q \in 1 .. Len(ring[c]) : ring[c][p].id = ring[c][q].id => p = q
    /\ \A m \in wire[c] : m.id < nextId[c] /\ m.id + Window >= nextId[c]
    /\ \A i \in Ids :
         /\ times[c][i] <= 1
         /\ times[c][i] = 1 => i < nextId[c] /\ (i + Window < nextId[c] \/ Kept(c, i))

RingInv == BookInv /\ \A c \in Clients : RingOK(c)

(* The size of an interval, and of one without its middle *)
LEMMA IntervalSize ==
    ASSUME NEW k \in Nat
    PROVE  IsFiniteSet(1 .. k) /\ Cardinality(1 .. k) = k
<1>1. IsFiniteSet(1 .. k) /\ Cardinality(1 .. k) = IF 1 > k THEN 0 ELSE k - 1 + 1
  BY FS_Interval
<1> QED
  BY <1>1

LEMMA PuncturedSize ==
    ASSUME NEW w \in Nat, w >= 1
    PROVE  /\ IsFiniteSet((1 .. (2 * w - 1)) \ {w})
           /\ Cardinality((1 .. (2 * w - 1)) \ {w}) = (2 * w - 1) - 1
<1> DEFINE k == 2 * w - 1
<1>1. k \in Nat /\ w \in 1 .. k
  OBVIOUS
<1> HIDE DEF k
<1>2. IsFiniteSet(1 .. k) /\ Cardinality(1 .. k) = k
  BY <1>1, IntervalSize
<1>3. IsFiniteSet((1 .. k) \ {w}) /\ Cardinality((1 .. k) \ {w}) = k - 1
  BY <1>1, <1>2, FS_RemoveElement
<1> QED
  BY <1>3 DEF k

(* An answer that is evicted has RingDepth younger ones, of different      *)
(* intents: more than there are in the two windows around it.              *)
LEMMA EvictedIsExpired ==
    ASSUME RingDepth >= 2 * Window - 1,
           NEW r \in Seq(Entry), Len(r) = RingDepth, NEW j \in Ids, NEW n \in Nat,
           \A p, q \in 1 .. Len(r) : r[p].id = r[q].id => p = q,
           \A p \in 1 .. Len(r) : r[p].id # j,
           j < n, j + Window >= n, r[1].id < n,
           \A q \in 2 .. Len(r) : r[q].id + Window > r[1].id /\ r[q].id < n
    PROVE  r[1].id + Window < n
<1>0. r[1].id \in Nat
  <2>1. 1 \in 1 .. Len(r)
    BY IntentConstants
  <2>2. r[1] \in Entry
    BY <2>1
  <2> QED
    BY <2>2 DEF Entry, Ids
<1> SUFFICES ASSUME r[1].id + Window >= n PROVE FALSE
  BY <1>0, IntentConstants
<1> DEFINE i == r[1].id
           D == RingDepth
           W == Window
           T == (1 .. (2 * W - 1)) \ {W}
           f == [q \in 1 .. D |-> (IF q = 1 THEN j ELSE r[q].id) + W - i]
<1>1. D \in Nat \ {0} /\ W \in Nat /\ i \in Nat /\ j \in Nat
      /\ \A q \in 1 .. D : r[q].id \in Nat
  <2>1. \A q \in 1 .. D : r[q] \in Entry
    OBVIOUS
  <2>2. \A x \in Entry : x.id \in Nat
    BY DEF Entry, Ids
  <2> QED
    BY <2>1, <2>2, IntentConstants DEF Ids
<1>a. \A x \in Nat : x # i /\ x + W > i /\ x < n => x + W - i \in T
  <2>1. i + W >= n
    OBVIOUS
  <2> HIDE DEF i, W
  <2> SUFFICES ASSUME NEW x \in Nat, x # i, x + W > i, x < n PROVE x + W - i \in T
    OBVIOUS
  <2>2. x + W - i \in Int /\ x + W - i # W /\ x + W - i >= 1 /\ x + W - i <= 2 * W - 1
    BY <1>1, <2>1
  <2> QED
    BY <1>1, <2>2
<1>2. \A q \in 1 .. D : (IF q = 1 THEN j ELSE r[q].id) + W - i \in T
  <2> SUFFICES ASSUME NEW q \in 1 .. D
               PROVE  (IF q = 1 THEN j ELSE r[q].id) + W - i \in T
    OBVIOUS
  <2>1. CASE q = 1
    <3>1. j # i
      BY <1>1
    <3> QED
      BY <2>1, <3>1, <1>1
  <2>2. CASE q # 1
    <3>1. r[q].id # i /\ q \in 2 .. Len(r)
      BY <2>2, <1>1
    <3>2. r[q].id + W > i /\ r[q].id < n
      BY <3>1
    <3>3. r[q].id + W - i \in T
      BY <3>1, <3>2, <1>1, <1>a
    <3> QED
      BY <2>2, <3>3
  <2> QED
    BY <2>1, <2>2
<1>3. f \in [1 .. D -> T]
  BY <1>2
<1>4. IsFiniteSet(T) /\ IsFiniteSet(1 .. D) /\ Cardinality(1 .. D) = D
      /\ Cardinality(T) < D
  <2>1. W >= 1
    BY <1>1
  <2>4. IsFiniteSet(T) /\ Cardinality(T) = (2 * W - 1) - 1
    BY <1>1, <2>1, PuncturedSize
  <2>5. IsFiniteSet(1 .. D) /\ Cardinality(1 .. D) = D
    BY <1>1, IntervalSize
  <2> QED
    BY <2>4, <2>5, <1>1
<1> HIDE DEF T, f
<1>5. PICK x \in 1 .. D, y \in 1 .. D : x # y /\ f[x] = f[y]
  BY <1>3, <1>4, FS_PigeonHole
<1>6. /\ f[x] = (IF x = 1 THEN j ELSE r[x].id) + W - i
      /\ f[y] = (IF y = 1 THEN j ELSE r[y].id) + W - i
  BY DEF f
<1>7. (IF x = 1 THEN j ELSE r[x].id) = (IF y = 1 THEN j ELSE r[y].id)
  <2> DEFINE a == IF x = 1 THEN j ELSE r[x].id
             b == IF y = 1 THEN j ELSE r[y].id
  <2>1. a \in Nat /\ b \in Nat
    BY <1>1
  <2>2. a + W - i = b + W - i
    BY <1>5, <1>6
  <2>3. W \in Nat /\ i \in Nat
    BY <1>1
  <2> HIDE DEF a, b, i, W
  <2>4. a = b
    BY <2>1, <2>2, <2>3
  <2> QED
    BY <2>4 DEF a, b
<1> QED
  BY <1>1, <1>5, <1>7

(* Nothing is applied: intents leave the wire, and a ring is forgotten     *)
(* only with the count of what it answered.                                *)
LEMMA LessRing ==
    ASSUME NEW c \in Clients, RingOK(c), nextId'[c] = nextId[c], wire'[c] \subseteq wire[c],
           \/ ring'[c] = ring[c] /\ times'[c] = times[c]
           \/ ring'[c] \in {ring[c], <<>>} /\ times'[c] = [i \in Ids |-> 0]
    PROVE  RingOK(c)'
<1>1. \A m \in wire'[c] : m.id < nextId'[c] /\ m.id + Window >= nextId'[c]
  BY DEF RingOK
<1>2. \A p, q \in 1 .. Len(ring'[c]) : ring'[c][p].id = ring'[c][q].id => p = q
  <2>1. CASE ring'[c] = ring[c]
    BY <2>1 DEF RingOK
  <2>2. CASE ring'[c] = <<>>
    BY <2>2
  <2> QED
    BY <2>1, <2>2
<1>3. \A i \in Ids :
         /\ times'[c][i] <= 1
         /\ times'[c][i] = 1 => i < nextId'[c] /\ (i + Window < nextId'[c] \/ Kept(c, i)')
  <2>1. CASE ring'[c] = ring[c] /\ times'[c] = times[c]
    <3>1. \A i \in Ids : Kept(c, i) => Kept(c, i)'
      BY <2>1 DEF Kept
    <3> QED
      BY <2>1, <3>1 DEF RingOK
  <2>2. CASE times'[c] = [i \in Ids |-> 0]
    BY <2>2
  <2> QED
    BY <2>1, <2>2
<1> QED
  BY <1>1, <1>2, <1>3 DEF RingOK

LEMMA SendRing ==
    ASSUME RingInv, NEW c \in Clients, SendIntent(c), NEW d \in Clients
    PROVE  RingOK(d)'
<1>1. PICK m \in Intent :
         /\ m.id = nextId[c]
         /\ wire' = [wire EXCEPT ![c] = InWindow(@ \cup {m}, nextId[c] + 1)]
  BY SendShape DEF RingInv, BookInv
<1>2. /\ nextId' = [nextId EXCEPT ![c] = @ + 1]
      /\ ring' = ring /\ times' = times
  BY DEF SendIntent
<1>3. /\ wire \in [Clients -> SUBSET Intent] /\ nextId \in [Clients -> Nat \ {0}]
      /\ RingOK(d)
  BY DEF RingInv, BookInv, IInv, WireOK
<1>4. CASE d # c
  BY <1>1, <1>2, <1>3, <1>4, LessRing
<1>5. CASE d = c
  <2>1. /\ nextId'[c] = nextId[c] + 1 /\ nextId[c] \in Nat /\ Window \in Nat
        /\ wire'[c] = InWindow(wire[c] \cup {m}, nextId[c] + 1)
    BY <1>1, <1>2, <1>3, IntentConstants
  <2>2. \A k \in wire'[c] : k.id < nextId'[c] /\ k.id + Window >= nextId'[c]
    <3> SUFFICES ASSUME NEW k \in wire'[c]
                 PROVE  k.id < nextId'[c] /\ k.id + Window >= nextId'[c]
      OBVIOUS
    <3>1. k \in wire[c] \cup {m} /\ k.id + Window >= nextId'[c]
      BY <2>1 DEF InWindow
    <3>2. CASE k \in wire[c]
      <4>1. k.id \in Nat /\ k.id < nextId[c]
        BY <3>2, <1>3, <1>5 DEF RingOK, Intent, Ids
      <4> QED
        BY <4>1, <3>1, <2>1
    <3>3. CASE k = m
      BY <3>3, <3>1, <2>1, <1>1
    <3> QED
      BY <3>1, <3>2, <3>3
  <2>3. \A i \in Ids : Kept(c, i) => Kept(c, i)'
    <3> SUFFICES ASSUME NEW i \in Ids, Kept(c, i) PROVE Kept(c, i)'
      OBVIOUS
    <3>1. ring[c] \in Seq(Entry)
      BY DEF RingInv, BookInv, BookOK
    <3>2. \A p \in 1 .. Len(ring[c]) : ring[c][p].id \in Nat
      <4>1. \A p \in 1 .. Len(ring[c]) : ring[c][p] \in Entry
        BY <3>1
      <4>2. \A x \in Entry : x.id \in Nat
        BY DEF Entry, Ids
      <4> QED
        BY <4>1, <4>2
    <3>3. PICK p \in 1 .. Len(ring[c]) :
             /\ ring[c][p].id = i
             /\ \A q \in (p + 1) .. Len(ring[c]) :
                  ring[c][q].id + Window > i /\ ring[c][q].id < nextId[c]
      BY DEF Kept
    <3>4. \A q \in (p + 1) .. Len(ring[c]) : q \in 1 .. Len(ring[c])
      BY <3>1
    <3>5. \A q \in (p + 1) .. Len(ring[c]) :
             ring[c][q].id + Window > i /\ ring[c][q].id < nextId'[c]
      BY <3>2, <3>3, <3>4, <2>1
    <3> QED
      BY <3>3, <3>5, <1>2 DEF Kept
  <2>4. \A i \in Ids : times[c][i] = 1 =>
           i < nextId'[c] /\ (i + Window < nextId'[c] \/ Kept(c, i)')
    <3> SUFFICES ASSUME NEW i \in Ids, times[c][i] = 1
                 PROVE  i < nextId'[c] /\ (i + Window < nextId'[c] \/ Kept(c, i)')
      OBVIOUS
    <3>1. i \in Nat /\ i < nextId[c] /\ (i + Window < nextId[c] \/ Kept(c, i))
      BY <1>3, <1>5 DEF RingOK, Ids
    <3> QED
      BY <3>1, <2>1, <2>3
  <2> QED
    BY <1>2, <1>3, <1>5, <2>2, <2>4 DEF RingOK
<1> QED
  BY <1>4, <1>5

(* An intent that is applied was not applied before, and its answer pushes *)
(* out only one that no repeat can ask for any more.                       *)
LEMMA ApplyRing ==
    ASSUME RingDepth >= 2 * Window - 1, EchoFits \subseteq {TRUE},
           RingInv, NEW c \in Clients, NEW m \in wire[c],
           Stored(c, m.id) = {}, Echo(c, m),
           nextId' = nextId, restarts' = restarts, wire'[c] \subseteq wire[c]
    PROVE  RingOK(c)'
<1> DEFINE r == ring[c]
           j == m.id
           n == nextId[c]
<1>1. /\ RingOK(c) /\ BookOK /\ m \in Intent /\ j \in Ids /\ j \in Nat
      /\ n \in Nat /\ Window \in Nat /\ RingDepth \in Nat \ {0}
  BY IntentConstants DEF RingInv, BookInv, IInv, WireOK, Intent, Ids
<1>2. j < n /\ j + Window >= n
  BY <1>1 DEF RingOK
<1>3. r \in Seq(Entry) /\ \A p \in 1 .. Len(r) : r[p].id \in Nat
  <2>1. r \in Seq(Entry)
    BY <1>1 DEF BookOK
  <2>2. \A p \in 1 .. Len(r) : r[p] \in Entry
    BY <2>1
  <2>3. \A x \in Entry : x.id \in Nat
    BY DEF Entry, Ids
  <2> QED
    BY <2>1, <2>2, <2>3
<1>4. \A p \in 1 .. Len(r) : r[p].id # j
  BY DEF Stored
<1>5. PICK fits \in EchoFits : ring'[c] = Store(r, [id |-> j, of |-> m, fits |-> fits])
  BY <1>1, EchoShape
<1> DEFINE s == ring'[c]
           h == Shift(r)
<1>6. /\ s \in Seq(Entry) /\ Len(s) = Len(r) + 1 - h /\ Len(s) \in Nat \ {0}
      /\ \A p \in 1 .. (Len(s) - 1) : p + h \in 1 .. Len(r) /\ s[p] = r[p + h]
      /\ s[Len(s)].id = j
  <2>1. fits \in BOOLEAN /\ fits
    OBVIOUS
  <2> DEFINE u == Store(r, [id |-> j, of |-> m, fits |-> fits])
  <2>2. /\ u \in Seq(Entry) /\ Len(u) = Len(r) + 1 - Shift(r) /\ Len(u) \in Nat \ {0}
        /\ \A p \in 1 .. (Len(u) - 1) :
             p + Shift(r) \in 1 .. Len(r) /\ u[p] = r[p + Shift(r)]
        /\ u[Len(u)].id = j
    <3>1. r \in Seq(Entry) /\ j \in Ids /\ m \in Intent
      BY <1>1, <1>3
    <3> HIDE DEF r, j
    <3>2. u \in Seq(Entry) /\ Pushed(r, j, m, u)
      BY <3>1, <2>1, StoreShape
    <3> HIDE DEF u
    <3> QED
      BY <3>2 DEF Pushed
  <2>3. s = u
    BY <1>5
  <2> HIDE DEF u, s
  <2> QED
    BY <2>2, <2>3
<1>7. /\ times'[c][j] = (IF times[c][j] = 2 THEN 2 ELSE times[c][j] + 1)
      /\ \A i \in Ids : i # j => times'[c][i] = times[c][i]
  BY <1>1, EchoShape
<1>8. h \in {0, 1} /\ (h = 1 => Len(r) = RingDepth)
  BY DEF Shift
<1> HIDE DEF h
<1>9. Len(r) \in Nat
  BY <1>3
<1>10. times[c][j] = 0
  <2>1. times[c][j] \in 0 .. 2 /\ times[c][j] <= 1
    BY <1>1 DEF RingOK, BookOK
  <2>2. times[c][j] # 1
    <3> SUFFICES ASSUME times[c][j] = 1 PROVE FALSE
      OBVIOUS
    <3>1. Kept(c, j)
      BY <1>1, <1>2 DEF RingOK
    <3> QED
      BY <3>1, <1>4 DEF Kept
  <2> QED
    BY <2>1, <2>2
<1>11. \A p, q \in 1 .. Len(s) : s[p].id = s[q].id => p = q
  <2> SUFFICES ASSUME NEW p \in 1 .. Len(s), NEW q \in 1 .. Len(s), s[p].id = s[q].id
               PROVE  p = q
    OBVIOUS
  <2>1. \A x \in 1 .. Len(s) : x \in 1 .. (Len(s) - 1) \/ x = Len(s)
    BY <1>6
  <2>2. CASE p \in 1 .. (Len(s) - 1) /\ q \in 1 .. (Len(s) - 1)
    <3>1. /\ p + h \in 1 .. Len(r) /\ s[p] = r[p + h]
          /\ q + h \in 1 .. Len(r) /\ s[q] = r[q + h]
      BY <2>2, <1>6
    <3>2. \A a, b \in 1 .. Len(r) : r[a].id = r[b].id => a = b
      BY <1>1 DEF RingOK
    <3>3. p + h = q + h
      BY <3>1, <3>2
    <3> QED
      BY <3>3, <1>8
  <2>3. CASE p = Len(s) /\ q \in 1 .. (Len(s) - 1)
    BY <2>3, <1>4, <1>6
  <2>4. CASE q = Len(s) /\ p \in 1 .. (Len(s) - 1)
    BY <2>4, <1>4, <1>6
  <2> QED
    BY <2>1, <2>2, <2>3, <2>4
<1>12. ASSUME NEW i \in Ids, Kept(c, i), i < n
       PROVE  i + Window < n \/ Kept(c, i)'
  <2>1. PICK p \in 1 .. Len(r) :
           /\ r[p].id = i
           /\ \A q \in (p + 1) .. Len(r) : r[q].id + Window > i /\ r[q].id < n
    BY <1>12 DEF Kept
  <2>2. CASE p = h
    <3>1. p = 1 /\ Len(r) = RingDepth
      BY <2>2, <2>1, <1>8
    <3>2. \A q \in 2 .. Len(r) : r[q].id + Window > r[1].id /\ r[q].id < n
      BY <3>1, <2>1
    <3>3. r[1].id + Window < n
      <4> HIDE DEF r, j, n
      <4>1. \A x, y \in 1 .. Len(r) : r[x].id = r[y].id => x = y
        BY <1>1 DEF RingOK, r
      <4>2. r[1].id < n
        BY <2>1, <3>1, <1>12
      <4> QED
        BY <3>1, <3>2, <4>1, <4>2, <1>1, <1>2, <1>3, <1>4, EvictedIsExpired
    <3> QED
      BY <3>1, <3>3, <2>1
  <2>3. CASE p # h
    <3> DEFINE z == p - h
    <3>1. z \in 1 .. (Len(s) - 1) /\ z + h = p
      BY <2>3, <1>6, <1>8, <1>9
    <3>2. s[z].id = i /\ z \in 1 .. Len(s)
      BY <3>1, <2>1, <1>6
    <3>3. ASSUME NEW q \in (z + 1) .. Len(s)
          PROVE  s[q].id + Window > i /\ s[q].id < n
      <4>1. CASE q = Len(s)
        BY <4>1, <1>1, <1>2, <1>6, <1>12 DEF Ids
      <4>2. CASE q # Len(s)
        <5>1. q \in 1 .. (Len(s) - 1) /\ q + h \in (p + 1) .. Len(r)
          BY <4>2, <3>1, <1>6, <1>8, <1>9
        <5> QED
          BY <5>1, <2>1, <1>6
      <4> QED
        BY <4>1, <4>2
    <3>4. nextId'[c] = n
      OBVIOUS
    <3> QED
      BY <3>2, <3>3, <3>4 DEF Kept
  <2> QED
    BY <2>2, <2>3
<1>13. Kept(c, j)'
  <2>1. Len(s) \in 1 .. Len(s)
    BY <1>6
  <2>2. \A q \in (Len(s) + 1) .. Len(s) : FALSE
    BY <1>6
  <2> QED
    BY <2>1, <2>2, <1>6 DEF Kept
<1>14. ASSUME NEW i \in Ids
       PROVE  /\ times'[c][i] <= 1
              /\ times'[c][i] = 1 => i < n /\ (i + Window < n \/ Kept(c, i)')
  <2>1. CASE i = j
    BY <2>1, <1>2, <1>7, <1>10, <1>13
  <2>2. CASE i # j
    <3>1. times'[c][i] = times[c][i] /\ times[c][i] <= 1
      BY <2>2, <1>1, <1>7 DEF RingOK
    <3>2. times[c][i] = 1 => i < n /\ (i + Window < n \/ Kept(c, i))
      BY <1>1 DEF RingOK
    <3> QED
      BY <3>1, <3>2, <1>12
  <2> QED
    BY <2>1, <2>2
<1>15. \A k \in wire'[c] : k.id < nextId'[c] /\ k.id + Window >= nextId'[c]
  BY <1>1 DEF RingOK
<1> QED
  BY <1>11, <1>14, <1>15 DEF RingOK

LEMMA RingKeeps ==
    ASSUME RingDepth >= 2 * Window - 1, EchoFits \subseteq {TRUE}, RingInv, [Next]_vars
    PROVE  RingInv'
<1>0. BookInv'
  BY BookKeeps DEF RingInv
<1>1. \A d \in Clients : RingOK(d)
  BY DEF RingInv
<1>2. CASE UNCHANGED vars \/ MachineChanges
  <2>1. UNCHANGED <<nextId, wire, ring, times>>
    BY <1>2 DEF vars, MachineChanges
  <2>2. \A d \in Clients : RingOK(d)'
    BY <1>1, <2>1, LessRing
  <2> QED
    BY <1>0, <2>2 DEF RingInv
<1>3. ASSUME NEW c \in Clients, SendIntent(c) PROVE RingInv'
  BY <1>0, <1>3, SendRing DEF RingInv
<1>4. ASSUME NEW c \in Clients, HandleIntent(c) PROVE RingInv'
  <2>1. PICK m \in wire[c] :
           /\ RefuseIntent(c, m) \/ EchoStored(c, m) \/ ApplyIntent(c, m)
           /\ \E again \in Repeats :
                wire' = [wire EXCEPT ![c] = IF again THEN @ ELSE @ \ {m}]
    BY <1>4 DEF HandleIntent
  <2>2. /\ nextId' = nextId /\ restarts' = restarts
        /\ \A d \in Clients : wire'[d] \subseteq wire[d]
    BY <1>4, <2>1 DEF HandleIntent, RingInv, BookInv, IInv, WireOK
  <2>3. CASE RefuseIntent(c, m) \/ EchoStored(c, m)
    <3>1. ring' = ring /\ times' = times
      BY <2>3 DEF RefuseIntent, EchoStored
    <3>2. \A d \in Clients : RingOK(d)'
      BY <1>1, <2>2, <3>1, LessRing
    <3> QED
      BY <1>0, <3>2 DEF RingInv
  <2>4. CASE ApplyIntent(c, m)
    <3>1. Stored(c, m.id) = {} /\ Echo(c, m) /\ m \in Intent /\ BookOK
      BY <2>4 DEF ApplyIntent, RingInv, BookInv, IInv, WireOK
    <3>2. RingOK(c)'
      BY <2>2, <3>1, ApplyRing
    <3>3. \A d \in Clients : d # c => ring'[d] = ring[d] /\ times'[d] = times[d]
      BY <2>2, <3>1, EchoShape
    <3>4. \A d \in Clients : d # c => RingOK(d)'
      BY <1>1, <2>2, <3>3, LessRing
    <3> QED
      BY <1>0, <3>2, <3>4 DEF RingInv
  <2> QED
    BY <2>1, <2>3, <2>4
<1>5. ASSUME NEW c \in Clients,
             LoseLink(c) \/ Restart(c) \/ Hello(c) \/ GoStale(c) \/ EndSession(c)
      PROVE  RingInv'
  <2>0. /\ wire \in [Clients -> SUBSET Intent] /\ nextId \in [Clients -> Nat \ {0}]
        /\ ring \in [Clients -> Seq(Entry)] /\ times \in [Clients -> [Ids -> 0 .. 2]]
    BY DEF RingInv, BookInv, IInv, WireOK, BookOK
  <2>1. CASE Restart(c)
    <3>1. /\ wire' = [wire EXCEPT ![c] = {}] /\ nextId' = [nextId EXCEPT ![c] = 1]
          /\ times' = [times EXCEPT ![c] = [i \in Ids |-> 0]] /\ ring' = ring
      BY <2>1 DEF Restart
    <3>2. \A d \in Clients : d # c => RingOK(d)'
      BY <1>1, <2>0, <3>1, LessRing
    <3>3. RingOK(c)'
      <4>1. wire'[c] = {} /\ times'[c] = [i \in Ids |-> 0] /\ ring'[c] = ring[c]
        BY <2>0, <3>1
      <4>2. \A p, q \in 1 .. Len(ring[c]) : ring[c][p].id = ring[c][q].id => p = q
        BY <1>1 DEF RingOK
      <4>3. \A i \in Ids : times'[c][i] = 0
        BY <4>1
      <4> QED
        BY <4>1, <4>2, <4>3 DEF RingOK
    <3> QED
      BY <1>0, <3>2, <3>3 DEF RingInv
  <2>2. CASE ~Restart(c)
    <3>1. /\ nextId' = nextId
          /\ \A d \in Clients : wire'[d] \subseteq wire[d]
      BY <1>5, <2>0, <2>2 DEF LoseLink, Hello, GoStale, EndSession
    <3>2. \/ ring' = ring /\ times' = times
          \/ /\ ring' = [ring EXCEPT ![c] = <<>>]
             /\ times' = [times EXCEPT ![c] = [i \in Ids |-> 0]]
      BY <1>5, <2>2 DEF LoseLink, Hello, GoStale, EndSession, FreshRing
    <3>3. \A d \in Clients :
             \/ ring'[d] = ring[d] /\ times'[d] = times[d]
             \/ ring'[d] \in {ring[d], <<>>} /\ times'[d] = [i \in Ids |-> 0]
      BY <2>0, <3>2
    <3>4. \A d \in Clients : RingOK(d)'
      BY <1>1, <3>1, <3>3, LessRing
    <3> QED
      BY <1>0, <3>4 DEF RingInv
  <2> QED
    BY <2>1, <2>2
<1> QED
  BY <1>2, <1>3, <1>4, <1>5 DEF Next

(* An ECHO that fits its place, and a ring of at least twice the window of *)
(* intents that can overtake each other (less one), never let one intent   *)
(* be applied twice within a session (IntentRing, handleIntent).           *)
THEOREM NeverReappliedHolds ==
    ASSUME RingDepth >= 2 * Window - 1, EchoFits \subseteq {TRUE}
    PROVE  Spec => []NeverReapplied
<1>1. Init => RingInv
  <2> SUFFICES ASSUME Init PROVE RingInv
    OBVIOUS
  <2>1. BookOK
    BY DEF Init, BookOK
  <2>2. CasOK /\ NamesOK
    BY DEF Init, CasOK, NamesOK, Named
  <2>3. \A c \in Clients : RingOK(c)
    BY DEF Init, RingOK
  <2> QED
    BY <2>1, <2>2, <2>3, InitHolds DEF BookInv, RingInv
<1>2. RingInv /\ [Next]_vars => RingInv'
  BY RingKeeps
<1>3. RingInv => NeverReapplied
  BY DEF RingInv, RingOK, NeverReapplied
<1> QED
  BY <1>1, <1>2, <1>3, PTL DEF Spec

------------------------------------------------------------------------------
(* Types and capacities                                                    *)

(* Where the places end: _trials, the ids of a run, IntentRing. *)
PlacesOK ==
    /\ IsFiniteSet(trials) /\ Cardinality(trials) <= MaxTrials
    /\ nextId \in [Clients -> 1 .. (MaxId + 1)]
    /\ \A c \in Clients : Len(ring[c]) <= RingDepth

(* The link and the session of each client *)
LinksOK ==
    /\ up \in [Clients -> {"none", "live", "stale"}]
    /\ linked \in [Clients -> BOOLEAN]
    /\ restarts \in 0 .. MaxRestarts

TypeInv == BookInv /\ PlacesOK /\ LinksOK

(* A trial write opens one entry for each key it applies and that is not   *)
(* on trial yet, and CanTry has counted a place for every key it names.    *)
LEMMA OpenedFits ==
    ASSUME IsFiniteSet(Keys), SettingsOK, NEW c \in Clients, NEW m \in Intent,
           IsFiniteSet(trials), Cardinality(trials) <= MaxTrials, TryWrite(c, m)
    PROVE  IsFiniteSet(trials') /\ Cardinality(trials') <= MaxTrials
<1> DEFINE D == DOMAIN m.value \ OnTrial
<1>1. PICK ks \in SUBSET DOMAIN m.value : trials' = trials \cup Opened(c, ks)
  BY DEF TryWrite
<1>2. Cardinality(trials) + Cardinality(D) <= MaxTrials
  BY DEF TryWrite, CanTry
<1>3. D \subseteq Keys
  BY DEF Intent
<1> HIDE DEF D
<1>4. IsFiniteSet(D) /\ Cardinality(D) \in Nat
  BY <1>3, FS_Subset, FS_CardinalityType
<1> DEFINE E == ks \ OnTrial
           O == Opened(c, ks)
<1>5. IsFiniteSet(E) /\ Cardinality(E) \in Nat /\ Cardinality(E) <= Cardinality(D)
  <2>1. E \subseteq D
    BY <1>1 DEF D
  <2> HIDE DEF E
  <2> QED
    BY <2>1, <1>4, FS_Subset, FS_CardinalityType
<1>6. IsFiniteSet(O) /\ Cardinality(O) <= Cardinality(E)
  <2> DEFINE f == [k \in E |-> [by |-> c, key |-> k, base |-> live[k]]]
  <2>1. O = {f[k] : k \in E}
    BY DEF Opened
  <2>2. f \in [E -> O]
    BY DEF Opened
  <2>3. f \in Surjection(E, O)
    BY <2>1, <2>2 DEF Surjection
  <2> HIDE DEF f, E, O
  <2> QED
    BY <2>3, <1>5, FS_Surjection
<1> HIDE DEF E, O
<1>7. Cardinality(O) \in Nat /\ Cardinality(trials) \in Nat
  BY <1>6, FS_CardinalityType
<1>8. /\ IsFiniteSet(trials \cup O)
      /\ Cardinality(trials \cup O) = Cardinality(trials) + Cardinality(O)
                                      - Cardinality(trials \cap O)
  BY <1>6, FS_Union
<1>9. Cardinality(trials \cap O) \in Nat /\ Cardinality(trials \cup O) \in Nat
  <2>1. IsFiniteSet(trials \cap O)
    BY FS_Intersection
  <2> QED
    BY <2>1, <1>8, FS_CardinalityType
<1>10. Cardinality(trials \cup O) <= MaxTrials
  BY <1>2, <1>4, <1>5, <1>6, <1>7, <1>8, <1>9, IntentConstants
<1> QED
  BY <1>1, <1>8, <1>10 DEF O

(* Every other write closes entries and opens none *)
LEMMA ClosedFits ==
    ASSUME IsFiniteSet(trials), Cardinality(trials) <= MaxTrials, trials' \subseteq trials
    PROVE  IsFiniteSet(trials') /\ Cardinality(trials') <= MaxTrials
<1>1. /\ IsFiniteSet(trials') /\ Cardinality(trials') <= Cardinality(trials)
      /\ Cardinality(trials') \in Nat /\ Cardinality(trials) \in Nat
  BY FS_Subset, FS_CardinalityType
<1> QED
  BY <1>1, IntentConstants

(* IntentRing::store: the oldest answer makes room *)
LEMMA StoreFits ==
    ASSUME NEW r \in Seq(Entry), Len(r) <= RingDepth, NEW id \in Ids, NEW m \in Intent,
           NEW fits \in BOOLEAN
    PROVE  Len(Store(r, [id |-> id, of |-> m, fits |-> fits])) <= RingDepth
<1>1. CASE ~fits
  BY <1>1, StoreShape
<1>2. CASE fits
  <2>1. PICK s : s = Store(r, [id |-> id, of |-> m, fits |-> fits])
    OBVIOUS
  <2>2. Pushed(r, id, m, s)
    BY <1>2, <2>1, StoreShape
  <2>3. Len(s) = Len(r) + 1 - Shift(r) /\ Len(r) \in Nat
    BY <2>2 DEF Pushed
  <2>4. Len(s) <= RingDepth
    BY <2>3, IntentConstants DEF Shift
  <2> QED
    BY <2>1, <2>4
<1> QED
  BY <1>1, <1>2

LEMMA ApplyFits ==
    ASSUME IsFiniteSet(Keys), BookInv, PlacesOK, NEW c \in Clients, NEW m \in Intent,
           ApplyIntent(c, m), BookOK', nextId' = nextId
    PROVE  PlacesOK'
<1>1. IsFiniteSet(trials') /\ Cardinality(trials') <= MaxTrials
  <2>0. IsFiniteSet(trials) /\ Cardinality(trials) <= MaxTrials /\ SettingsOK
    BY DEF PlacesOK, BookInv, IInv
  <2>1. CASE TryWrite(c, m)
    BY <2>0, <2>1, OpenedFits
  <2>2. CASE DurableWrite(c, m)
    <3>1. trials' \subseteq trials
      BY <2>2 DEF DurableWrite, TrialsOf
    <3> QED
      BY <2>0, <3>1, ClosedFits
  <2>3. CASE TrialOp(c, m)
    <3>1. trials' \subseteq trials
      BY <2>3 DEF TrialOp, CommitTrials, RevertTrials
    <3> QED
      BY <2>0, <3>1, ClosedFits
  <2> QED
    BY <2>1, <2>2, <2>3 DEF ApplyIntent
<1>2. ASSUME NEW d \in Clients PROVE Len(ring'[d]) <= RingDepth
  <2>0. m.id \in Ids /\ ring \in [Clients -> Seq(Entry)] /\ Len(ring[d]) <= RingDepth
    BY DEF Intent, BookInv, BookOK, PlacesOK
  <2>1. PICK fits \in EchoFits :
           ring' = [ring EXCEPT ![c] = Store(@, [id |-> m.id, of |-> m, fits |-> fits])]
    BY DEF ApplyIntent, Echo
  <2>2. fits \in BOOLEAN
    BY <2>1, IntentConstants
  <2>3. CASE d = c
    <3>1. ring'[d] = Store(ring[d], [id |-> m.id, of |-> m, fits |-> fits])
      BY <2>0, <2>1, <2>3
    <3> QED
      BY <2>0, <2>2, <3>1, StoreFits
  <2>4. CASE d # c
    BY <2>0, <2>1, <2>4
  <2> QED
    BY <2>3, <2>4
<1> QED
  BY <1>1, <1>2 DEF PlacesOK

LEMMA PlacesKeep ==
    ASSUME IsFiniteSet(Keys), BookInv, BookInv', PlacesOK, [Next]_vars
    PROVE  PlacesOK'
<1>0. /\ IsFiniteSet(trials) /\ Cardinality(trials) <= MaxTrials
      /\ nextId \in [Clients -> 1 .. (MaxId + 1)]
      /\ \A c \in Clients : Len(ring[c]) <= RingDepth
      /\ ring \in [Clients -> Seq(Entry)] /\ wire \in [Clients -> SUBSET Intent]
      /\ MaxId \in Nat /\ RingDepth \in Nat
  BY IntentConstants DEF PlacesOK, BookInv, BookOK, IInv, WireOK
<1>1. CASE UNCHANGED vars \/ MachineChanges
  BY <1>0, <1>1 DEF vars, MachineChanges, PlacesOK
<1>2. ASSUME NEW c \in Clients, SendIntent(c) PROVE PlacesOK'
  <2>1. trials' = trials /\ ring' = ring
    BY <1>2 DEF SendIntent, settings
  <2>2. nextId[c] <= MaxId /\ nextId' = [nextId EXCEPT ![c] = @ + 1]
    BY <1>2 DEF SendIntent
  <2>3. nextId' \in [Clients -> 1 .. (MaxId + 1)]
    <3>1. nextId[c] + 1 \in 1 .. (MaxId + 1)
      BY <1>0, <2>2
    <3> QED
      BY <1>0, <2>2, <3>1
  <2> QED
    BY <1>0, <2>1, <2>3 DEF PlacesOK
<1>3. ASSUME NEW c \in Clients, HandleIntent(c) PROVE PlacesOK'
  <2>1. PICK m \in wire[c] :
           RefuseIntent(c, m) \/ EchoStored(c, m) \/ ApplyIntent(c, m)
    BY <1>3 DEF HandleIntent
  <2>2. nextId' = nextId /\ m \in Intent
    BY <1>0, <1>3, <2>1 DEF HandleIntent
  <2>3. CASE RefuseIntent(c, m) \/ EchoStored(c, m)
    BY <1>0, <2>2, <2>3 DEF RefuseIntent, EchoStored, settings, PlacesOK
  <2>4. CASE ApplyIntent(c, m)
    BY <2>2, <2>4, ApplyFits DEF BookInv
  <2> QED
    BY <2>1, <2>3, <2>4
<1>4. ASSUME NEW c \in Clients,
             LoseLink(c) \/ Restart(c) \/ Hello(c) \/ GoStale(c) \/ EndSession(c)
      PROVE  PlacesOK'
  <2>1. trials' \subseteq trials
    BY <1>4 DEF LoseLink, Restart, Hello, GoStale, EndSession, RevertTrials, settings
  <2>2. nextId' = nextId \/ nextId' = [nextId EXCEPT ![c] = 1]
    BY <1>4 DEF LoseLink, Restart, Hello, GoStale, EndSession
  <2>3. nextId' \in [Clients -> 1 .. (MaxId + 1)]
    <3>1. 1 \in 1 .. (MaxId + 1)
      BY <1>0
    <3> QED
      BY <1>0, <2>2, <3>1
  <2>4. ring' = ring \/ ring' = [ring EXCEPT ![c] = <<>>]
    BY <1>4 DEF LoseLink, Restart, Hello, GoStale, EndSession, FreshRing
  <2>5. \A d \in Clients : ring'[d] = ring[d] \/ ring'[d] = <<>>
    BY <1>0, <2>4
  <2>6. \A d \in Clients : Len(ring'[d]) <= RingDepth
    BY <1>0, <2>5
  <2>7. IsFiniteSet(trials') /\ Cardinality(trials') <= MaxTrials
    BY <1>0, <2>1, ClosedFits
  <2> QED
    BY <2>3, <2>6, <2>7 DEF PlacesOK
<1> QED
  BY <1>1, <1>2, <1>3, <1>4 DEF Next

LEMMA LinksKeep ==
    ASSUME LinksOK, [Next]_vars
    PROVE  LinksOK'
<1>0. /\ up \in [Clients -> {"none", "live", "stale"}] /\ linked \in [Clients -> BOOLEAN]
      /\ restarts \in 0 .. MaxRestarts /\ MaxRestarts \in Nat
  BY IntentConstants DEF LinksOK
<1>1. CASE UNCHANGED vars \/ MachineChanges
  BY <1>0, <1>1 DEF vars, MachineChanges, LinksOK
<1>2. ASSUME NEW c \in Clients,
             SendIntent(c) \/ HandleIntent(c) \/ LoseLink(c) \/ Restart(c)
             \/ Hello(c) \/ GoStale(c) \/ EndSession(c)
      PROVE  LinksOK'
  <2>1. \/ up' = up
        \/ \E st \in {"none", "live", "stale"} : up' = [up EXCEPT ![c] = st]
    BY <1>2 DEF SendIntent, HandleIntent, LoseLink, Restart, Hello, GoStale, EndSession
  <2>2. linked' = linked \/ \E b \in BOOLEAN : linked' = [linked EXCEPT ![c] = b]
    BY <1>2 DEF SendIntent, HandleIntent, LoseLink, Restart, Hello, GoStale, EndSession
  <2>3. restarts' = restarts \/ (restarts < MaxRestarts /\ restarts' = restarts + 1)
    BY <1>2 DEF SendIntent, HandleIntent, LoseLink, Restart, Hello, GoStale, EndSession
  <2>4. up' \in [Clients -> {"none", "live", "stale"}]
    BY <1>0, <2>1
  <2>5. linked' \in [Clients -> BOOLEAN]
    BY <1>0, <2>2
  <2>6. restarts' \in 0 .. MaxRestarts
    BY <1>0, <2>3
  <2> QED
    BY <2>4, <2>5, <2>6 DEF LinksOK
<1> QED
  BY <1>1, <1>2 DEF Next

(* Every variable keeps its type, the trial table never has more entries   *)
(* than places, whoever opens trials and in whatever order they end, and   *)
(* no ring grows past its depth: handleIntent counts the free places       *)
(* before a trial write is applied, and IntentRing::store drops its oldest *)
(* answer.                                                                 *)
THEOREM IntentTypesHold ==
    ASSUME IsFiniteSet(Keys)
    PROVE  Spec => []TypeOK
<1>1. Init => TypeInv
  <2> SUFFICES ASSUME Init PROVE TypeInv
    OBVIOUS
  <2>1. BookInv
    BY InitHolds DEF Init, BookInv, BookOK, CasOK, NamesOK, Named
  <2>2. PlacesOK
    BY FS_EmptySet, IntentConstants DEF Init, PlacesOK
  <2>3. LinksOK
    BY IntentConstants DEF Init, LinksOK
  <2> QED
    BY <2>1, <2>2, <2>3 DEF TypeInv
<1>2. TypeInv /\ [Next]_vars => TypeInv'
  BY BookKeeps, PlacesKeep, LinksKeep DEF TypeInv
<1>3. TypeInv => TypeOK
  <2> SUFFICES ASSUME TypeInv PROVE TypeOK
    OBVIOUS
  <2>1. SettingsOK /\ \A c \in Clients : wire[c] \subseteq Intent
    BY DEF TypeInv, BookInv, IInv, WireOK
  <2> QED
    BY <2>1 DEF TypeInv, BookInv, BookOK, SettingsOK, PlacesOK, LinksOK, TypeOK
<1> QED
  BY <1>1, <1>2, <1>3, PTL DEF Spec
==============================================================================
