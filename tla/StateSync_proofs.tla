--------------------------- MODULE StateSync_proofs ---------------------------
(***************************************************************************)
(* Theorems about StateSync: types; that the STATE plane is a latest-value *)
(* register, on links that keep the order of frames for every value of the *)
(* constants, and on links that do not for as long as no frame can be      *)
(* older than half the range of the sequence numbers; and that a client is *)
(* LIVE only with everything it was promised.                              *)
(***************************************************************************)
EXTENDS StateSync, Integers, FiniteSetTheorems, TLAPS

Version   == [held : BOOLEAN, seq : Seqs, ver : 0 .. MaxVersion]
Shadow    == [seq : Seqs, ver : 0 .. MaxVersion]
States    == {"CLOSED", "HELLO_SENT", "SYNCING", "LIVE"}

(* A value is held once it was published; nothing on its way to the client *)
(* announces a catalog of the future.                                      *)
HeldIsPublished == \A ch \in Channels : retained[ch].held => retained[ch].ver # 0

AnnouncedIsPast ==
    \A i \in 1 .. Len(link) : link[i].type = "ANNOUNCE" => link[i].etag <= etag

Flags ==
    /\ announced \in BOOLEAN /\ catalogReady \in BOOLEAN /\ pending \in BOOLEAN
    /\ refetching \in BOOLEAN /\ resyncing \in BOOLEAN /\ late \in BOOLEAN

HubTypes ==
    /\ catalog \subseteq Channels /\ etag \in 1 .. (MaxChanges + 1)
    /\ retained \in [Channels -> Version] /\ HeldIsPublished
    /\ session \in {"none", "attached", "parked"} /\ ready \in BOOLEAN
    /\ subs \subseteq Channels /\ pushed \subseteq subs
    /\ rec \in [Channels -> Seqs \cup {NoSeq}]
    /\ shed \in [Channels -> 0 .. 3] /\ told \in 0 .. etag /\ level \in 0 .. 2

LinkTypes == link \in Seq(Frames) /\ Len(link) <= MaxInFlight /\ AnnouncedIsPast

ClientTypes ==
    /\ held \in 0 .. etag /\ heard \in 0 .. etag
    /\ state \in States /\ Flags
    /\ shadow \in [Channels -> Shadow]
    /\ promised \subseteq Channels /\ adopted \in Nat

CounterTypes ==
    /\ links \in 0 .. MaxLinks /\ calls \in 0 .. MaxChanges
    /\ untold \subseteq Channels

Types == HubTypes /\ LinkTypes /\ ClientTypes /\ CounterTypes

------------------------------------------------------------------------------
(* The operators of the model                                              *)

LEMMA Basics ==
    /\ Modulus \in Nat /\ Modulus > 1 /\ NoSeq \notin Nat
    /\ MaxInFlight \in Nat \ {0} /\ MaxVersion \in Nat \ {0} /\ MaxChanges \in Nat
    /\ 0 \in Seqs /\ Seqs \subseteq Nat /\ NoShadow \in Shadow /\ NoShadow.ver = 0
  BY StateConstants DEF StateConstants, Seqs, NoShadow, Shadow

(* The channels are finitely many.                                         *)
LEMMA FiniteChannels == IsFiniteSet(Channels) /\ Cardinality(Channels) \in Nat
<1>1. Order \in Seq(Channels) /\ Len(Order) \in Nat /\ DOMAIN Order = 1 .. Len(Order)
  BY StateConstants DEF StateConstants
<1>2. IsFiniteSet(1 .. Len(Order))
  BY <1>1, FS_Interval
<1>3. Order \in Surjection(1 .. Len(Order), Channels)
  BY <1>1 DEF Surjection, Channels
<1>4. IsFiniteSet(Channels)
  BY <1>2, <1>3, FS_Surjection
<1> QED
  BY <1>4, FS_CardinalityType

(* Among finitely many positions there is an n-th.                         *)
LEMMA NthIs ==
    ASSUME NEW P \in SUBSET Nat, IsFiniteSet(P), NEW n \in 1 .. Cardinality(P)
    PROVE  Nth(P, n) \in P
<1> DEFINE Up(i) == {j \in P : j <= i}
           T == 1 .. Cardinality(P)
           f == [i \in P |-> Cardinality(Up(i))]
<1>1. Cardinality(P) \in Nat
  BY FS_CardinalityType
<1>2. IsFiniteSet(T) /\ Cardinality(T) = Cardinality(P)
  <2>1. PICK c \in Nat : c = Cardinality(P)
    BY <1>1
  <2>2. IsFiniteSet(1 .. c) /\ Cardinality(1 .. c) = IF 1 > c THEN 0 ELSE c - 1 + 1
    BY FS_Interval
  <2>3. Cardinality(1 .. c) = c
    BY <2>2
  <2> QED
    BY <2>1, <2>2, <2>3
<1>3. ASSUME NEW i \in P
      PROVE  IsFiniteSet(Up(i)) /\ Cardinality(Up(i)) \in Nat
             /\ Cardinality(Up(i)) <= Cardinality(P) /\ Cardinality(Up(i)) # 0
  <2>1. Up(i) \in SUBSET P /\ i \in Up(i)
    OBVIOUS
  <2> HIDE DEF Up
  <2>2. IsFiniteSet(Up(i)) /\ Cardinality(Up(i)) <= Cardinality(P)
    BY <2>1, FS_Subset
  <2>3. Cardinality(Up(i)) \in Nat
    BY <2>2, FS_CardinalityType
  <2>4. Cardinality(Up(i)) # 0
    BY <2>1, <2>2, FS_EmptySet
  <2> QED
    BY <2>2, <2>3, <2>4
<1>4. ASSUME NEW i \in P, NEW k \in P, i < k
      PROVE  Cardinality(Up(i)) # Cardinality(Up(k))
  <2>0. i \in Nat /\ k \in Nat /\ \A j \in P : j \in Nat
    OBVIOUS
  <2>1. Up(i) \in SUBSET Up(k) /\ k \in Up(k) /\ k \notin Up(i)
    <3>1. \A j \in P : j <= i => j <= k
      BY <1>4, <2>0
    <3>2. k <= k /\ ~(k <= i)
      BY <1>4, <2>0
    <3> QED
      BY <3>1, <3>2
  <2>2. IsFiniteSet(Up(k))
    BY <1>3
  <2> HIDE DEF Up
  <2> QED
    BY <2>1, <2>2, FS_Subset
<1>5. f \in [P -> T] /\ \A i, k \in P : f[i] = f[k] => i = k
  <2>1. \A i \in P : Cardinality(Up(i)) \in T
    BY <1>1, <1>3
  <2>2. \A i, k \in P : Cardinality(Up(i)) = Cardinality(Up(k)) => i = k
    <3> SUFFICES ASSUME NEW i \in P, NEW k \in P, Cardinality(Up(i)) = Cardinality(Up(k)),
                        i # k
                 PROVE  FALSE
      OBVIOUS
    <3>1. i < k \/ k < i
      OBVIOUS
    <3> QED
      BY <3>1, <1>4
  <2> HIDE DEF Up, T
  <2> QED
    BY <2>1, <2>2
<1>6. f \in Injection(P, T)
  <2> HIDE DEF f, T
  <2> QED
    BY <1>5 DEF Injection, IsInjective
<1>7. f \in Surjection(P, T)
  <2> HIDE DEF f, T
  <2> QED
    BY <1>2, <1>6, FS_Injection
<1>8. PICK i \in P : f[i] = n
  <2> HIDE DEF f
  <2> QED
    BY <1>7 DEF Surjection
<1>9. Cardinality(Up(i)) = n
  BY <1>8
<1> QED
  BY <1>9 DEF Nth

(* The channels of C in order are channels of C.                           *)
LEMMA InOrderIs ==
    ASSUME NEW C \in SUBSET Channels
    PROVE  /\ InOrder(C) \in Seq(C)
           /\ Len(InOrder(C)) \in Nat
           /\ DOMAIN InOrder(C) = 1 .. Len(InOrder(C))
<1> DEFINE P == {i \in DOMAIN Order : Order[i] \in C}
           c == Cardinality(P)
           s == [n \in 1 .. c |-> Order[Nth(P, n)]]
<1>1. Order \in Seq(Channels) /\ Len(Order) \in Nat /\ DOMAIN Order = 1 .. Len(Order)
  BY StateConstants DEF StateConstants
<1>2. IsFiniteSet(1 .. Len(Order))
  BY <1>1, FS_Interval
<1>3. P \in SUBSET (1 .. Len(Order)) /\ P \in SUBSET Nat
  BY <1>1
<1>4. IsFiniteSet(P)
  <2> HIDE DEF P
  <2> QED
    BY <1>2, <1>3, FS_Subset
<1>5. c \in Nat
  BY <1>4, FS_CardinalityType
<1>6. \A n \in 1 .. c : Order[Nth(P, n)] \in C
  <2>1. \A n \in 1 .. c : Nth(P, n) \in P
    <3> HIDE DEF P
    <3> QED
      BY <1>3, <1>4, NthIs
  <2> QED
    BY <2>1
<1>7. InOrder(C) = s
  BY DEF InOrder
<1>8. s \in Seq(C) /\ Len(s) = c
  <2> HIDE DEF P, c
  <2> QED
    BY <1>5, <1>6
<1> QED
  BY <1>5, <1>7, <1>8

(* What the link takes is a beginning of what it is offered, and fits.     *)
LEMMA FittingIs ==
    ASSUME NEW S, NEW s \in Seq(S), LinkTypes
    PROVE  /\ Fitting(s) \in Seq(S) /\ Len(Fitting(s)) \in Nat
           /\ DOMAIN Fitting(s) = 1 .. Len(Fitting(s))
           /\ Len(Fitting(s)) <= Len(s)
           /\ \A i \in 1 .. Len(Fitting(s)) : Fitting(s)[i] = s[i]
           /\ Len(link) + Len(Fitting(s)) <= MaxInFlight
<1> DEFINE a == Len(s)
           b == MaxInFlight - Len(link)
           n == Min({a, b})
<1>1. a \in Nat /\ b \in Nat /\ Len(link) \in Nat
  BY Basics DEF LinkTypes
<1>2. n \in {a, b} /\ n <= a /\ n <= b
  <2> HIDE DEF a, b
  <2>1. \E x \in {a, b} : \A y \in {a, b} : x <= y
    BY <1>1
  <2> QED
    BY <2>1 DEF Min
<1>3. n \in 0 .. a
  BY <1>1, <1>2
<1>4. Fitting(s) = SubSeq(s, 1, n)
  BY DEF Fitting
<1> HIDE DEF n
<1>5. /\ SubSeq(s, 1, n) \in Seq(S) /\ Len(SubSeq(s, 1, n)) = n
      /\ \A i \in 1 .. n : SubSeq(s, 1, n)[i] = s[i]
  BY <1>1, <1>3
<1> QED
  BY <1>1, <1>2, <1>3, <1>4, <1>5, Basics

(* A sequence after another.                                               *)
LEMMA ConcatIs ==
    ASSUME NEW S, NEW a \in Seq(S), NEW b \in Seq(S)
    PROVE  /\ a \o b \in Seq(S) /\ Len(a \o b) = Len(a) + Len(b)
           /\ Len(a) \in Nat /\ Len(b) \in Nat
           /\ \A j \in 1 .. (Len(a) + Len(b)) :
                (a \o b)[j] = IF j <= Len(a) THEN a[j] ELSE b[j - Len(a)]
<1>1. a \o b \in Seq(S) /\ Len(a \o b) = Len(a) + Len(b) /\ Len(a) \in Nat /\ Len(b) \in Nat
  OBVIOUS
<1>2. ASSUME NEW j \in 1 .. (Len(a) + Len(b))
      PROVE  (a \o b)[j] = IF j <= Len(a) THEN a[j] ELSE b[j - Len(a)]
  OBVIOUS
<1> QED
  BY <1>1, <1>2

(* A sequence without its i-th element.                                    *)
LEMMA RemoveAtIs ==
    ASSUME NEW S, NEW s \in Seq(S), NEW i \in 1 .. Len(s)
    PROVE  /\ RemoveAt(s, i) \in Seq(S) /\ Len(RemoveAt(s, i)) = Len(s) - 1
           /\ \A j \in 1 .. (Len(s) - 1) :
                RemoveAt(s, i)[j] = s[IF j < i THEN j ELSE j + 1]
<1> DEFINE a == SubSeq(s, 1, i - 1)
           b == SubSeq(s, i + 1, Len(s))
<1>1. a \in Seq(S) /\ Len(a) = i - 1 /\ \A j \in 1 .. (i - 1) : a[j] = s[j]
  OBVIOUS
<1>2. b \in Seq(S) /\ Len(b) = Len(s) - i /\ \A j \in 1 .. (Len(s) - i) : b[j] = s[i + j]
  OBVIOUS
<1>3. RemoveAt(s, i) = a \o b
  BY DEF RemoveAt
<1> HIDE DEF a, b
<1>a. Len(a) + Len(b) = Len(s) - 1
  BY <1>1, <1>2
<1>b. /\ a \o b \in Seq(S) /\ Len(a \o b) = Len(a) + Len(b)
      /\ \A j \in 1 .. (Len(a) + Len(b)) :
           (a \o b)[j] = IF j <= Len(a) THEN a[j] ELSE b[j - Len(a)]
  BY <1>1, <1>2, ConcatIs
<1>4. /\ a \o b \in Seq(S) /\ Len(a \o b) = Len(s) - 1
      /\ \A j \in 1 .. (Len(s) - 1) : (a \o b)[j] = IF j < i THEN a[j] ELSE b[j - (i - 1)]
  BY <1>1, <1>a, <1>b
<1>5. \A j \in 1 .. (Len(s) - 1) : (a \o b)[j] = s[IF j < i THEN j ELSE j + 1]
  <2> SUFFICES ASSUME NEW j \in 1 .. (Len(s) - 1)
               PROVE  (a \o b)[j] = s[IF j < i THEN j ELSE j + 1]
    OBVIOUS
  <2>1. CASE j < i
    BY <2>1, <1>1, <1>4
  <2>2. CASE ~(j < i)
    <3>1. j - (i - 1) \in 1 .. (Len(s) - i) /\ i + (j - (i - 1)) = j + 1
      BY <2>2
    <3> QED
      BY <2>2, <3>1, <1>2, <1>4
  <2> QED
    BY <2>1, <2>2
<1> QED
  BY <1>3, <1>4, <1>5

------------------------------------------------------------------------------
(* Frames and the link                                                     *)

LEMMA FrameKinds ==
    ASSUME NEW f \in Frames
    PROVE  /\ f.type \in {"WELCOME", "STATE", "ANNOUNCE", "WITHDRAWN", "NOT_READY"}
           /\ f.type = "WELCOME" => f.promised \subseteq Channels /\ f.etag \in Nat
           /\ f.type = "STATE" => f.ch \in Channels /\ f.seq \in Seqs /\ f.ver \in 1 .. MaxVersion
           /\ f.type = "ANNOUNCE" => f.etag \in Nat
           /\ f.type = "WITHDRAWN" => f.ch \in Channels
  BY DEF Frames

LEMMA LinkFrames ==
    ASSUME LinkTypes, NEW i \in 1 .. Len(link)
    PROVE  link[i] \in Frames
  BY DEF LinkTypes

LEMMA LinkGrows ==
    ASSUME LinkTypes, NEW x \in Seq(Frames), Len(link) + Len(x) <= MaxInFlight,
           link' = link \o x, etag \in Nat, etag' \in Nat, etag <= etag',
           \A i \in 1 .. Len(x) : x[i].type = "ANNOUNCE" => x[i].etag <= etag'
    PROVE  LinkTypes'
<1>1. link \in Seq(Frames)
  BY DEF LinkTypes
<1>2. /\ link' \in Seq(Frames) /\ Len(link') = Len(link) + Len(x)
      /\ Len(link) \in Nat /\ Len(x) \in Nat
      /\ \A j \in 1 .. (Len(link) + Len(x)) :
           link'[j] = IF j <= Len(link) THEN link[j] ELSE x[j - Len(link)]
  BY <1>1, ConcatIs
<1>3. ASSUME NEW j \in 1 .. Len(link'), link'[j].type = "ANNOUNCE"
      PROVE  link'[j].etag <= etag'
  <2>1. CASE j <= Len(link)
    <3>1. j \in 1 .. Len(link) /\ link'[j] = link[j]
      BY <1>2, <2>1
    <3>2. link[j].etag \in Nat /\ link[j].etag <= etag
      BY <1>3, <3>1, LinkFrames, FrameKinds DEF LinkTypes, AnnouncedIsPast
    <3> QED
      BY <3>1, <3>2
  <2>2. CASE ~(j <= Len(link))
    <3>1. j - Len(link) \in 1 .. Len(x) /\ link'[j] = x[j - Len(link)]
      BY <1>2, <2>2
    <3> QED
      BY <1>3, <3>1
  <2> QED
    BY <2>1, <2>2
<1> QED
  BY <1>2, <1>3 DEF LinkTypes, AnnouncedIsPast

LEMMA LinkShrinks ==
    ASSUME LinkTypes, etag' = etag, NEW i \in 1 .. Len(link),
           link' = RemoveAt(link, i) \/ link' = link
    PROVE  LinkTypes'
<1>1. CASE link' = RemoveAt(link, i)
  <2>1. link \in Seq(Frames) /\ Len(link) \in Nat
    BY DEF LinkTypes
  <2>2. /\ link' \in Seq(Frames) /\ Len(link') = Len(link) - 1
        /\ \A j \in 1 .. (Len(link) - 1) : link'[j] = link[IF j < i THEN j ELSE j + 1]
    BY <1>1, <2>1, RemoveAtIs
  <2>3. \A j \in 1 .. Len(link') :
           link'[j].type = "ANNOUNCE" => link'[j].etag <= etag'
    <3> SUFFICES ASSUME NEW j \in 1 .. Len(link')
                 PROVE  link'[j].type = "ANNOUNCE" => link'[j].etag <= etag'
      OBVIOUS
    <3> DEFINE k == IF j < i THEN j ELSE j + 1
    <3>1. k \in 1 .. Len(link) /\ link'[j] = link[k]
      BY <2>1, <2>2
    <3> HIDE DEF k
    <3> QED
      BY <3>1 DEF LinkTypes, AnnouncedIsPast
  <2> QED
    BY <2>1, <2>2, <2>3, Basics DEF LinkTypes, AnnouncedIsPast
<1>2. CASE link' = link
  BY <1>2 DEF LinkTypes, AnnouncedIsPast
<1> QED
  BY <1>1, <1>2

LEMMA LinkEmpties ==
    ASSUME link' = <<>>
    PROVE  LinkTypes'
  BY Basics DEF LinkTypes, AnnouncedIsPast

------------------------------------------------------------------------------
(* Steps of the hub                                                        *)

LEMMA PublishTypes ==
    ASSUME Types, NEW ch \in Channels, Publish(ch)
    PROVE  Types'
<1>1. /\ retained[ch] \in Version /\ retained \in [Channels -> Version]
      /\ (retained[ch].seq + 1) % Modulus \in Seqs
      /\ retained[ch].ver + 1 \in 1 .. MaxVersion
  BY Basics DEF Types, HubTypes, Version, Publish, Seqs
<1> DEFINE r == [held |-> TRUE, seq |-> (retained[ch].seq + 1) % Modulus,
                 ver |-> retained[ch].ver + 1]
<1>2. r \in Version /\ r.ver # 0
  BY <1>1 DEF Version
<1>3. retained' = [retained EXCEPT ![ch] = r]
  BY DEF Publish
<1> HIDE DEF r
<1>4. retained' \in [Channels -> Version] /\ HeldIsPublished'
  BY <1>1, <1>2, <1>3 DEF Types, HubTypes, HeldIsPublished
<1>5. HubTypes'
  BY <1>4 DEF Types, HubTypes, Publish, paceVars
<1>6. LinkTypes' /\ ClientTypes' /\ CounterTypes'
  BY DEF Types, LinkTypes, AnnouncedIsPast, ClientTypes, Flags, CounterTypes, Publish,
         clientVars, fetchVars, gateVars, counters
<1> QED
  BY <1>5, <1>6 DEF Types

LEMMA ConnectTypes ==
    ASSUME Types, Connect
    PROVE  Types'
<1>1. HubTypes'
  <2>1. catalog' = catalog /\ etag' = etag /\ retained' = retained
    BY DEF Connect, catalogVars
  <2>2. subs' \subseteq Channels /\ pushed' = {} /\ told' = 0 /\ level' \in 0 .. 2
        /\ session' = "attached"
    BY DEF Connect, Types, HubTypes
  <2>4. ready' \in BOOLEAN
    <3>1. ready' = (ready /\ held = etag) \/ ready' = (held = etag)
      BY DEF Connect
    <3> QED
      BY <3>1
  <2>3. rec' \in [Channels -> Seqs \cup {NoSeq}] /\ shed' \in [Channels -> 0 .. 3]
    BY DEF Connect, Types, HubTypes
  <2> QED
    BY <2>1, <2>2, <2>3, <2>4 DEF Types, HubTypes, HeldIsPublished
<1>2. LinkTypes'
  <2> DEFINE w == [type |-> "WELCOME", etag |-> etag,
                   promised |-> {ch \in subs' \cap catalog : retained[ch].held}]
  <2>1. w \in Frames
    BY DEF Frames, Types, HubTypes
  <2>2. link' = <<w>> /\ w.type = "WELCOME"
    BY DEF Connect, Welcome
  <2> HIDE DEF w
  <2> QED
    BY <2>1, <2>2, Basics DEF LinkTypes, AnnouncedIsPast
<1>3. ClientTypes'
  <2>1. Flags'
    BY DEF Connect, Flags
  <2>2. shadow' \in [Channels -> Shadow]
    BY Basics DEF Connect
  <2>3. held' = held /\ etag' = etag /\ heard' = 0 /\ state' \in States
        /\ promised' = {} /\ adopted' = 0
    BY DEF Connect, States, catalogVars
  <2>4. held' \in 0 .. etag' /\ heard' \in 0 .. etag'
    BY <2>3 DEF Types, ClientTypes, HubTypes
  <2> QED
    BY <2>1, <2>2, <2>3, <2>4 DEF ClientTypes
<1>4. CounterTypes'
  BY StateConstants DEF Types, CounterTypes, Connect, StateConstants
<1> QED
  BY <1>1, <1>2, <1>3, <1>4 DEF Types

LEMMA ParkTypes ==
    ASSUME Types, Park
    PROVE  Types'
<1>1. HubTypes' /\ CounterTypes'
  BY DEF Types, HubTypes, HeldIsPublished, CounterTypes, Park, catalogVars, counters
<1>2. ClientTypes'
  BY DEF Types, ClientTypes, Flags, Park, catalogVars, clientVars, fetchVars, gateVars
<1>3. LinkTypes'
  BY LinkEmpties DEF Park
<1> QED
  BY <1>1, <1>2, <1>3 DEF Types

LEMMA CongestionTypes ==
    ASSUME Types, NEW l \in 0 .. 2, SetCongestionLevel(l)
    PROVE  Types'
<1>1. HubTypes' /\ CounterTypes'
  BY Basics DEF Types, HubTypes, HeldIsPublished, CounterTypes, SetCongestionLevel, catalogVars
<1>2. ClientTypes' /\ LinkTypes'
  BY DEF Types, ClientTypes, LinkTypes, AnnouncedIsPast, Flags, SetCongestionLevel,
         catalogVars, clientVars, fetchVars, gateVars
<1> QED
  BY <1>1, <1>2 DEF Types

(* The frames of a pump: sent are channels that are due.                   *)
StateFrame(ch) ==
    [type |-> "STATE", ch |-> ch, seq |-> retained[ch].seq, ver |-> retained[ch].ver]

(* What a pump sends.                                                      *)
Sends(sent) ==
    /\ sent \in Seq(Channels) /\ Len(sent) \in Nat /\ DOMAIN sent = 1 .. Len(sent)
    /\ \A i \in 1 .. Len(sent) :
         sent[i] \in subs \cap catalog /\ retained[sent[i]].held
    /\ Len(link) + Len(sent) <= MaxInFlight
    /\ link' = link \o [i \in 1 .. Len(sent) |-> StateFrame(sent[i])]

LEMMA PumpShape ==
    ASSUME Types, NEW D \in SUBSET {x \in Channels : Due(x)}, PumpStatePacing(D)
    PROVE  \E sent \in Seq(Channels) :
              /\ Sends(sent)
              /\ pushed' \subseteq pushed \cup D
              /\ rec' \in [Channels -> Seqs \cup {NoSeq}]
              /\ shed' \in [Channels -> 0 .. 3]
<1> DEFINE T == {ch \in D : ~Shed(ch)}
           o == InOrder(T)
           sent == Fitting(o)
<1>1. T \in SUBSET Channels /\ T \subseteq D
  OBVIOUS
<1> HIDE DEF T
<1>2. o \in Seq(T)
  BY <1>1, InOrderIs
<1> HIDE DEF o
<1>3. /\ sent \in Seq(T) /\ Len(sent) \in Nat /\ DOMAIN sent = 1 .. Len(sent)
      /\ Len(link) + Len(sent) <= MaxInFlight
  BY <1>2, FittingIs DEF Types
<1>4. /\ link' = link \o [i \in DOMAIN sent |-> StateFrame(sent[i])]
      /\ pushed' = pushed \cup ToSet(sent) \cup (D \ T)
      /\ rec' = [ch \in Channels |-> IF ch \in ToSet(sent) THEN retained[ch].seq ELSE rec[ch]]
      /\ shed' = [ch \in Channels |->
                    IF ch \in D \cap pushed /\ ShedDecision(Priority[ch], level) > 1
                    THEN (shed[ch] + 1) % 4 ELSE shed[ch]]
  BY DEF PumpStatePacing, Recorded, StateFrame, T, o
<1> HIDE DEF sent
<1>5. \A i \in 1 .. Len(sent) : sent[i] \in T
  BY <1>3
<1>6. ToSet(sent) \subseteq T
  BY <1>3, <1>5 DEF ToSet
<1>7. Sends(sent)
  <2>1. sent \in Seq(Channels)
    BY <1>1, <1>3
  <2>2. \A i \in 1 .. Len(sent) : sent[i] \in subs \cap catalog /\ retained[sent[i]].held
    BY <1>1, <1>5 DEF Due
  <2> QED
    BY <1>3, <1>4, <2>1, <2>2 DEF Sends
<1>8. pushed' \subseteq pushed \cup D
  BY <1>1, <1>4, <1>6
<1>9. rec' \in [Channels -> Seqs \cup {NoSeq}]
  BY <1>4 DEF Types, HubTypes, Version
<1>10. shed' \in [Channels -> 0 .. 3]
  <2>1. \A n \in 0 .. 3 : (n + 1) % 4 \in 0 .. 3
    OBVIOUS
  <2> QED
    BY <1>4, <2>1 DEF Types, HubTypes
<1>11. sent \in Seq(Channels)
  BY <1>1, <1>3
<1> QED
  BY <1>7, <1>8, <1>9, <1>10, <1>11

(* Frame f has the latest value of its channel.                            *)
IsLatest(f) ==
    /\ f.type = "STATE" /\ f.ch \in Channels /\ retained[f.ch].held
    /\ f.ver = retained[f.ch].ver /\ f.seq = retained[f.ch].seq

(* What is sent of a channel is its latest value.                          *)
LEMMA SentFrames ==
    ASSUME Types, NEW sent, Sends(sent), NEW x, x = [i \in 1 .. Len(sent) |-> StateFrame(sent[i])]
    PROVE  /\ x \in Seq(Frames) /\ Len(x) = Len(sent) /\ link' = link \o x
           /\ \A i \in 1 .. Len(x) : IsLatest(x[i])
<1>1. ASSUME NEW i \in 1 .. Len(sent)
      PROVE  StateFrame(sent[i]) \in Frames /\ IsLatest(StateFrame(sent[i]))
  <2>1. sent[i] \in Channels /\ retained[sent[i]].held
    BY DEF Sends, Types, HubTypes
  <2>2. retained[sent[i]].seq \in Seqs /\ retained[sent[i]].ver \in 1 .. MaxVersion
    BY <2>1, Basics DEF Types, HubTypes, HeldIsPublished, Version
  <2>3. StateFrame(sent[i]) \in Frames
    BY <2>1, <2>2 DEF StateFrame, Frames
  <2>4. IsLatest(StateFrame(sent[i]))
    BY <2>1 DEF StateFrame, IsLatest
  <2> QED
    BY <2>3, <2>4
<1>2. Len(sent) \in Nat
  BY DEF Sends
<1>3. x \in Seq(Frames) /\ Len(x) = Len(sent)
  BY <1>1, <1>2
<1>4. \A i \in 1 .. Len(x) : x[i] = StateFrame(sent[i])
  BY <1>3
<1>5. \A i \in 1 .. Len(x) : IsLatest(x[i])
  BY <1>1, <1>3, <1>4
<1>6. link' = link \o x
  BY DEF Sends
<1> QED
  BY <1>3, <1>5, <1>6

LEMMA SendsTypes ==
    ASSUME Types, NEW sent, Sends(sent), etag' = etag
    PROVE  LinkTypes'
<1> DEFINE x == [i \in 1 .. Len(sent) |-> StateFrame(sent[i])]
<1>1. /\ x \in Seq(Frames) /\ Len(x) = Len(sent) /\ link' = link \o x
      /\ \A i \in 1 .. Len(x) : IsLatest(x[i])
  BY SentFrames
<1> HIDE DEF x
<1>2. LinkTypes /\ etag \in Nat /\ etag' \in Nat /\ etag <= etag'
  BY DEF Types, HubTypes
<1>3. Len(link) + Len(x) <= MaxInFlight
  BY <1>1 DEF Sends
<1>4. \A i \in 1 .. Len(x) : x[i].type = "ANNOUNCE" => x[i].etag <= etag'
  BY <1>1 DEF IsLatest
<1> QED
  BY <1>1, <1>2, <1>3, <1>4, LinkGrows

LEMMA PumpTypes ==
    ASSUME Types, NEW D \in SUBSET {x \in Channels : Due(x)}, PumpStatePacing(D)
    PROVE  Types'
<1>1. PICK sent \in Seq(Channels) :
         /\ Sends(sent)
         /\ pushed' \subseteq pushed \cup D
         /\ rec' \in [Channels -> Seqs \cup {NoSeq}]
         /\ shed' \in [Channels -> 0 .. 3]
  BY PumpShape
<1>2. D \subseteq subs
  BY DEF Due
<1>3. UNCHANGED <<catalogVars, session, ready, subs, told, level, clientVars, counters>>
  BY DEF PumpStatePacing
<1>4. HubTypes' /\ CounterTypes'
  BY <1>1, <1>2, <1>3 DEF Types, HubTypes, HeldIsPublished, CounterTypes, catalogVars, counters
<1>5. ClientTypes'
  BY <1>3 DEF Types, ClientTypes, Flags, catalogVars, clientVars, fetchVars, gateVars
<1>6. LinkTypes'
  BY <1>1, <1>3, SendsTypes DEF catalogVars
<1> QED
  BY <1>4, <1>5, <1>6 DEF Types

(* One more frame.                                                         *)
LEMMA OneFrame ==
    ASSUME Types, NEW f \in Frames, Len(link) < MaxInFlight, link' = Append(link, f),
           etag' = etag, f.type = "ANNOUNCE" => f.etag <= etag
    PROVE  LinkTypes'
<1>1. /\ link \in Seq(Frames) /\ etag \in Nat /\ etag' \in Nat /\ etag <= etag'
      /\ Len(link) \in Nat /\ LinkTypes
  BY DEF Types, LinkTypes, HubTypes
<1> DEFINE x == <<f>>
<1>2. x \in Seq(Frames) /\ Len(x) = 1 /\ x[1] = f /\ link' = link \o x
  BY <1>1
<1> HIDE DEF x
<1>3. Len(link) + Len(x) <= MaxInFlight
  BY <1>1, <1>2, Basics
<1>4. \A i \in 1 .. Len(x) : x[i].type = "ANNOUNCE" => x[i].etag <= etag'
  BY <1>2
<1> QED
  BY <1>1, <1>2, <1>3, <1>4, LinkGrows

LEMMA PumpAnnouncementTypes ==
    ASSUME Types, PumpAnnouncement
    PROVE  Types'
<1>1. HubTypes' /\ CounterTypes'
  BY DEF Types, HubTypes, HeldIsPublished, CounterTypes, PumpAnnouncement, catalogVars, counters
<1>2. ClientTypes'
  BY DEF Types, ClientTypes, Flags, PumpAnnouncement, catalogVars, clientVars, fetchVars, gateVars
<1>3. LinkTypes'
  <2>1. Announcement \in Frames /\ Announcement.etag = etag /\ etag \in Nat
    BY DEF Announcement, Frames, Types, HubTypes
  <2> QED
    BY <2>1, OneFrame DEF PumpAnnouncement, catalogVars
<1> QED
  BY <1>1, <1>2, <1>3 DEF Types

(* Frames that are offered to the link.                                    *)
LEMMA OfferTypes ==
    ASSUME Types, NEW x \in Seq(Frames), link' = link \o Fitting(x),
           etag' \in Nat, etag <= etag',
           \A i \in 1 .. Len(x) : x[i].type = "ANNOUNCE" => x[i].etag <= etag'
    PROVE  LinkTypes'
<1> DEFINE y == Fitting(x)
<1>1. LinkTypes /\ etag \in Nat
  BY DEF Types, HubTypes
<1>2. /\ y \in Seq(Frames) /\ Len(y) \in Nat /\ Len(y) <= Len(x)
      /\ \A i \in 1 .. Len(y) : y[i] = x[i]
      /\ Len(link) + Len(y) <= MaxInFlight
  BY <1>1, FittingIs
<1>3. link' = link \o y
  OBVIOUS
<1> HIDE DEF y
<1>4. \A i \in 1 .. Len(y) : y[i].type = "ANNOUNCE" => y[i].etag <= etag'
  <2>1. \A i \in 1 .. Len(y) : i \in 1 .. Len(x)
    BY <1>2
  <2> QED
    BY <1>2, <2>1
<1> QED
  BY <1>1, <1>2, <1>3, <1>4, LinkGrows

LEMMA SubscribeTypes ==
    ASSUME Types, NEW ch \in Channels, Subscribe(ch)
    PROVE  Types'
<1>1. UNCHANGED <<catalogVars, session, ready, rec, shed, told, level, link,
                  held, heard, announced, catalogReady, pending, refetching, gateVars, links,
                  untold>>
  BY DEF Subscribe
<1>2. subs' \subseteq Channels /\ pushed' \subseteq subs' /\ late' \in BOOLEAN
      /\ calls' \in 0 .. MaxChanges
  <2>1. subs' \subseteq Channels /\ pushed' \subseteq subs'
    BY DEF Subscribe, Granting, Types, HubTypes
  <2>2. late' \in BOOLEAN
    BY DEF Subscribe, Types, ClientTypes, Flags
  <2>3. calls' \in 0 .. MaxChanges
    BY Basics DEF Subscribe, Types, CounterTypes
  <2> QED
    BY <2>1, <2>2, <2>3
<1>3. HubTypes' /\ CounterTypes'
  BY <1>1, <1>2 DEF Types, HubTypes, HeldIsPublished, CounterTypes, catalogVars
<1>4. ClientTypes' /\ LinkTypes'
  BY <1>1, <1>2 DEF Types, ClientTypes, LinkTypes, AnnouncedIsPast, Flags, catalogVars, gateVars
<1> QED
  BY <1>3, <1>4 DEF Types

(* What catalogChanged tells the client: withdrawals, and the new catalog. *)
Notices ==
    {f \in Frames : \/ f.type = "WITHDRAWN"
                    \/ f.type = "ANNOUNCE" /\ f.etag = etag + 1}

LEMMA ChangeShape ==
    ASSUME Types, NEW gone \in SUBSET Channels, NEW new \in SUBSET Channels,
           NEW fixedSame \in BOOLEAN, CatalogChanged(gone, new, fixedSame)
    PROVE  \E x \in Seq(Notices) : link' = link \/ link' = link \o Fitting(x)
<1> DEFINE C == gone \cap subs
           o == InOrder(C)
           nacks == [i \in DOMAIN o |-> [type |-> "WITHDRAWN", ch |-> o[i]]]
           last == [type |-> "ANNOUNCE", etag |-> etag + 1]
           tail == IF ~fixedSame /\ ready THEN <<last>> ELSE <<>>
<1>1. C \in SUBSET Channels
  OBVIOUS
<1>2. o \in Seq(C) /\ Len(o) \in Nat /\ DOMAIN o = 1 .. Len(o)
  <2> HIDE DEF C
  <2> QED
    BY <1>1, InOrderIs
<1>3. last \in Notices
  BY DEF Notices, Frames, Types, HubTypes
<1>4. tail \in Seq(Notices)
  <2> HIDE DEF last
  <2> QED
    BY <1>3
<1>5. nacks \in Seq(Notices)
  <2> HIDE DEF o
  <2>1. \A i \in 1 .. Len(o) : o[i] \in Channels
    BY <1>1, <1>2
  <2>2. \A c \in Channels : [type |-> "WITHDRAWN", ch |-> c] \in Notices
    BY DEF Notices, Frames
  <2> QED
    BY <1>2, <2>1, <2>2
<1>6. [Announcement EXCEPT !.etag = @ + 1] = last
  BY DEF Announcement
<1>7. link' = link \/ link' = link \o Fitting(nacks \o tail)
  BY <1>6 DEF CatalogChanged
<1> HIDE DEF nacks, tail
<1>8. nacks \o tail \in Seq(Notices)
  BY <1>4, <1>5
<1> QED
  BY <1>7, <1>8

LEMMA ChangeTypes ==
    ASSUME Types, NEW gone \in SUBSET Channels, NEW new \in SUBSET Channels,
           NEW fixedSame \in BOOLEAN, CatalogChanged(gone, new, fixedSame)
    PROVE  Types'
<1>1. /\ etag' = etag + 1 /\ etag' \in 1 .. (MaxChanges + 1) /\ etag \in Nat /\ etag' \in Nat
      /\ etag <= etag'
  BY Basics DEF CatalogChanged, Types, HubTypes
<1>2. retained' \in [Channels -> Version] /\ HeldIsPublished'
  <2> DEFINE gap(ch) == [held |-> FALSE, seq |-> 0, ver |-> retained[ch].ver]
  <2>1. \A ch \in Channels : gap(ch) \in Version /\ gap(ch).held = FALSE /\ retained[ch] \in Version
    BY Basics DEF Types, HubTypes, Version
  <2>2. retained' = [ch \in Channels |-> IF ch \in gone THEN gap(ch) ELSE retained[ch]]
    BY DEF CatalogChanged
  <2> HIDE DEF gap
  <2> QED
    BY <2>1, <2>2 DEF Types, HubTypes, HeldIsPublished
<1>3. /\ catalog' \subseteq Channels /\ subs' \subseteq Channels /\ pushed' \subseteq subs'
      /\ session' = session /\ level' = level
  BY DEF CatalogChanged, Types, HubTypes
<1>4. /\ rec' \in [Channels -> Seqs \cup {NoSeq}] /\ shed' \in [Channels -> 0 .. 3]
  BY DEF CatalogChanged, RecordsWithout, Types, HubTypes
<1>5. ready' \in BOOLEAN /\ told' \in 0 .. etag'
  <2>1. ready' = (ready /\ fixedSame) /\ (told' = told \/ told' = 0)
    BY DEF CatalogChanged
  <2>2. told' \in 0 .. etag'
    BY <1>1, <2>1 DEF Types, HubTypes
  <2> QED
    BY <2>1, <2>2
<1>6. HubTypes'
  BY <1>1, <1>2, <1>3, <1>4, <1>5 DEF Types, HubTypes
<1>7. LinkTypes'
  <2>1. PICK x \in Seq(Notices) : link' = link \/ link' = link \o Fitting(x)
    BY ChangeShape
  <2>2. CASE link' = link
    <3>1. \A i \in 1 .. Len(link) : link[i].type = "ANNOUNCE" => link[i].etag <= etag'
      BY <1>1, LinkFrames, FrameKinds DEF Types, LinkTypes, AnnouncedIsPast
    <3> QED
      BY <2>2, <3>1 DEF Types, LinkTypes, AnnouncedIsPast
  <2>3. CASE link' = link \o Fitting(x)
    <3>1. x \in Seq(Frames)
      BY DEF Notices
    <3>2. \A i \in 1 .. Len(x) : x[i] \in Notices
      OBVIOUS
    <3>3. \A i \in 1 .. Len(x) : x[i].type = "ANNOUNCE" => x[i].etag <= etag'
      BY <1>1, <3>2 DEF Notices
    <3> QED
      BY <1>1, <2>3, <3>1, <3>3, OfferTypes
  <2> QED
    BY <2>1, <2>2, <2>3
<1>8. ClientTypes'
  <2>1. UNCHANGED clientVars
    BY DEF CatalogChanged
  <2>2. held' \in 0 .. etag' /\ heard' \in 0 .. etag'
    BY <1>1, <2>1 DEF Types, ClientTypes, clientVars, fetchVars
  <2> QED
    BY <2>1, <2>2 DEF Types, ClientTypes, Flags, clientVars, fetchVars, gateVars
<1>9. CounterTypes'
  BY DEF CatalogChanged, Types, CounterTypes
<1> QED
  BY <1>6, <1>7, <1>8, <1>9 DEF Types

LEMMA RefuseIntentTypes ==
    ASSUME Types, RefuseIntent
    PROVE  Types'
<1>1. HubTypes' /\ CounterTypes' /\ etag' = etag
  BY DEF Types, HubTypes, HeldIsPublished, CounterTypes, RefuseIntent, hubVars, catalogVars,
         paceVars, counters
<1>2. ClientTypes'
  BY DEF Types, ClientTypes, Flags, RefuseIntent, hubVars, catalogVars, clientVars, fetchVars,
         gateVars
<1>3. LinkTypes'
  <2> DEFINE f == [type |-> "NOT_READY"]
             x == <<f>>
  <2>1. f \in Frames /\ f.type # "ANNOUNCE"
    BY DEF Frames
  <2>2. link' = link \o Fitting(x)
    BY DEF RefuseIntent
  <2>3. x \in Seq(Frames) /\ \A i \in 1 .. Len(x) : x[i].type # "ANNOUNCE"
    <3> HIDE DEF f
    <3> QED
      BY <2>1
  <2>4. etag' \in Nat /\ etag <= etag'
    BY <1>1 DEF HubTypes
  <2> HIDE DEF x
  <2> QED
    BY <2>2, <2>3, <2>4, OfferTypes
<1> QED
  BY <1>1, <1>2, <1>3 DEF Types

------------------------------------------------------------------------------
(* Steps of the client                                                     *)

LEMMA GateIs ==
    ASSUME NEW s \in States, NEW ok, NEW n, NEW p
    PROVE  Gate(s, ok, n, p) \in States
  BY DEF Gate, States

(* What a handler of the client leaves alone at the hub.                   *)
HubKept == UNCHANGED <<catalogVars, session, rec, shed, level>>

LEMMA HubKeptTypes ==
    ASSUME Types, HubKept, ready' \in BOOLEAN, subs' \subseteq Channels,
           pushed' \subseteq subs', told' \in 0 .. etag
    PROVE  HubTypes' /\ etag' = etag
  BY DEF Types, HubTypes, HeldIsPublished, HubKept, catalogVars

LEMMA WelcomeTypes ==
    ASSUME Types, NEW f \in Frames, HandleWelcome(f)
    PROVE  HubTypes' /\ ClientTypes'
<1>1. HubKept /\ ready' = ready
  BY DEF HandleWelcome, HubKept
<1>2. f.promised \subseteq Channels
  BY FrameKinds DEF HandleWelcome
<1>3. subs' \subseteq Channels /\ pushed' \subseteq subs' /\ told' \in 0 .. etag
  <2>1. \/ UNCHANGED <<subs, pushed, told>>
        \/ ResendSubscriptionWishes
    BY DEF HandleWelcome
  <2> QED
    BY <2>1 DEF ResendSubscriptionWishes, Granting, Types, HubTypes
<1>4. HubTypes' /\ etag' = etag
  BY <1>1, <1>3, HubKeptTypes DEF Types, HubTypes
<1>5. CASE state # "HELLO_SENT"
  <2>1. UNCHANGED clientVars
    BY <1>5 DEF HandleWelcome
  <2> QED
    BY <1>4, <2>1 DEF Types, ClientTypes, Flags, clientVars, fetchVars, gateVars
<1>6. CASE state = "HELLO_SENT"
  <2>1. /\ shadow' = CleanShadow /\ promised' = f.promised /\ adopted' = 0
        /\ state' = Gate("SYNCING", catalogReady', 0, f.promised)
        /\ announced' = FALSE /\ catalogReady' = (held = f.etag) /\ late' = FALSE
        /\ UNCHANGED <<held, heard, pending, refetching, resyncing>>
    BY <1>6 DEF HandleWelcome
  <2>2. shadow' \in [Channels -> Shadow]
    BY <2>1, Basics DEF CleanShadow
  <2>3. state' \in States
    BY <2>1, GateIs DEF States
  <2>4. Flags'
    BY <2>1 DEF Types, ClientTypes, Flags
  <2> QED
    BY <1>2, <1>4, <2>1, <2>2, <2>3, <2>4 DEF Types, ClientTypes
<1> QED
  BY <1>4, <1>5, <1>6

(* A handler that leaves the hub alone.                                    *)
LEMMA HubSame ==
    ASSUME Types, UNCHANGED hubVars
    PROVE  HubTypes' /\ etag' = etag
  BY DEF Types, HubTypes, HeldIsPublished, hubVars, catalogVars, paceVars

LEMMA StateTypes ==
    ASSUME Types, NEW f \in Frames, HandleState(f)
    PROVE  HubTypes' /\ ClientTypes'
<1>1. f.ch \in Channels /\ f.seq \in Seqs /\ f.ver \in 1 .. MaxVersion
  BY FrameKinds DEF HandleState
<1>2. HubTypes' /\ etag' = etag
  BY HubSame DEF HandleState
<1>3. shadow' \in [Channels -> Shadow]
  <2> DEFINE r == [seq |-> f.seq, ver |-> f.ver]
  <2>1. r \in Shadow
    BY <1>1, Basics DEF Shadow
  <2>2. shadow' = shadow \/ shadow' = [shadow EXCEPT ![f.ch] = r]
    BY DEF HandleState
  <2> HIDE DEF r
  <2> QED
    BY <1>1, <2>1, <2>2 DEF Types, ClientTypes
<1>4. adopted' \in Nat
  BY DEF HandleState, Types, ClientTypes
<1>5. state' \in States
  <2>1. \/ state' = "LIVE" \/ state' = state
        \/ state' = Gate(state, catalogReady, adopted', promised)
    BY DEF HandleState
  <2> QED
    BY <2>1, GateIs DEF Types, ClientTypes, States
<1>6. Flags'
  <2>1. pending' = FALSE /\ resyncing' = (resyncing /\ ~Reopened)
        /\ UNCHANGED <<announced, catalogReady, refetching, late>>
    BY DEF HandleState
  <2> QED
    BY <2>1 DEF Types, ClientTypes, Flags
<1>7. UNCHANGED <<held, heard, promised>>
  BY DEF HandleState
<1> QED
  BY <1>2, <1>3, <1>4, <1>5, <1>6, <1>7 DEF Types, ClientTypes

LEMMA AnnouncementTypes ==
    ASSUME Types, NEW f \in Frames, HandleAnnouncement(f), f.etag <= etag
    PROVE  HubTypes' /\ ClientTypes'
<1>1. f.etag \in Nat
  BY FrameKinds DEF HandleAnnouncement
<1>2. HubTypes' /\ etag' = etag
  BY HubSame DEF HandleAnnouncement
<1>3. heard' \in 0 .. etag
  <2>1. heard' = Max({heard, f.etag}) /\ heard \in 0 .. etag /\ f.etag \in 0 .. etag
    BY <1>1 DEF HandleAnnouncement, Types, ClientTypes, HubTypes
  <2>2. \E x \in {heard, f.etag} : \A y \in {heard, f.etag} : x >= y
    BY <2>1
  <2>3. Max({heard, f.etag}) \in {heard, f.etag}
    BY <2>2 DEF Max
  <2> QED
    BY <2>1, <2>3
<1>4. adopted' \in Nat
  BY DEF HandleAnnouncement, Types, ClientTypes
<1>5. state' \in States
  <2>1. \/ state' = "LIVE" \/ state' = state
        \/ state' = Gate(state, catalogReady, adopted', promised)
    BY DEF HandleAnnouncement
  <2> QED
    BY <2>1, GateIs DEF Types, ClientTypes, States
<1>6. Flags'
  <2>1. pending' = FALSE /\ announced' = TRUE /\ resyncing' = (resyncing /\ ~Reopened)
        /\ refetching' = (refetching \/ (f.etag > heard /\ f.etag # held /\ catalogReady))
        /\ UNCHANGED <<catalogReady, late>>
    BY DEF HandleAnnouncement
  <2> QED
    BY <2>1 DEF Types, ClientTypes, Flags
<1>7. UNCHANGED <<held, shadow, promised>>
  BY DEF HandleAnnouncement
<1> QED
  BY <1>2, <1>3, <1>4, <1>5, <1>6, <1>7 DEF Types, ClientTypes

LEMMA WithdrawnTypes ==
    ASSUME Types, NEW f \in Frames, HandleWithdrawn(f)
    PROVE  HubTypes' /\ ClientTypes'
<1>1. HubTypes' /\ etag' = etag
  BY HubSame DEF HandleWithdrawn
<1>2. shadow' \in [Channels -> Shadow] /\ state' \in States
  BY Basics DEF HandleWithdrawn, ShadowWithout, Types, ClientTypes, States
<1>3. UNCHANGED <<fetchVars, resyncing, promised, adopted>>
  BY DEF HandleWithdrawn
<1> QED
  BY <1>1, <1>2, <1>3 DEF Types, ClientTypes, Flags, fetchVars

LEMMA NotReadyTypes ==
    ASSUME Types, NEW f \in Frames, HandleNotReady(f)
    PROVE  HubTypes' /\ ClientTypes'
<1>1. ready' \in BOOLEAN /\ pending' \in BOOLEAN /\ resyncing' \in BOOLEAN
  <2>1. \/ UNCHANGED <<resyncing, ready, pending>>
        \/ /\ resyncing' = TRUE
           /\ ready' = (ready \/ (~refetching /\ session = "attached"))
           /\ pending' = (pending \/ ~refetching)
    BY DEF HandleNotReady, SendCatalogReady
  <2> QED
    BY <2>1 DEF Types, HubTypes, ClientTypes, Flags
<1>2. state' \in States
  BY DEF HandleNotReady, Types, ClientTypes, States
<1>3. UNCHANGED <<catalogVars, session, paceVars, held, heard, announced, catalogReady,
                  refetching, late, shadow, promised, adopted>>
  BY DEF HandleNotReady
<1>4. HubTypes' /\ etag' = etag
  BY <1>1, <1>3, HubKeptTypes DEF HubKept, paceVars, Types, HubTypes
<1> QED
  BY <1>1, <1>2, <1>3, <1>4 DEF Types, ClientTypes, Flags

LEMMA ReceiveTypes ==
    ASSUME Types, Receive
    PROVE  Types'
<1>1. PICK i \in DOMAIN link :
         /\ \/ HandleWelcome(link[i]) \/ HandleState(link[i]) \/ HandleAnnouncement(link[i])
            \/ HandleWithdrawn(link[i]) \/ HandleNotReady(link[i])
         /\ link' = RemoveAt(link, i) \/ (Lossy /\ UNCHANGED link)
  BY DEF Receive
<1>2. i \in 1 .. Len(link) /\ link[i] \in Frames
  BY LinkFrames DEF Types, LinkTypes
<1>3. HandleAnnouncement(link[i]) => link[i].etag <= etag
  BY <1>2 DEF HandleAnnouncement, Types, LinkTypes, AnnouncedIsPast
<1>4. HubTypes' /\ ClientTypes'
  BY <1>1, <1>2, <1>3, WelcomeTypes, StateTypes, AnnouncementTypes, WithdrawnTypes, NotReadyTypes
<1>5. etag' = etag
  BY <1>1 DEF HandleWelcome, HandleState, HandleAnnouncement, HandleWithdrawn, HandleNotReady,
              hubVars, catalogVars
<1>6. LinkTypes'
  BY <1>1, <1>2, <1>5, LinkShrinks DEF Types
<1>7. CounterTypes'
  BY DEF Receive, Types, CounterTypes, counters
<1> QED
  BY <1>4, <1>6, <1>7 DEF Types

LEMMA LoseFrameTypes ==
    ASSUME Types, LoseFrame
    PROVE  Types'
<1>1. PICK i \in DOMAIN link : link' = RemoveAt(link, i)
  BY DEF LoseFrame
<1>2. i \in 1 .. Len(link)
  BY DEF Types, LinkTypes
<1>3. UNCHANGED <<hubVars, clientVars, counters>>
  BY DEF LoseFrame
<1>4. HubTypes' /\ etag' = etag
  BY <1>3, HubSame
<1>5. LinkTypes'
  BY <1>1, <1>2, <1>4, LinkShrinks DEF Types
<1>6. ClientTypes' /\ CounterTypes'
  BY <1>3, <1>4 DEF Types, ClientTypes, Flags, CounterTypes, clientVars, fetchVars, gateVars,
                    counters
<1> QED
  BY <1>4, <1>5, <1>6 DEF Types

LEMMA CatalogReadyTypes ==
    ASSUME Types, CatalogReady
    PROVE  Types'
<1>1. ready' \in BOOLEAN /\ pending' \in BOOLEAN
  <2>1. ready' = (ready \/ (TRUE /\ session = "attached")) /\ pending' = (pending \/ TRUE)
    BY DEF CatalogReady, SendCatalogReady
  <2> QED
    BY <2>1
<1>2. UNCHANGED <<catalogVars, session, paceVars, link, heard, announced, late, resyncing,
                  shadow, promised, adopted, counters>>
  BY DEF CatalogReady
<1>3. HubTypes' /\ etag' = etag
  BY <1>1, <1>2, HubKeptTypes DEF HubKept, paceVars, Types, HubTypes
<1>4. state' \in States /\ held' \in 0 .. etag /\ catalogReady' = TRUE /\ refetching' = FALSE
  <2>1. state' = Gate(state, TRUE, adopted, promised) /\ held' = etag
        /\ catalogReady' = TRUE /\ refetching' = FALSE
    BY DEF CatalogReady
  <2>2. state' \in States
    BY <2>1, GateIs DEF Types, ClientTypes
  <2>3. held' \in 0 .. etag
    BY <2>1 DEF Types, HubTypes
  <2> QED
    BY <2>1, <2>2, <2>3
<1>5. ClientTypes'
  BY <1>1, <1>2, <1>3, <1>4 DEF Types, ClientTypes, Flags
<1>6. LinkTypes' /\ CounterTypes'
  BY <1>2, <1>3 DEF Types, LinkTypes, AnnouncedIsPast, CounterTypes, counters
<1> QED
  BY <1>3, <1>5, <1>6 DEF Types

LEMMA AbandonTypes ==
    ASSUME Types, AbandonRefetch
    PROVE  Types'
<1>1. ready' \in BOOLEAN /\ pending' \in BOOLEAN
  <2>1. ready' = (ready \/ (resyncing /\ session = "attached")) /\ pending' = (pending \/ resyncing)
    BY DEF AbandonRefetch, SendCatalogReady
  <2> QED
    BY <2>1 DEF Types, ClientTypes, Flags
<1>2. UNCHANGED <<catalogVars, session, paceVars, link, held, heard, announced, catalogReady,
                  late, gateVars, counters>> /\ refetching' = FALSE
  BY DEF AbandonRefetch
<1>3. HubTypes' /\ etag' = etag
  BY <1>1, <1>2, HubKeptTypes DEF HubKept, paceVars, Types, HubTypes
<1>4. ClientTypes'
  BY <1>1, <1>2, <1>3 DEF Types, ClientTypes, Flags, gateVars
<1>5. LinkTypes' /\ CounterTypes'
  BY <1>2, <1>3 DEF Types, LinkTypes, AnnouncedIsPast, CounterTypes, counters
<1> QED
  BY <1>3, <1>4, <1>5 DEF Types

LEMMA RepeatReadyTypes ==
    ASSUME Types, RepeatReady
    PROVE  Types'
<1>1. UNCHANGED <<catalogVars, session, paceVars, link, clientVars, counters>> /\ ready' = TRUE
  BY DEF RepeatReady
<1>2. HubTypes' /\ etag' = etag
  BY <1>1, HubKeptTypes DEF HubKept, paceVars, Types, HubTypes
<1>3. ClientTypes' /\ LinkTypes' /\ CounterTypes'
  BY <1>1, <1>2 DEF Types, ClientTypes, Flags, LinkTypes, AnnouncedIsPast, CounterTypes,
                    clientVars, fetchVars, gateVars, counters
<1> QED
  BY <1>2, <1>3 DEF Types

LEMMA LeaveTypes ==
    ASSUME Types, Leave
    PROVE  Types'
<1>1. UNCHANGED <<catalogVars, fetchVars, resyncing, shadow, promised, adopted, counters>>
      /\ state' = "CLOSED" /\ link' = <<>> /\ level' = 0
  BY DEF Leave
<1>2. HubTypes'
  <2>1. CASE UNCHANGED <<ready, subs, pushed, rec, shed, told>>
    <3>1. session' \in {"none", "attached", "parked"}
      BY DEF Leave, Types, HubTypes
    <3> QED
      BY <1>1, <2>1, <3>1 DEF Types, HubTypes, HeldIsPublished, catalogVars
  <2>2. CASE /\ session' = "none" /\ ready' = FALSE
             /\ subs' = {} /\ pushed' = {} /\ told' = 0
             /\ rec' = [ch \in Channels |-> NoSeq]
             /\ shed' = [ch \in Channels |-> 0]
    <3>1. rec' \in [Channels -> Seqs \cup {NoSeq}] /\ shed' \in [Channels -> 0 .. 3]
      BY <2>2
    <3>2. UNCHANGED <<catalog, etag, retained>> /\ told' \in 0 .. etag
      BY <1>1, <2>2 DEF catalogVars, Types, HubTypes
    <3>3. /\ session' = "none" /\ ready' = FALSE /\ subs' = {} /\ pushed' = {} /\ level' = 0
      BY <1>1, <2>2
    <3>4. /\ catalog' \subseteq Channels /\ etag' \in 1 .. (MaxChanges + 1)
          /\ retained' \in [Channels -> Version] /\ HeldIsPublished' /\ told' \in 0 .. etag'
      BY <3>2 DEF Types, HubTypes, HeldIsPublished
    <3>5. session' \in {"none", "attached", "parked"} /\ ready' \in BOOLEAN
      BY <3>3, Zenon
    <3>6. subs' \subseteq Channels /\ pushed' \subseteq subs'
      BY <3>3, Zenon
    <3>7. level' \in 0 .. 2
      BY <3>3
    <3> QED
      BY <3>1, <3>4, <3>5, <3>6, <3>7 DEF HubTypes
  <2> QED
    BY <2>1, <2>2 DEF Leave
<1>3. ClientTypes' /\ CounterTypes'
  BY <1>1 DEF Types, ClientTypes, Flags, States, CounterTypes, catalogVars, fetchVars, counters
<1>4. LinkTypes'
  BY <1>1, LinkEmpties
<1> QED
  BY <1>2, <1>3, <1>4 DEF Types

------------------------------------------------------------------------------
LEMMA InitTypes == Init => Types
<1> SUFFICES ASSUME Init PROVE Types
  OBVIOUS
<1>1. HubTypes
  <2> DEFINE r(ch) == [held |-> ch \in Seeded, seq |-> IF ch \in Seeded THEN FirstSeq ELSE 0,
                       ver |-> IF ch \in Seeded THEN 1 ELSE 0]
  <2>1. ASSUME NEW ch \in Channels
        PROVE  r(ch) \in Version /\ (r(ch).held => r(ch).ver # 0)
    <3>1. FirstSeq \in Seqs /\ 1 \in 0 .. MaxVersion /\ 0 \in 0 .. MaxVersion
      BY StateConstants, Basics DEF StateConstants
    <3>2. CASE ch \in Seeded
      <4>1. r(ch) = [held |-> TRUE, seq |-> FirstSeq, ver |-> 1]
        BY <3>2
      <4> QED
        BY <3>1, <4>1 DEF Version
    <3>3. CASE ch \notin Seeded
      <4>0. (ch \in Seeded) = FALSE
        BY <3>3
      <4>1. r(ch) = [held |-> FALSE, seq |-> 0, ver |-> 0]
        BY <4>0, Zenon
      <4> QED
        BY <3>1, <4>1, Basics DEF Version
    <3> QED
      BY <3>2, <3>3
  <2>2. retained = [ch \in Channels |-> r(ch)]
    BY DEF Init
  <2> HIDE DEF r
  <2>3. retained \in [Channels -> Version] /\ HeldIsPublished
    BY <2>1, <2>2 DEF HeldIsPublished
  <2>4. rec \in [Channels -> Seqs \cup {NoSeq}] /\ shed \in [Channels -> 0 .. 3]
    BY DEF Init
  <2>5. etag \in 1 .. (MaxChanges + 1) /\ told \in 0 .. etag /\ level \in 0 .. 2
    BY Basics DEF Init
  <2>6. /\ catalog = Channels /\ session = "none" /\ ready = FALSE
        /\ subs = {} /\ pushed = {}
    BY DEF Init
  <2> QED
    BY <2>3, <2>4, <2>5, <2>6 DEF HubTypes
<1>2. LinkTypes
  BY Basics DEF Init, LinkTypes, AnnouncedIsPast
<1>3. ClientTypes
  <2>1. Flags /\ promised = {} /\ adopted = 0 /\ state \in States
    BY DEF Init, Flags, States
  <2>2. held \in 0 .. etag /\ heard \in 0 .. etag
    BY DEF Init
  <2>3. shadow \in [Channels -> Shadow]
    BY Basics DEF Init
  <2> QED
    BY <2>1, <2>2, <2>3 DEF ClientTypes
<1>4. CounterTypes
  BY StateConstants DEF Init, CounterTypes, StateConstants
<1> QED
  BY <1>1, <1>2, <1>3, <1>4 DEF Types

(* At most one channel appears, vanishes or changes.                       *)
LEMMA ChangesAre ==
    ASSUME CatalogChanges
    PROVE  \E gone, new \in SUBSET Channels, fixedSame \in BOOLEAN :
              CatalogChanged(gone, new, fixedSame)
<1>1. PICK gone \in {{}} \cup {{ch} : ch \in Channels}, new \in {{}} \cup {{ch} : ch \in Channels},
           fixedSame \in BOOLEAN : CatalogChanged(gone, new, fixedSame)
  BY DEF CatalogChanges
<1>2. gone \in SUBSET Channels /\ new \in SUBSET Channels
  OBVIOUS
<1> QED
  BY <1>1, <1>2

LEMMA StutterTypes ==
    ASSUME Types, UNCHANGED vars
    PROVE  Types'
<1>1. UNCHANGED <<hubVars, clientVars, counters, link>>
  BY DEF vars
<1>2. HubTypes' /\ etag' = etag
  BY <1>1, HubSame
<1>3. ClientTypes' /\ LinkTypes' /\ CounterTypes'
  BY <1>1, <1>2 DEF Types, ClientTypes, Flags, LinkTypes, AnnouncedIsPast, CounterTypes,
                    clientVars, fetchVars, gateVars, counters
<1> QED
  BY <1>2, <1>3 DEF Types

LEMMA NextTypes ==
    ASSUME Types, [Next]_vars
    PROVE  Types'
<1>1. CASE \E ch \in Channels : Publish(ch) \/ Pump(ch) \/ Subscribe(ch)
  BY <1>1, PublishTypes, PumpTypes, SubscribeTypes DEF Pump
<1>2. CASE \E l \in 0 .. 2 : SetCongestionLevel(l)
  BY <1>2, CongestionTypes
<1>3. CASE Connect \/ Park \/ PumpAnnouncement \/ RefuseIntent
  BY <1>3, ConnectTypes, ParkTypes, PumpAnnouncementTypes, RefuseIntentTypes
<1>4. CASE CatalogChanges
  BY <1>4, ChangesAre, ChangeTypes
<1>5. CASE Receive \/ LoseFrame \/ CatalogReady \/ AbandonRefetch \/ RepeatReady
  BY <1>5, ReceiveTypes, LoseFrameTypes, CatalogReadyTypes, AbandonTypes, RepeatReadyTypes
<1>6. CASE RefuseCatalogTransfer \/ Disconnect
  BY <1>6, LeaveTypes DEF RefuseCatalogTransfer, Disconnect
<1>7. CASE UNCHANGED vars
  BY <1>7, StutterTypes
<1> QED
  BY <1>1, <1>2, <1>3, <1>4, <1>5, <1>6, <1>7 DEF Next

LEMMA TypesHold == Spec => []Types
  BY InitTypes, NextTypes, PTL DEF Spec

(* Every variable keeps its type: what is pushed is granted, the link      *)
(* never holds more than it can, and what a client holds or has heard of   *)
(* the catalog is not of the future.                                       *)
THEOREM StateTypesHold == Spec => []TypeOK
<1>1. Types => TypeOK
  <2> SUFFICES ASSUME Types PROVE TypeOK
    OBVIOUS
  <2>1. {announced, catalogReady, pending, refetching, resyncing, late} \subseteq BOOLEAN
    BY DEF Types, ClientTypes, Flags
  <2>2. /\ catalog \subseteq Channels /\ etag \in 1 .. (MaxChanges + 1)
        /\ session \in {"none", "attached", "parked"} /\ ready \in BOOLEAN
        /\ subs \subseteq Channels /\ pushed \subseteq subs
        /\ rec \in [Channels -> Seqs \cup {NoSeq}]
        /\ shed \in [Channels -> 0 .. 3] /\ told \in 0 .. etag /\ level \in 0 .. 2
    BY DEF Types, HubTypes
  <2>3. /\ retained \in [Channels -> [held : BOOLEAN, seq : Seqs, ver : 0 .. MaxVersion]]
        /\ shadow \in [Channels -> [seq : Seqs, ver : 0 .. MaxVersion]]
    BY DEF Types, HubTypes, ClientTypes, Version, Shadow
  <2>4. /\ link \in Seq(Frames) /\ Len(link) <= MaxInFlight
        /\ held \in 0 .. etag /\ heard \in 0 .. etag
        /\ state \in {"CLOSED", "HELLO_SENT", "SYNCING", "LIVE"}
        /\ promised \subseteq Channels /\ adopted \in Nat
        /\ links \in 0 .. MaxLinks /\ calls \in 0 .. MaxChanges
        /\ untold \subseteq Channels
    BY DEF Types, LinkTypes, ClientTypes, CounterTypes, States
  <2> QED
    BY <2>1, <2>2, <2>3, <2>4 DEF TypeOK
<1> QED
  BY <1>1, TypesHold, PTL

------------------------------------------------------------------------------
(* What a step may do to the retained values, the link and the shadow      *)

Quiet == retained' = retained /\ shadow' = shadow /\ link' = link

Publishes ==
    \E ch \in Channels :
      /\ retained[ch].ver < MaxVersion
      /\ retained' = [retained EXCEPT ![ch] =
           [held |-> TRUE, seq |-> (@.seq + 1) % Modulus, ver |-> @.ver + 1]]
      /\ shadow' = shadow /\ link' = link

(* A link without STATE frames; the shadow is kept or emptied.             *)
Restarts ==
    /\ retained' = retained
    /\ shadow' = shadow \/ shadow' = CleanShadow
    /\ \A i \in 1 .. Len(link') : link'[i].type # "STATE"

Pumps == retained' = retained /\ shadow' = shadow /\ \E sent : Sends(sent)

(* Frames other than STATE are offered; values may be dropped with their   *)
(* channel, versions are not.                                              *)
Tells ==
    /\ \A ch \in Channels : retained'[ch].ver = retained[ch].ver
    /\ Dynamic = {} => retained' = retained
    /\ shadow' = shadow
    /\ \E x \in Seq(Frames) :
         (\A i \in 1 .. Len(x) : x[i].type # "STATE") /\ link' = link \o x

(* Frame f reaches the client.                                             *)
Adopts(f) ==
    /\ f.type = "STATE" /\ Newer(f)
    /\ shadow' = [shadow EXCEPT ![f.ch] = [seq |-> f.seq, ver |-> f.ver]]

Reads ==
    /\ retained' = retained
    /\ \E i \in 1 .. Len(link) :
         /\ link' = RemoveAt(link, i) \/ link' = link
         /\ \/ shadow' = shadow \/ shadow' = CleanShadow
            \/ \E ch \in Channels : shadow' = ShadowWithout(ch)
            \/ (Ordered => i = 1) /\ Adopts(link[i])

Shape == Quiet \/ Publishes \/ Restarts \/ Pumps \/ Tells \/ Reads

LEMMA ReceiveReads ==
    ASSUME Types, Receive
    PROVE  Reads
<1>1. PICK i \in DOMAIN link :
         /\ Ordered => i = 1
         /\ \/ HandleWelcome(link[i]) \/ HandleState(link[i]) \/ HandleAnnouncement(link[i])
            \/ HandleWithdrawn(link[i]) \/ HandleNotReady(link[i])
         /\ link' = RemoveAt(link, i) \/ (Lossy /\ UNCHANGED link)
  BY DEF Receive
<1>2. i \in 1 .. Len(link) /\ link[i] \in Frames
  BY LinkFrames DEF Types, LinkTypes
<1>3. retained' = retained
  BY <1>1 DEF HandleWelcome, HandleState, HandleAnnouncement, HandleWithdrawn, HandleNotReady,
              hubVars, catalogVars
<1>4. \/ shadow' = shadow \/ shadow' = CleanShadow
      \/ \E ch \in Channels : shadow' = ShadowWithout(ch)
      \/ Adopts(link[i])
  <2>1. CASE HandleWelcome(link[i])
    BY <2>1 DEF HandleWelcome, clientVars, gateVars
  <2>2. CASE HandleState(link[i])
    BY <2>2 DEF HandleState, Adopts
  <2>3. CASE HandleAnnouncement(link[i]) \/ HandleNotReady(link[i])
    BY <2>3 DEF HandleAnnouncement, HandleNotReady
  <2>4. CASE HandleWithdrawn(link[i])
    BY <1>2, <2>4, FrameKinds DEF HandleWithdrawn
  <2> QED
    BY <1>1, <2>1, <2>2, <2>3, <2>4
<1> QED
  BY <1>1, <1>2, <1>3, <1>4 DEF Reads

LEMMA ChangeTells ==
    ASSUME Types, NEW gone \in SUBSET Channels, NEW new \in SUBSET Channels,
           NEW fixedSame \in BOOLEAN, CatalogChanged(gone, new, fixedSame)
    PROVE  Tells
<1>1. \A ch \in Channels : retained'[ch].ver = retained[ch].ver
  BY DEF CatalogChanged
<1>2. Dynamic # {} /\ shadow' = shadow
  BY DEF CatalogChanged, clientVars, gateVars
<1>3. PICK x \in Seq(Notices) : link' = link \/ link' = link \o Fitting(x)
  BY ChangeShape
<1> DEFINE e == <<>>
<1>4. CASE link' = link
  <2>1. e \in Seq(Frames) /\ Len(e) = 0 /\ link' = link \o e
    BY <1>4 DEF Types, LinkTypes
  <2> HIDE DEF e
  <2>2. \A i \in 1 .. Len(e) : e[i].type # "STATE"
    BY <2>1
  <2> QED
    BY <1>1, <1>2, <2>1, <2>2 DEF Tells
<1>5. CASE link' = link \o Fitting(x)
  <2>1. Fitting(x) \in Seq(Notices)
    BY FittingIs DEF Types
  <2>2. Fitting(x) \in Seq(Frames) /\ \A i \in 1 .. Len(Fitting(x)) : Fitting(x)[i].type # "STATE"
    BY <2>1 DEF Notices
  <2> QED
    BY <1>1, <1>2, <1>5, <2>2 DEF Tells
<1> QED
  BY <1>3, <1>4, <1>5

LEMMA AppendIs ==
    ASSUME NEW S, NEW s \in Seq(S), NEW f \in S
    PROVE  Append(s, f) = s \o <<f>>
  OBVIOUS

LEMMA OneTells ==
    ASSUME Types, NEW f \in Frames, f.type # "STATE", UNCHANGED <<retained, shadow>>,
           link' = Append(link, f) \/ link' = link \o Fitting(<<f>>)
    PROVE  Tells
<1> DEFINE x == <<f>>
<1>1. x \in Seq({f}) /\ {f} \subseteq Frames
  OBVIOUS
<1>2. Append(link, f) = link \o x
  BY AppendIs DEF Types, LinkTypes
<1> HIDE DEF x
<1>3. Fitting(x) \in Seq({f})
  BY <1>1, FittingIs DEF Types
<1>4. \E y \in Seq({f}) : link' = link \o y
  BY <1>1, <1>2, <1>3 DEF x
<1>5. \A y \in Seq({f}) : y \in Seq(Frames) /\ \A i \in 1 .. Len(y) : y[i].type # "STATE"
  OBVIOUS
<1> QED
  BY <1>4, <1>5 DEF Tells

LEMMA ConnectRestarts ==
    ASSUME Types, Connect \/ Park \/ Leave
    PROVE  Restarts
<1>1. CASE Connect
  <2>1. retained' = retained /\ shadow' = CleanShadow /\ link' = <<Welcome(subs')>>
    BY <1>1 DEF Connect, CleanShadow, catalogVars
  <2>2. Welcome(subs').type = "WELCOME"
    BY DEF Welcome
  <2> HIDE DEF Welcome
  <2>3. \A i \in 1 .. Len(link') : link'[i].type # "STATE"
    BY <2>1, <2>2
  <2> QED
    BY <2>1, <2>3 DEF Restarts
<1>2. CASE Park \/ Leave
  <2>1. retained' = retained /\ shadow' = shadow /\ link' = <<>>
    BY <1>2 DEF Park, Leave, catalogVars, clientVars, gateVars
  <2> QED
    BY <2>1 DEF Restarts
<1> QED
  BY <1>1, <1>2

LEMMA StepHasShape ==
    ASSUME Types, [Next]_vars
    PROVE  Shape
<1>1. CASE \E ch \in Channels : Publish(ch)
  BY <1>1 DEF Publish, Publishes, clientVars, gateVars, Shape
<1>2. CASE \E ch \in Channels : Pump(ch)
  <2>1. PICK D \in SUBSET {x \in Channels : Due(x)} : PumpStatePacing(D)
    BY <1>2 DEF Pump
  <2>2. \E sent : Sends(sent)
    BY <2>1, PumpShape
  <2>3. retained' = retained /\ shadow' = shadow
    BY <2>1 DEF PumpStatePacing, catalogVars, clientVars, gateVars
  <2> QED
    BY <2>2, <2>3 DEF Pumps, Shape
<1>3. CASE \/ \E ch \in Channels : Subscribe(ch)
           \/ \E l \in 0 .. 2 : SetCongestionLevel(l)
           \/ CatalogReady \/ AbandonRefetch \/ RepeatReady \/ UNCHANGED vars
  <2>1. Quiet
    BY <1>3 DEF Quiet, Subscribe, SetCongestionLevel, CatalogReady, AbandonRefetch,
                RepeatReady, vars, hubVars, catalogVars, clientVars, gateVars
  <2> QED
    BY <2>1 DEF Shape
<1>4. CASE Connect \/ Park \/ RefuseCatalogTransfer \/ Disconnect
  BY <1>4, ConnectRestarts DEF RefuseCatalogTransfer, Disconnect, Shape
<1>5. CASE PumpAnnouncement
  <2>1. Announcement \in Frames /\ Announcement.type = "ANNOUNCE"
    BY DEF Announcement, Frames, Types, HubTypes
  <2>2. UNCHANGED <<retained, shadow>> /\ link' = Append(link, Announcement)
    BY <1>5 DEF PumpAnnouncement, catalogVars, clientVars, gateVars
  <2> QED
    BY <2>1, <2>2, OneTells DEF Shape
<1>6. CASE RefuseIntent
  <2> DEFINE f == [type |-> "NOT_READY"]
  <2>1. f \in Frames /\ f.type = "NOT_READY"
    BY DEF Frames
  <2>2. UNCHANGED <<retained, shadow>> /\ link' = link \o Fitting(<<f>>)
    BY <1>6 DEF RefuseIntent, hubVars, catalogVars, clientVars, gateVars
  <2> HIDE DEF f
  <2>3. Tells
    BY <2>1, <2>2, OneTells
  <2> QED
    BY <2>3 DEF Shape
<1>7. CASE CatalogChanges
  BY <1>7, ChangesAre, ChangeTells DEF Shape
<1>8. CASE Receive
  BY <1>8, ReceiveReads DEF Shape
<1>9. CASE LoseFrame
  <2>1. PICK i \in DOMAIN link : link' = RemoveAt(link, i)
    BY <1>9 DEF LoseFrame
  <2>2. i \in 1 .. Len(link)
    BY DEF Types, LinkTypes
  <2>3. retained' = retained /\ shadow' = shadow
    BY <1>9 DEF LoseFrame, hubVars, catalogVars, clientVars, gateVars
  <2> QED
    BY <2>1, <2>2, <2>3 DEF Reads, Shape
<1> QED
  BY <1>1, <1>2, <1>3, <1>4, <1>5, <1>6, <1>7, <1>8, <1>9 DEF Next

------------------------------------------------------------------------------
(* The latest-value register                                               *)

(* No frame the client would adopt now takes it back, or is of the future. *)
Fresh ==
    \A i \in 1 .. Len(link) :
      (Ordered => i = 1) /\ link[i].type = "STATE" /\ Newer(link[i])
        => link[i].ver \in shadow[link[i].ch].ver .. retained[link[i].ch].ver

Latest == [ch \in Channels |-> retained[ch].ver]
Seen   == [ch \in Channels |-> shadow[ch].ver]

LEMMA ForgetIs ==
    ASSUME Types, Types', retained' = retained,
           NEW C \in SUBSET Channels,
           \A ch \in Channels : shadow'[ch].ver = IF ch \in C THEN 0 ELSE shadow[ch].ver
    PROVE  Abstract!Forget
<1>1. Seen' = [ch \in Channels |-> IF ch \in C THEN 0 ELSE Seen[ch]]
  BY DEF Seen
<1>2. Latest' = Latest
  BY DEF Latest
<1> QED
  BY <1>1, <1>2 DEF Abstract!Forget, Seen, Latest

LEMMA StepRefines ==
    ASSUME Types, Types', Fresh, Shape
    PROVE  [Abstract!Next]_<<Latest, Seen>>
<1>0. /\ retained \in [Channels -> Version] /\ shadow \in [Channels -> Shadow]
      /\ retained' \in [Channels -> Version] /\ shadow' \in [Channels -> Shadow]
  BY DEF Types, HubTypes, ClientTypes
<1>1. CASE Quiet \/ Pumps \/ Tells
  <2>1. Latest' = Latest /\ Seen' = Seen
    BY <1>1 DEF Quiet, Pumps, Tells, Latest, Seen
  <2> QED
    BY <2>1
<1>2. CASE Publishes
  <2>1. PICK ch \in Channels : retained' = [retained EXCEPT ![ch] =
           [held |-> TRUE, seq |-> (@.seq + 1) % Modulus, ver |-> @.ver + 1]]
    BY <1>2 DEF Publishes
  <2>2. Latest' = [Latest EXCEPT ![ch] = @ + 1]
    BY <1>0, <2>1 DEF Latest
  <2>3. Seen' = Seen
    BY <1>2 DEF Publishes, Seen
  <2>4. Abstract!Publish(ch)
    BY <2>2, <2>3 DEF Abstract!Publish, Latest, Seen
  <2> QED
    BY <2>4 DEF Abstract!Next
<1>3. ASSUME shadow' = CleanShadow, retained' = retained
      PROVE  Abstract!Next
  <2>1. \A ch \in Channels : shadow'[ch].ver = IF ch \in Channels THEN 0 ELSE shadow[ch].ver
    BY <1>3 DEF CleanShadow, NoShadow
  <2>2. Channels \in SUBSET Channels
    OBVIOUS
  <2> QED
    BY <1>3, <2>1, <2>2, ForgetIs DEF Abstract!Next
<1>4. ASSUME shadow' = shadow, retained' = retained
      PROVE  UNCHANGED <<Latest, Seen>>
  BY <1>4 DEF Latest, Seen
<1>5. ASSUME NEW ch \in Channels, shadow' = ShadowWithout(ch), retained' = retained
      PROVE  Abstract!Next
  <2>1. \A c \in Channels : shadow'[c].ver = IF c \in {ch} THEN 0 ELSE shadow[c].ver
    BY <1>0, <1>5 DEF ShadowWithout, NoShadow
  <2>2. {ch} \in SUBSET Channels
    OBVIOUS
  <2> QED
    BY <1>5, <2>1, <2>2, ForgetIs DEF Abstract!Next
<1>6. ASSUME NEW i \in 1 .. Len(link), Ordered => i = 1, Adopts(link[i]), retained' = retained
      PROVE  [Abstract!Next]_<<Latest, Seen>>
  <2> DEFINE f == link[i]
  <2>1. f \in Frames /\ f.type = "STATE" /\ Newer(f)
    BY <1>6, LinkFrames DEF Types, Adopts
  <2>a. f.ch \in Channels /\ f.ver \in Nat
    BY <2>1, FrameKinds
  <2>2. PICK ch \in Channels : ch = f.ch
    BY <2>a
  <2>3. f.ver \in shadow[ch].ver .. retained[ch].ver
    BY <1>6, <2>1, <2>2 DEF Fresh
  <2>4. shadow' = [shadow EXCEPT ![ch] = [seq |-> f.seq, ver |-> f.ver]]
    BY <1>6, <2>2 DEF Adopts
  <2> HIDE DEF f
  <2>5. Seen' = [Seen EXCEPT ![ch] = f.ver] /\ Latest' = Latest
    BY <1>0, <1>6, <2>2, <2>4 DEF Seen, Latest
  <2>6. Seen[ch] = shadow[ch].ver /\ Latest[ch] = retained[ch].ver
        /\ Seen[ch] \in Nat /\ Latest[ch] \in Nat
    BY <1>0, <2>2 DEF Seen, Latest, Shadow, Version
  <2>7. CASE f.ver = Seen[ch]
    <3>1. Seen' = Seen
      BY <2>2, <2>5, <2>7 DEF Seen
    <3> QED
      BY <2>5, <3>1
  <2>8. CASE f.ver # Seen[ch]
    <3>1. f.ver \in (Seen[ch] + 1) .. Latest[ch]
      BY <2>a, <2>3, <2>6, <2>8
    <3>2. Abstract!Adopt(ch)
      BY <2>5, <3>1 DEF Abstract!Adopt, Seen, Latest
    <3> QED
      BY <2>2, <3>2 DEF Abstract!Next
  <2> QED
    BY <2>7, <2>8
<1>7. CASE Restarts
  BY <1>3, <1>4, <1>7 DEF Restarts
<1>8. CASE Reads
  BY <1>3, <1>4, <1>5, <1>6, <1>8 DEF Reads
<1> QED
  BY <1>1, <1>2, <1>7, <1>8 DEF Shape

LEMMA InitRefines == Init => Abstract!Init
<1> SUFFICES ASSUME Init PROVE Abstract!Init
  OBVIOUS
<1>1. Types
  BY InitTypes
<1>2. Latest \in [Channels -> Nat]
  BY <1>1 DEF Types, HubTypes, Version, Latest
<1>3. Seen = [ch \in Channels |-> 0]
  BY DEF Init, Seen, NoShadow
<1> QED
  BY <1>2, <1>3 DEF Abstract!Init, Latest, Seen

------------------------------------------------------------------------------
(* A link that keeps the order                                             *)

(* The values of a channel that are on their way follow each other, from   *)
(* the one the client shows to the latest.                                 *)
Upward ==
    /\ \A ch \in Channels : shadow[ch].ver <= retained[ch].ver
    /\ \A i \in 1 .. Len(link) :
         link[i].type = "STATE" =>
           link[i].ver \in shadow[link[i].ch].ver .. retained[link[i].ch].ver
    /\ \A i, j \in 1 .. Len(link) :
         i < j /\ link[i].type = "STATE" /\ link[j].type = "STATE" /\ link[i].ch = link[j].ch
           => link[i].ver <= link[j].ver

LEMMA VersionsAre ==
    ASSUME Types
    PROVE  /\ \A ch \in Channels : retained[ch].ver \in Nat /\ shadow[ch].ver \in Nat
           /\ \A i \in 1 .. Len(link) :
                link[i].type = "STATE" => link[i].ch \in Channels /\ link[i].ver \in Nat \ {0}
           /\ Len(link) \in Nat
<1>1. \A ch \in Channels : retained[ch].ver \in Nat /\ shadow[ch].ver \in Nat
  BY DEF Types, HubTypes, ClientTypes, Version, Shadow
<1>2. \A i \in 1 .. Len(link) :
        link[i].type = "STATE" => link[i].ch \in Channels /\ link[i].ver \in Nat \ {0}
  BY LinkFrames, FrameKinds DEF Types
<1> QED
  BY <1>1, <1>2 DEF Types, LinkTypes

LEMMA PumpsLatest ==
    ASSUME Types, Pumps
    PROVE  \E x \in Seq(Frames) : link' = link \o x /\ \A i \in 1 .. Len(x) : IsLatest(x[i])
<1>1. PICK sent : Sends(sent)
  BY DEF Pumps
<1>a. PICK x : x = [i \in 1 .. Len(sent) |-> StateFrame(sent[i])]
  OBVIOUS
<1>2. /\ x \in Seq(Frames) /\ Len(x) = Len(sent) /\ link' = link \o x
      /\ \A i \in 1 .. Len(x) : IsLatest(x[i])
  BY <1>1, <1>a, SentFrames
<1> QED
  BY <1>2

LEMMA UpwardGrows ==
    ASSUME Types, Upward, NEW x \in Seq(Frames), link' = link \o x, shadow' = shadow,
           \A ch \in Channels : retained'[ch].ver = retained[ch].ver,
           \A i \in 1 .. Len(x) : x[i].type = "STATE" =>
              x[i].ch \in Channels /\ x[i].ver = retained[x[i].ch].ver
    PROVE  Upward'
<1> DEFINE n == Len(link)
<1>1. /\ link \in Seq(Frames) /\ n \in Nat /\ Len(x) \in Nat
      /\ Len(link') = n + Len(x)
      /\ \A j \in 1 .. (n + Len(x)) : link'[j] = IF j <= n THEN link[j] ELSE x[j - n]
  <2>1. link \in Seq(Frames)
    BY DEF Types, LinkTypes
  <2> QED
    BY <2>1, ConcatIs
<1> HIDE DEF n
<1>2. \A j \in 1 .. Len(link') :
        \/ j \in 1 .. n /\ link'[j] = link[j]
        \/ j > n /\ j - n \in 1 .. Len(x) /\ link'[j] = x[j - n]
  BY <1>1
<1>3. \A ch \in Channels : shadow'[ch].ver <= retained'[ch].ver
  BY DEF Upward
<1>4. ASSUME NEW j \in 1 .. Len(link'), link'[j].type = "STATE"
      PROVE  link'[j].ver \in shadow'[link'[j].ch].ver .. retained'[link'[j].ch].ver
  <2>1. CASE j \in 1 .. n /\ link'[j] = link[j]
    <3>1. link[j].ch \in Channels /\ link[j].ver \in shadow[link[j].ch].ver .. retained[link[j].ch].ver
      BY <1>4, <2>1, VersionsAre DEF Upward, n
    <3> QED
      BY <2>1, <3>1
  <2>2. CASE j - n \in 1 .. Len(x) /\ link'[j] = x[j - n]
    <3>1. PICK c \in Channels : c = link'[j].ch
      BY <1>4, <2>2
    <3>2. link'[j].ver = retained[c].ver /\ retained'[c].ver = retained[c].ver
      BY <1>4, <2>2, <3>1
    <3>3. shadow'[c].ver <= retained'[c].ver /\ shadow'[c].ver \in Nat /\ retained[c].ver \in Nat
      BY <1>3, VersionsAre
    <3> QED
      BY <3>1, <3>2, <3>3
  <2> QED
    BY <1>2, <2>1, <2>2
<1>5. ASSUME NEW i \in 1 .. Len(link'), NEW j \in 1 .. Len(link'), i < j,
             link'[i].type = "STATE", link'[j].type = "STATE", link'[i].ch = link'[j].ch
      PROVE  link'[i].ver <= link'[j].ver
  <2>1. CASE j \in 1 .. n
    <3>1. i \in 1 .. n /\ link'[i] = link[i] /\ link'[j] = link[j]
      BY <1>1, <1>5, <2>1
    <3> QED
      BY <1>5, <2>1, <3>1 DEF Upward, n
  <2>2. CASE j \notin 1 .. n
    <3>1. j - n \in 1 .. Len(x) /\ link'[j] = x[j - n]
      BY <1>2, <2>2
    <3>2. PICK c \in Channels : c = link'[j].ch
      BY <1>5, <3>1
    <3>3. link'[j].ver = retained[c].ver /\ retained'[c].ver = retained[c].ver
      BY <1>5, <3>1, <3>2
    <3>4. link'[i].ver \in shadow'[c].ver .. retained'[c].ver
      BY <1>4, <1>5, <3>2
    <3> QED
      BY <3>3, <3>4
  <2> QED
    BY <2>1, <2>2
<1> QED
  BY <1>3, <1>4, <1>5 DEF Upward

(* The frames that are left, in their order.                               *)
LEMMA LeftIs ==
    ASSUME Types, NEW i \in 1 .. Len(link), link' = RemoveAt(link, i) \/ link' = link
    PROVE  \E k \in [1 .. Len(link') -> 1 .. Len(link)] :
              /\ \A a \in 1 .. Len(link') : link'[a] = link[k[a]]
              /\ \A a, b \in 1 .. Len(link') : a < b => k[a] < k[b]
<1>0. link \in Seq(Frames) /\ Len(link) \in Nat
  BY DEF Types, LinkTypes
<1>1. CASE link' = RemoveAt(link, i)
  <2>1. /\ Len(link') = Len(link) - 1
        /\ \A j \in 1 .. (Len(link) - 1) : link'[j] = link[IF j < i THEN j ELSE j + 1]
    BY <1>0, <1>1, RemoveAtIs
  <2> DEFINE k == [j \in 1 .. Len(link') |-> IF j < i THEN j ELSE j + 1]
  <2>2. k \in [1 .. Len(link') -> 1 .. Len(link)]
    BY <1>0, <2>1
  <2>3. \A a \in 1 .. Len(link') : link'[a] = link[k[a]]
    BY <2>1
  <2>4. \A a, b \in 1 .. Len(link') : a < b => k[a] < k[b]
    BY <1>0, <2>1
  <2> QED
    BY <2>2, <2>3, <2>4
<1>2. CASE link' = link
  <2> DEFINE k == [j \in 1 .. Len(link') |-> j]
  <2>1. k \in [1 .. Len(link') -> 1 .. Len(link)]
    BY <1>2
  <2>2. \A a \in 1 .. Len(link') : link'[a] = link[k[a]]
    BY <1>2
  <2>3. \A a, b \in 1 .. Len(link') : a < b => k[a] < k[b]
    OBVIOUS
  <2> QED
    BY <2>1, <2>2, <2>3
<1> QED
  BY <1>1, <1>2

LEMMA UpwardShrinks ==
    ASSUME Types, Upward, NEW i \in 1 .. Len(link), link' = RemoveAt(link, i) \/ link' = link,
           retained' = retained,
           \A ch \in Channels : shadow'[ch].ver \in 0 .. retained[ch].ver,
           \A j \in 1 .. Len(link) : link[j].type = "STATE" =>
              shadow'[link[j].ch].ver <= link[j].ver
    PROVE  Upward'
<1>1. PICK k \in [1 .. Len(link') -> 1 .. Len(link)] :
         /\ \A a \in 1 .. Len(link') : link'[a] = link[k[a]]
         /\ \A a, b \in 1 .. Len(link') : a < b => k[a] < k[b]
  BY LeftIs
<1>2. \A ch \in Channels : shadow'[ch].ver <= retained'[ch].ver
  BY VersionsAre
<1>3. ASSUME NEW a \in 1 .. Len(link'), link'[a].type = "STATE"
      PROVE  link'[a].ver \in shadow'[link'[a].ch].ver .. retained'[link'[a].ch].ver
  <2>1. PICK j \in 1 .. Len(link) : link'[a] = link[j]
    BY <1>1
  <2>2. PICK c \in Channels : c = link[j].ch
    BY <1>3, <2>1, VersionsAre
  <2>3. shadow'[c].ver <= link[j].ver /\ link[j].ver <= retained[c].ver
        /\ link[j].ver \in Nat /\ shadow'[c].ver \in Nat /\ retained[c].ver \in Nat
    BY <1>3, <2>1, <2>2, VersionsAre DEF Upward
  <2> QED
    BY <2>1, <2>2, <2>3
<1>4. ASSUME NEW a \in 1 .. Len(link'), NEW b \in 1 .. Len(link'), a < b,
             link'[a].type = "STATE", link'[b].type = "STATE", link'[a].ch = link'[b].ch
      PROVE  link'[a].ver <= link'[b].ver
  BY <1>1, <1>4 DEF Upward
<1> QED
  BY <1>2, <1>3, <1>4 DEF Upward

LEMMA UpwardNext ==
    ASSUME Types, Upward, Shape, Ordered
    PROVE  Upward'
<1>0. /\ retained \in [Channels -> Version] /\ shadow \in [Channels -> Shadow]
      /\ \A ch \in Channels : retained[ch].ver \in Nat /\ shadow[ch].ver \in Nat
  BY VersionsAre DEF Types, HubTypes, ClientTypes
<1>1. CASE Quiet
  BY <1>1 DEF Quiet, Upward
<1>2. CASE Publishes
  <2>1. PICK ch \in Channels : retained' = [retained EXCEPT ![ch] =
           [held |-> TRUE, seq |-> (@.seq + 1) % Modulus, ver |-> @.ver + 1]]
    BY <1>2 DEF Publishes
  <2>2. \A c \in Channels : retained'[c].ver \in Nat /\ retained[c].ver <= retained'[c].ver
    BY <1>0, <2>1
  <2>3. shadow' = shadow /\ link' = link
    BY <1>2 DEF Publishes
  <2>4. \A c \in Channels : shadow'[c].ver <= retained'[c].ver
    BY <1>0, <2>2, <2>3 DEF Upward
  <2>5. ASSUME NEW i \in 1 .. Len(link), link[i].type = "STATE"
        PROVE  link[i].ver \in shadow[link[i].ch].ver .. retained'[link[i].ch].ver
    <3>1. PICK c \in Channels : c = link[i].ch
      BY <2>5, VersionsAre
    <3>2. link[i].ver \in shadow[c].ver .. retained[c].ver
      BY <2>5, <3>1 DEF Upward
    <3> QED
      BY <1>0, <2>2, <3>1, <3>2
  <2> QED
    BY <2>3, <2>4, <2>5 DEF Upward
<1>3. CASE Restarts
  <2>1. \A ch \in Channels : shadow'[ch].ver <= retained'[ch].ver
    BY <1>0, <1>3 DEF Restarts, CleanShadow, NoShadow, Upward
  <2> QED
    BY <1>3, <2>1 DEF Restarts, Upward
<1>4. CASE Pumps
  <2>1. PICK x \in Seq(Frames) : link' = link \o x /\ \A i \in 1 .. Len(x) : IsLatest(x[i])
    BY <1>4, PumpsLatest
  <2> QED
    BY <1>4, <2>1, UpwardGrows DEF Pumps, IsLatest
<1>5. CASE Tells
  BY <1>5, UpwardGrows DEF Tells
<1>6. CASE Reads
  <2>1. PICK i \in 1 .. Len(link) :
          /\ link' = RemoveAt(link, i) \/ link' = link
          /\ \/ shadow' = shadow \/ shadow' = CleanShadow
             \/ \E ch \in Channels : shadow' = ShadowWithout(ch)
             \/ i = 1 /\ Adopts(link[i])
    BY <1>6 DEF Reads
  <2>2. CASE \/ shadow' = shadow \/ shadow' = CleanShadow
             \/ \E ch \in Channels : shadow' = ShadowWithout(ch)
    <3>1. \A ch \in Channels : shadow'[ch].ver = 0 \/ shadow'[ch].ver = shadow[ch].ver
      BY <1>0, <2>2 DEF CleanShadow, ShadowWithout, NoShadow
    <3>2. \A ch \in Channels : shadow'[ch].ver \in 0 .. retained[ch].ver
      BY <1>0, <3>1 DEF Upward
    <3>3. \A j \in 1 .. Len(link) : link[j].type = "STATE" =>
              shadow'[link[j].ch].ver <= link[j].ver
      BY <1>0, <3>1, VersionsAre DEF Upward
    <3> QED
      BY <1>6, <2>1, <3>2, <3>3, UpwardShrinks DEF Reads
  <2>3. CASE i = 1 /\ Adopts(link[i])
    <3> DEFINE f == link[1]
    <3>1. f.type = "STATE" /\ 1 \in 1 .. Len(link)
      BY <2>1, <2>3 DEF Adopts
    <3>2. PICK c \in Channels : c = f.ch
      BY <3>1, VersionsAre
    <3>3. f.ver \in Nat /\ f.ver \in shadow[c].ver .. retained[c].ver
      BY <3>1, <3>2, VersionsAre DEF Upward
    <3>4. shadow' = [shadow EXCEPT ![c] = [seq |-> f.seq, ver |-> f.ver]]
      BY <2>3, <3>2 DEF Adopts
    <3>5. \A j \in 1 .. Len(link) : link[j].type = "STATE" /\ link[j].ch = c
             => f.ver <= link[j].ver
      <4> SUFFICES ASSUME NEW j \in 1 .. Len(link), link[j].type = "STATE", link[j].ch = c
                   PROVE  f.ver <= link[j].ver
        OBVIOUS
      <4>1. CASE j = 1
        BY <3>3, <4>1
      <4>2. CASE j # 1
        <5>1. 1 < j
          BY <4>2
        <5> QED
          BY <3>1, <3>2, <5>1 DEF Upward
      <4> QED
        BY <4>1, <4>2
    <3> HIDE DEF f
    <3>6. \A ch \in Channels : shadow'[ch].ver = IF ch = c THEN f.ver ELSE shadow[ch].ver
      BY <1>0, <3>4
    <3>7. \A ch \in Channels : shadow'[ch].ver \in 0 .. retained[ch].ver
      BY <1>0, <3>3, <3>6 DEF Upward
    <3>8. \A j \in 1 .. Len(link) : link[j].type = "STATE" =>
              shadow'[link[j].ch].ver <= link[j].ver
      <4> SUFFICES ASSUME NEW j \in 1 .. Len(link), link[j].type = "STATE"
                   PROVE  shadow'[link[j].ch].ver <= link[j].ver
        OBVIOUS
      <4>1. PICK d \in Channels : d = link[j].ch
        BY VersionsAre
      <4>2. shadow[d].ver <= link[j].ver
        BY <1>0, <4>1, VersionsAre DEF Upward
      <4>3. d = c => f.ver <= link[j].ver
        BY <3>5, <4>1
      <4> QED
        BY <3>6, <4>1, <4>2, <4>3
    <3> QED
      BY <1>6, <2>1, <3>7, <3>8, UpwardShrinks DEF Reads
  <2> QED
    BY <2>1, <2>2, <2>3
<1> QED
  BY <1>1, <1>2, <1>3, <1>4, <1>5, <1>6 DEF Shape

LEMMA InitUpward == Init => Upward
<1> SUFFICES ASSUME Init PROVE Upward
  OBVIOUS
<1>1. Types /\ link = <<>> /\ \A ch \in Channels : shadow[ch].ver = 0
  BY InitTypes DEF Init, NoShadow
<1>2. \A ch \in Channels : shadow[ch].ver <= retained[ch].ver
  BY <1>1, VersionsAre
<1> QED
  BY <1>1, <1>2 DEF Upward

(* On a link that keeps the order of frames the STATE plane is a latest-   *)
(* value register, for every value of the constants: whatever is shed,     *)
(* conflated, lost, delivered twice or withdrawn, and however often the    *)
(* sequence numbers wrap, a client that shows a value never goes back to   *)
(* an older one and never shows one that was not published.                *)
THEOREM OrderedImplements ==
    ASSUME Ordered
    PROVE  Spec => ImplementsLatestValue
<1>1. Init => Types /\ Upward
  BY InitTypes, InitUpward
<1>2. Types /\ Upward /\ [Next]_vars => Types' /\ Upward'
  BY NextTypes, StepHasShape, UpwardNext
<1>3. Types /\ Upward => Fresh
  BY DEF Upward, Fresh
<1>4. Types /\ Types' /\ Upward /\ [Next]_vars => [Abstract!Next]_<<Latest, Seen>>
  BY <1>3, StepHasShape, StepRefines
<1>5. Types /\ Types' /\ Upward /\ [Next]_vars
        => [Abstract!Next]_<<[ch \in Channels |-> retained[ch].ver],
                             [ch \in Channels |-> shadow[ch].ver]>>
  BY <1>4 DEF Latest, Seen
<1> QED
  BY <1>1, <1>2, <1>5, InitRefines, PTL DEF Spec, ImplementsLatestValue, Abstract!Spec

------------------------------------------------------------------------------
(* A link that does not keep the order                                     *)

(* No value is on its way for so long that more than half the range of the *)
(* sequence numbers has been published since.                              *)
Timely ==
    \A i \in 1 .. Len(link) :
      link[i].type = "STATE" =>
        retained[link[i].ch].ver - link[i].ver <= Modulus \div 2

(* Sequence number s and k more, for s + k below twice the range.          *)
Wraps(x) == IF x < Modulus THEN x ELSE x - Modulus

(* The number of frame f tells how old its value is, compared with r, the  *)
(* latest, and with s, the one the client shows.                           *)
Dated(f, r, s) ==
    /\ f.ver <= r.ver /\ r.seq = Wraps(f.seq + (r.ver - f.ver))
    /\ f.ver < s.ver => s.seq = Wraps(f.seq + (s.ver - f.ver))

Numbered ==
    /\ \A ch \in Channels : shadow[ch].ver <= retained[ch].ver
    /\ \A i \in 1 .. Len(link) :
         link[i].type = "STATE" => Dated(link[i], retained[link[i].ch], shadow[link[i].ch])

LEMMA ModIsWraps ==
    ASSUME NEW x \in Nat, x < Modulus + Modulus
    PROVE  x % Modulus = Wraps(x)
<1>0. Modulus \in Nat /\ Modulus > 1
  BY Basics
<1>1. CASE x < Modulus
  BY <1>0, <1>1 DEF Wraps
<1>2. CASE ~(x < Modulus)
  BY <1>0, <1>2 DEF Wraps
<1> QED
  BY <1>1, <1>2

LEMMA Half ==
    /\ Modulus \div 2 \in Nat /\ Modulus \div 2 < Modulus
    /\ Modulus \div 2 + Modulus \div 2 <= Modulus
<1>0. Modulus \in Nat /\ Modulus > 1
  BY Basics
<1> QED
  BY <1>0

(* A value that is at most half the range older never looks newer.         *)
LEMMA OlderIsNotNewer ==
    ASSUME NEW s \in Seqs, NEW t \in Seqs, NEW k \in Nat, k <= Modulus \div 2,
           t = Wraps(s + k)
    PROVE  ~SeqIsNewer(s, t)
<1> DEFINE h == Modulus \div 2
           d == s + Modulus - t
<1>1. Modulus \in Nat /\ Modulus > 1 /\ s \in Nat /\ t \in Nat /\ s < Modulus /\ t < Modulus
  BY Basics DEF Seqs
<1>2. h \in Nat /\ h < Modulus /\ h + h <= Modulus /\ k <= h
  BY Half
<1>3. d \in Nat /\ d < Modulus + Modulus
  BY <1>1
<1>4. d % Modulus = Wraps(d)
  BY <1>3, ModIsWraps
<1>5. Wraps(d) = 0 \/ ~(Wraps(d) < h)
  <2> HIDE DEF h
  <2>1. CASE s + k < Modulus
    <3>1. t = s + k /\ d = Modulus - k
      BY <1>1, <2>1 DEF Wraps
    <3> QED
      BY <1>1, <1>2, <3>1 DEF Wraps
  <2>2. CASE ~(s + k < Modulus)
    <3>1. t = s + k - Modulus /\ d = Modulus + (Modulus - k)
      BY <1>1, <2>2 DEF Wraps
    <3> QED
      BY <1>1, <1>2, <3>1 DEF Wraps
  <2> QED
    BY <2>1, <2>2
<1> QED
  BY <1>4, <1>5 DEF SeqIsNewer

(* Two distances from the same number.                                     *)
LEMMA WrapsSplit ==
    ASSUME NEW s \in Seqs, NEW t \in Seqs, NEW r \in Seqs, NEW a \in Nat, NEW b \in Nat,
           b <= a, a < Modulus, r = Wraps(s + a), r = Wraps(t + b)
    PROVE  t = Wraps(s + (a - b))
<1>1. Modulus \in Nat /\ s \in Nat /\ t \in Nat /\ s < Modulus /\ t < Modulus
  BY Basics DEF Seqs
<1> QED
  BY <1>1 DEF Wraps

LEMMA WrapsNext ==
    ASSUME NEW s \in Seqs, NEW k \in Nat, k + 1 < Modulus
    PROVE  (Wraps(s + k) + 1) % Modulus = Wraps(s + (k + 1))
<1>1. Modulus \in Nat /\ Modulus > 1 /\ s \in Nat /\ s < Modulus
  BY Basics DEF Seqs
<1>2. Wraps(s + k) \in Nat /\ Wraps(s + k) < Modulus
  BY <1>1 DEF Wraps
<1>3. (Wraps(s + k) + 1) % Modulus = Wraps(Wraps(s + k) + 1)
  BY <1>1, <1>2, ModIsWraps
<1> QED
  BY <1>1, <1>3 DEF Wraps

(* A value v and the latest, r, that is followed by another.               *)
LEMMA LagNext ==
    ASSUME NEW r \in Nat, NEW v \in Nat, v <= r, (r + 1) - v <= Modulus \div 2
    PROVE  /\ r - v \in Nat /\ (r - v) + 1 < Modulus
           /\ (r + 1) - v = (r - v) + 1 /\ v <= r + 1
<1>1. PICK h \in Nat : h = Modulus \div 2 /\ h < Modulus
  BY Half
<1>2. Modulus \in Nat
  BY Basics
<1> QED
  BY <1>1, <1>2

(* A value that is at most half the range old is not older than the range. *)
LEMMA LagIsShort ==
    ASSUME NEW r \in Nat, NEW v \in Nat, r - v <= Modulus \div 2
    PROVE  r - v < Modulus
<1>1. PICK h \in Nat : h = Modulus \div 2 /\ h < Modulus
  BY Half
<1>2. Modulus \in Nat
  BY Basics
<1> QED
  BY <1>1, <1>2

LEMMA SeqsAre ==
    ASSUME Types
    PROVE  /\ \A ch \in Channels : retained[ch].seq \in Seqs /\ shadow[ch].seq \in Seqs
           /\ \A i \in 1 .. Len(link) : link[i].type = "STATE" => link[i].seq \in Seqs
<1>1. \A ch \in Channels : retained[ch].seq \in Seqs /\ shadow[ch].seq \in Seqs
  BY DEF Types, HubTypes, ClientTypes, Version, Shadow
<1>2. \A i \in 1 .. Len(link) : link[i].type = "STATE" => link[i].seq \in Seqs
  BY LinkFrames, FrameKinds DEF Types
<1> QED
  BY <1>1, <1>2

LEMMA NumberedIsFresh ==
    ASSUME Types, Numbered, Timely
    PROVE  Fresh
<1> SUFFICES ASSUME NEW i \in 1 .. Len(link), link[i].type = "STATE", Newer(link[i])
             PROVE  link[i].ver \in shadow[link[i].ch].ver .. retained[link[i].ch].ver
  BY DEF Fresh
<1>1. PICK c \in Channels : c = link[i].ch
  BY VersionsAre
<1> DEFINE v == link[i].ver
           s == shadow[c].ver
           r == retained[c].ver
<1>2. v \in Nat /\ s \in Nat /\ r \in Nat /\ s <= r /\ v <= r /\ r - v <= Modulus \div 2
      /\ link[i].seq \in Seqs /\ shadow[c].seq \in Seqs
  BY <1>1, VersionsAre, SeqsAre DEF Numbered, Dated, Timely
<1>3. ASSUME v < s
      PROVE  FALSE
  <2>1. shadow[c].seq = Wraps(link[i].seq + (s - v))
    BY <1>1, <1>3 DEF Numbered, Dated
  <2> HIDE DEF s, v, r
  <2>2. s - v \in Nat /\ s - v <= Modulus \div 2 /\ s # 0
    <3>1. Modulus \div 2 \in Nat
      BY Half
    <3> QED
      BY <1>2, <1>3, <3>1
  <2>3. SeqIsNewer(link[i].seq, shadow[c].seq)
    BY <1>1, <2>2 DEF Newer, s
  <2> QED
    BY <1>2, <2>1, <2>2, <2>3, OlderIsNotNewer
<1> QED
  BY <1>1, <1>2, <1>3

LEMMA NumberedGrows ==
    ASSUME Types, Numbered, NEW x \in Seq(Frames), link' = link \o x,
           shadow' = shadow, retained' = retained,
           \A i \in 1 .. Len(x) : x[i].type = "STATE" => IsLatest(x[i])
    PROVE  Numbered'
<1> DEFINE n == Len(link)
<1>1. /\ link \in Seq(Frames) /\ n \in Nat /\ Len(x) \in Nat
      /\ Len(link') = n + Len(x)
      /\ \A j \in 1 .. (n + Len(x)) : link'[j] = IF j <= n THEN link[j] ELSE x[j - n]
  <2>1. link \in Seq(Frames)
    BY DEF Types, LinkTypes
  <2> QED
    BY <2>1, ConcatIs
<1> HIDE DEF n
<1>2. \A j \in 1 .. Len(link') :
        \/ j \in 1 .. n /\ link'[j] = link[j]
        \/ j - n \in 1 .. Len(x) /\ link'[j] = x[j - n]
  BY <1>1
<1>3. ASSUME NEW f, IsLatest(f)
      PROVE  Dated(f, retained[f.ch], shadow[f.ch])
  <2>1. PICK c \in Channels : c = f.ch
    BY <1>3 DEF IsLatest
  <2>2. /\ f.ver = retained[c].ver /\ f.seq = retained[c].seq
    BY <1>3, <2>1 DEF IsLatest
  <2>3. retained[c].ver \in Nat /\ shadow[c].ver \in Nat /\ shadow[c].ver <= retained[c].ver
        /\ retained[c].seq \in Nat /\ retained[c].seq < Modulus /\ Modulus \in Nat
    BY VersionsAre, SeqsAre, Basics DEF Numbered, Seqs
  <2>4. Dated(f, retained[c], shadow[c])
    BY <2>2, <2>3 DEF Dated, Wraps
  <2> QED
    BY <2>1, <2>4
<1>4. ASSUME NEW j \in 1 .. Len(link'), link'[j].type = "STATE"
      PROVE  Dated(link'[j], retained[link'[j].ch], shadow[link'[j].ch])
  <2>1. CASE j \in 1 .. n /\ link'[j] = link[j]
    BY <1>4, <2>1 DEF Numbered, n
  <2>2. CASE j - n \in 1 .. Len(x) /\ link'[j] = x[j - n]
    BY <1>3, <1>4, <2>2
  <2> QED
    BY <1>2, <2>1, <2>2
<1> QED
  BY <1>4 DEF Numbered

LEMMA NumberedShrinks ==
    ASSUME Types, Numbered, NEW i \in 1 .. Len(link), link' = RemoveAt(link, i) \/ link' = link,
           retained' = retained,
           \A ch \in Channels : shadow'[ch].ver <= retained[ch].ver,
           \A j \in 1 .. Len(link) : link[j].type = "STATE" =>
              Dated(link[j], retained[link[j].ch], shadow'[link[j].ch])
    PROVE  Numbered'
<1>1. PICK k \in [1 .. Len(link') -> 1 .. Len(link)] :
         \A a \in 1 .. Len(link') : link'[a] = link[k[a]]
  BY LeftIs
<1>2. \A a \in 1 .. Len(link') : \E j \in 1 .. Len(link) : link'[a] = link[j]
  BY <1>1
<1>3. \A a \in 1 .. Len(link') : link'[a].type = "STATE" =>
        Dated(link'[a], retained'[link'[a].ch], shadow'[link'[a].ch])
  BY <1>2
<1>4. \A ch \in Channels : shadow'[ch].ver <= retained'[ch].ver
  OBVIOUS
<1> QED
  BY <1>3, <1>4 DEF Numbered

LEMMA NumberedNext ==
    ASSUME Types, Numbered, Timely, Timely', Shape, Dynamic = {}
    PROVE  Numbered'
<1>0. /\ retained \in [Channels -> Version] /\ shadow \in [Channels -> Shadow]
      /\ \A ch \in Channels : retained[ch].ver \in Nat /\ shadow[ch].ver \in Nat
  BY VersionsAre DEF Types, HubTypes, ClientTypes
<1>1. CASE Quiet
  BY <1>1 DEF Quiet, Numbered
<1>2. CASE Publishes
  <2>1. PICK ch \in Channels : retained' = [retained EXCEPT ![ch] =
           [held |-> TRUE, seq |-> (@.seq + 1) % Modulus, ver |-> @.ver + 1]]
    BY <1>2 DEF Publishes
  <2>2. shadow' = shadow /\ link' = link
    BY <1>2 DEF Publishes
  <2>3. /\ retained'[ch].ver = retained[ch].ver + 1
        /\ retained'[ch].seq = (retained[ch].seq + 1) % Modulus
        /\ \A c \in Channels : c # ch => retained'[c] = retained[c]
    BY <1>0, <2>1
  <2>4. \A c \in Channels : shadow'[c].ver <= retained'[c].ver
    BY <1>0, <2>2, <2>3 DEF Numbered
  <2>5. ASSUME NEW i \in 1 .. Len(link), link[i].type = "STATE"
        PROVE  Dated(link[i], retained'[link[i].ch], shadow[link[i].ch])
    <3>1. PICK c \in Channels : c = link[i].ch
      BY <2>5, VersionsAre
    <3> DEFINE k == retained[c].ver - link[i].ver
    <3>a. Dated(link[i], retained[c], shadow[c])
      BY <2>5, <3>1 DEF Numbered
    <3>2. /\ link[i].ver <= retained[c].ver /\ retained[c].seq = Wraps(link[i].seq + k)
          /\ retained'[c].ver - link[i].ver <= Modulus \div 2
          /\ link[i].ver \in Nat /\ link[i].seq \in Seqs
      BY <2>2, <2>5, <3>a, <3>1, VersionsAre, SeqsAre DEF Dated, Timely
    <3>3. CASE c # ch
      BY <2>3, <3>1, <3>a, <3>3
    <3>4. CASE c = ch
      <4>1. /\ k \in Nat /\ k + 1 < Modulus /\ retained'[c].ver - link[i].ver = k + 1
            /\ link[i].ver <= retained'[c].ver
        <5>1. PICK r \in Nat, v \in Nat : r = retained[c].ver /\ v = link[i].ver
          BY <1>0, <3>2
        <5>2. v <= r /\ (r + 1) - v <= Modulus \div 2 /\ retained'[c].ver = r + 1
          BY <2>3, <3>2, <3>4, <5>1
        <5>3. r - v \in Nat /\ (r - v) + 1 < Modulus /\ (r + 1) - v = (r - v) + 1 /\ v <= r + 1
          BY <5>2, LagNext
        <5> QED
          BY <5>1, <5>2, <5>3
      <4> HIDE DEF k
      <4>2. (Wraps(link[i].seq + k) + 1) % Modulus = Wraps(link[i].seq + (k + 1))
        BY <3>2, <4>1, WrapsNext
      <4> QED
        BY <2>3, <3>1, <3>a, <3>2, <3>4, <4>1, <4>2 DEF Dated
    <3> QED
      BY <3>3, <3>4
  <2> QED
    BY <2>2, <2>4, <2>5 DEF Numbered
<1>3. CASE Restarts
  <2>1. \A ch \in Channels : shadow'[ch].ver <= retained'[ch].ver
    BY <1>0, <1>3 DEF Restarts, CleanShadow, NoShadow, Numbered
  <2> QED
    BY <1>3, <2>1 DEF Restarts, Numbered
<1>4. CASE Pumps
  <2>1. PICK x \in Seq(Frames) : link' = link \o x /\ \A i \in 1 .. Len(x) : IsLatest(x[i])
    BY <1>4, PumpsLatest
  <2> QED
    BY <1>4, <2>1, NumberedGrows DEF Pumps
<1>5. CASE Tells
  BY <1>5, NumberedGrows DEF Tells
<1>6. CASE Reads
  <2>1. PICK i \in 1 .. Len(link) :
          /\ link' = RemoveAt(link, i) \/ link' = link
          /\ \/ shadow' = shadow \/ shadow' = CleanShadow
             \/ \E ch \in Channels : shadow' = ShadowWithout(ch)
             \/ Adopts(link[i])
    BY <1>6 DEF Reads
  <2>2. CASE \/ shadow' = shadow \/ shadow' = CleanShadow
             \/ \E ch \in Channels : shadow' = ShadowWithout(ch)
    <3>1. \A ch \in Channels : shadow'[ch].ver = 0 \/ shadow'[ch] = shadow[ch]
      BY <1>0, <2>2 DEF CleanShadow, ShadowWithout, NoShadow
    <3>2. \A ch \in Channels : shadow'[ch].ver <= retained[ch].ver
      BY <1>0, <3>1 DEF Numbered
    <3>3. ASSUME NEW j \in 1 .. Len(link), link[j].type = "STATE"
          PROVE  Dated(link[j], retained[link[j].ch], shadow'[link[j].ch])
      <4>1. PICK d \in Channels : d = link[j].ch
        BY <3>3, VersionsAre
      <4>2. Dated(link[j], retained[d], shadow[d]) /\ link[j].ver \in Nat
        BY <3>3, <4>1, VersionsAre DEF Numbered
      <4>3. shadow'[d].ver = 0 => ~(link[j].ver < shadow'[d].ver)
        BY <4>2
      <4> QED
        BY <3>1, <4>1, <4>2, <4>3 DEF Dated
    <3> QED
      BY <1>6, <2>1, <3>2, <3>3, NumberedShrinks DEF Reads
  <2>3. CASE Adopts(link[i])
    <3> DEFINE f == link[i]
    <3>1. f.type = "STATE"
      BY <2>3 DEF Adopts
    <3>2. PICK c \in Channels : c = f.ch
      BY <3>1, VersionsAre
    <3>3. /\ f.ver \in Nat /\ f.ver <= retained[c].ver /\ f.seq \in Seqs
          /\ retained[c].seq = Wraps(f.seq + (retained[c].ver - f.ver))
      BY <3>1, <3>2, VersionsAre, SeqsAre DEF Numbered, Dated
    <3>4. shadow' = [shadow EXCEPT ![c] = [seq |-> f.seq, ver |-> f.ver]]
      BY <2>3, <3>2 DEF Adopts
    <3> HIDE DEF f
    <3>5. /\ shadow'[c].ver = f.ver /\ shadow'[c].seq = f.seq
          /\ \A ch \in Channels : ch # c => shadow'[ch] = shadow[ch]
      BY <1>0, <3>4
    <3>6. \A ch \in Channels : shadow'[ch].ver <= retained[ch].ver
      BY <1>0, <3>3, <3>5 DEF Numbered
    <3>7. ASSUME NEW j \in 1 .. Len(link), link[j].type = "STATE"
          PROVE  Dated(link[j], retained[link[j].ch], shadow'[link[j].ch])
      <4>1. PICK d \in Channels : d = link[j].ch
        BY <3>7, VersionsAre
      <4>a. Dated(link[j], retained[d], shadow[d])
        BY <3>7, <4>1 DEF Numbered
      <4>2. CASE d # c \/ ~(link[j].ver < shadow'[d].ver)
        BY <3>5, <4>1, <4>a, <4>2 DEF Dated
      <4>3. CASE d = c /\ link[j].ver < shadow'[d].ver
        <5> DEFINE a == retained[c].ver - link[j].ver
                   b == retained[c].ver - f.ver
        <5>1. /\ link[j].ver \in Nat /\ link[j].ver <= retained[c].ver /\ link[j].seq \in Seqs
              /\ retained[c].seq = Wraps(link[j].seq + a) /\ a <= Modulus \div 2
          BY <3>7, <4>1, <4>a, <4>3, VersionsAre, SeqsAre DEF Dated, Timely
        <5>2. a \in Nat /\ b \in Nat /\ b <= a /\ a < Modulus /\ a - b = f.ver - link[j].ver
          <6>1. PICK r \in Nat, v \in Nat, w \in Nat :
                  r = retained[c].ver /\ v = link[j].ver /\ w = f.ver
            BY <1>0, <3>3, <5>1
          <6>2. v < w /\ w <= r /\ r - v <= Modulus \div 2
            BY <3>3, <3>5, <4>3, <5>1, <6>1
          <6>3. r - v < Modulus
            BY <6>2, LagIsShort
          <6>4. /\ r - v \in Nat /\ r - w \in Nat /\ r - w <= r - v
                /\ (r - v) - (r - w) = w - v
            BY <6>2
          <6> QED
            BY <6>1, <6>3, <6>4
        <5>3. retained[c].seq \in Seqs /\ retained[c].seq = Wraps(f.seq + b)
          BY <3>3, SeqsAre
        <5> HIDE DEF a, b
        <5>4. f.seq = Wraps(link[j].seq + (a - b))
          BY <3>3, <5>1, <5>2, <5>3, WrapsSplit
        <5> QED
          BY <3>5, <4>1, <4>a, <4>3, <5>2, <5>4 DEF Dated
      <4> QED
        BY <4>2, <4>3
    <3> QED
      BY <1>6, <2>1, <3>6, <3>7, NumberedShrinks DEF Reads
  <2> QED
    BY <2>1, <2>2, <2>3
<1> QED
  BY <1>1, <1>2, <1>3, <1>4, <1>5, <1>6 DEF Shape

LEMMA InitNumbered == Init => Numbered
<1> SUFFICES ASSUME Init PROVE Numbered
  OBVIOUS
<1>1. Types /\ link = <<>> /\ \A ch \in Channels : shadow[ch].ver = 0
  BY InitTypes DEF Init, NoShadow
<1>2. \A ch \in Channels : shadow[ch].ver <= retained[ch].ver
  BY <1>1, VersionsAre
<1> QED
  BY <1>1, <1>2 DEF Numbered

(* On a link that reorders, loses and repeats frames the STATE plane is    *)
(* still a latest-value register, under the catalog the hub booted with,   *)
(* as long as no frame is on its way while more than half the range of the *)
(* sequence numbers is published: serial arithmetic tells the older value  *)
(* from the newer, across the wrap too.                                    *)
THEOREM DatagramImplements ==
    ASSUME Dynamic = {}
    PROVE  Spec /\ []Timely => ImplementsLatestValue
<1>1. Init => Types /\ Numbered
  BY InitTypes, InitNumbered
<1>2. Types /\ Numbered /\ Timely /\ Timely' /\ [Next]_vars => Types' /\ Numbered'
  BY NextTypes, StepHasShape, NumberedNext
<1>3. Types /\ Types' /\ Numbered /\ Timely /\ [Next]_vars
        => [Abstract!Next]_<<Latest, Seen>>
  BY NumberedIsFresh, StepHasShape, StepRefines
<1>4. Types /\ Types' /\ Numbered /\ Timely /\ [Next]_vars
        => [Abstract!Next]_<<[ch \in Channels |-> retained[ch].ver],
                             [ch \in Channels |-> shadow[ch].ver]>>
  BY <1>3 DEF Latest, Seen
<1> QED
  BY <1>1, <1>2, <1>4, InitRefines, PTL DEF Spec, ImplementsLatestValue, Abstract!Spec

(* So it is whenever at most half the range of values is published.        *)
THEOREM FewValuesImplement ==
    ASSUME Dynamic = {}, MaxVersion <= Modulus \div 2 + 1
    PROVE  Spec => ImplementsLatestValue
<1>1. Types => Timely
  <2> SUFFICES ASSUME Types, NEW i \in 1 .. Len(link), link[i].type = "STATE"
               PROVE  retained[link[i].ch].ver - link[i].ver <= Modulus \div 2
    BY DEF Timely
  <2>1. PICK c \in Channels : c = link[i].ch
    BY VersionsAre
  <2>2. retained[c].ver \in 0 .. MaxVersion /\ link[i].ver \in Nat \ {0}
    BY VersionsAre DEF Types, HubTypes, Version
  <2> DEFINE h == Modulus \div 2
  <2>3. h \in Nat /\ MaxVersion \in Nat /\ MaxVersion <= h + 1
    BY Half, Basics
  <2> HIDE DEF h
  <2>4. retained[c].ver - link[i].ver <= h
    BY <2>2, <2>3
  <2> QED
    BY <2>1, <2>4 DEF h
<1> QED
  BY <1>1, TypesHold, DatagramImplements, PTL

------------------------------------------------------------------------------
(* LIVE                                                                    *)

(* The channels the client has a value of.                                 *)
Shown == {ch \in Channels : shadow[ch].ver # 0}

(* It has all there is: every channel and the announcement of the catalog. *)
Complete == announced /\ Shown = Channels

(* What may have been counted towards LIVE.                                *)
Countable == Cardinality(Shown) + (IF announced THEN 1 ELSE 0)

(* Every channel holds a value and is granted to a session.                *)
AllGranted ==
    /\ catalog = Channels /\ \A ch \in Channels : retained[ch].held
    /\ session # "none" => subs = Channels

(* Nothing is withdrawn, and WELCOME promises everything.                  *)
AllPromised ==
    \A i \in 1 .. Len(link) :
      /\ link[i].type # "WITHDRAWN"
      /\ link[i].type = "WELCOME" => link[i].promised = Channels

(* The client counts no channel twice, and was promised everything; one    *)
(* that was LIVE and syncs again still has everything.                     *)
CountsOnce ==
    /\ state \in {"SYNCING", "LIVE"} => promised = Channels
    /\ adopted <= Countable
    /\ state = "LIVE" \/ resyncing => Complete
    /\ state = "HELLO_SENT" => ~resyncing

LInv == AllGranted /\ AllPromised /\ CountsOnce

LEMMA ShownIs ==
    /\ Shown \subseteq Channels /\ IsFiniteSet(Shown) /\ Cardinality(Shown) \in Nat
    /\ Countable \in Nat
<1>1. Shown \in SUBSET Channels
  BY DEF Shown
<1>2. IsFiniteSet(Shown)
  BY <1>1, FiniteChannels, FS_Subset
<1>3. Cardinality(Shown) \in Nat
  BY <1>2, FS_CardinalityType
<1> QED
  BY <1>1, <1>2, <1>3 DEF Countable

(* Who counted as many as were promised, the catalog among them, has all.  *)
LEMMA EnoughIsAll ==
    ASSUME NEW S \in SUBSET Channels, NEW a,
           Cardinality(S) + (IF a THEN 1 ELSE 0) >= Cardinality(Channels) + 1
    PROVE  a /\ S = Channels
<1>1. IsFiniteSet(Channels) /\ Cardinality(Channels) \in Nat /\ IsFiniteSet(S)
  BY FiniteChannels, FS_Subset
<1>2. /\ Cardinality(S) <= Cardinality(Channels) /\ Cardinality(S) \in Nat
      /\ Cardinality(S) = Cardinality(Channels) => S = Channels
  BY <1>1, FS_Subset, FS_CardinalityType
<1>3. CASE a
  BY <1>1, <1>2, <1>3
<1>4. CASE ~a
  BY <1>1, <1>2, <1>4
<1> QED
  BY <1>3, <1>4

(* The gate opens for a client that has everything only.                   *)
LEMMA GateOpens ==
    ASSUME NEW s, NEW ok, NEW n \in Nat, NEW p, p = Channels, NEW m \in Nat, n <= m,
           Gate(s, ok, n, p) = "LIVE", s # "LIVE"
    PROVE  m >= Cardinality(Channels) + 1
  BY FiniteChannels DEF Gate

LEMMA PromisedGrows ==
    ASSUME Types, AllPromised, NEW x \in Seq(Frames), link' = link \o x,
           \A i \in 1 .. Len(x) : x[i].type \notin {"WITHDRAWN", "WELCOME"}
    PROVE  AllPromised'
<1> DEFINE n == Len(link)
<1>1. /\ n \in Nat /\ Len(x) \in Nat /\ Len(link') = n + Len(x)
      /\ \A j \in 1 .. (n + Len(x)) : link'[j] = IF j <= n THEN link[j] ELSE x[j - n]
  <2>1. link \in Seq(Frames)
    BY DEF Types, LinkTypes
  <2> QED
    BY <2>1, ConcatIs
<1> HIDE DEF n
<1>2. \A j \in 1 .. Len(link') :
        \/ j \in 1 .. n /\ link'[j] = link[j]
        \/ j - n \in 1 .. Len(x) /\ link'[j] = x[j - n]
  BY <1>1
<1>3. \A j \in 1 .. Len(link') :
        /\ link'[j].type # "WITHDRAWN"
        /\ link'[j].type = "WELCOME" => link'[j].promised = Channels
  BY <1>2 DEF AllPromised, n
<1> QED
  BY <1>3 DEF AllPromised

LEMMA PromisedShrinks ==
    ASSUME Types, AllPromised, NEW i \in 1 .. Len(link), link' = RemoveAt(link, i) \/ link' = link
    PROVE  AllPromised'
<1>1. PICK k \in [1 .. Len(link') -> 1 .. Len(link)] :
         \A a \in 1 .. Len(link') : link'[a] = link[k[a]]
  BY LeftIs
<1>2. \A a \in 1 .. Len(link') : \E j \in 1 .. Len(link) : link'[a] = link[j]
  BY <1>1
<1> QED
  BY <1>2 DEF AllPromised

(* Steps that leave the client, or its gate, alone.                        *)
LEMMA CountKept ==
    ASSUME CountsOnce, UNCHANGED <<state, promised, adopted, announced, shadow, resyncing>>
    PROVE  CountsOnce'
<1>1. Shown' = Shown /\ announced' = announced
  BY DEF Shown
<1>2. Countable' = Countable /\ (Complete => Complete')
  BY <1>1 DEF Countable, Complete
<1> QED
  BY <1>2 DEF CountsOnce

(* The client starts anew with nothing.                                    *)
LEMMA CountCleared ==
    ASSUME adopted' = 0, state' \in {"HELLO_SENT", "SYNCING"}, resyncing' = FALSE,
           state' = "SYNCING" => promised' = Channels
    PROVE  CountsOnce'
<1>1. Countable' \in Nat
  <2>1. Shown' \in SUBSET Channels
    BY DEF Shown
  <2>2. IsFiniteSet(Shown')
    BY <2>1, FiniteChannels, FS_Subset
  <2>3. Cardinality(Shown') \in Nat
    BY <2>2, FS_CardinalityType
  <2> QED
    BY <2>3 DEF Countable
<1>2. 0 <= Countable'
  BY <1>1
<1> QED
  BY <1>2 DEF CountsOnce

LEMMA ConnectLive ==
    ASSUME Types, LInv, Connect
    PROVE  LInv'
<1>1. /\ UNCHANGED catalogVars /\ session' = "attached" /\ subs' = Channels
  BY DEF Connect, LInv, AllGranted
<1>2. AllGranted'
  BY <1>1 DEF LInv, AllGranted, catalogVars
<1>3. AllPromised'
  <2> DEFINE w == Welcome(subs')
  <2>1. w.type = "WELCOME" /\ w.promised = {ch \in Channels \cap catalog : retained[ch].held}
    BY <1>1 DEF Welcome
  <2>2. w.promised = Channels
    BY <2>1 DEF LInv, AllGranted
  <2>3. link' = <<w>>
    BY DEF Connect
  <2> HIDE DEF w
  <2> QED
    BY <2>1, <2>2, <2>3 DEF AllPromised
<1>4. CountsOnce'
  BY CountCleared DEF Connect
<1> QED
  BY <1>2, <1>3, <1>4 DEF LInv

(* The client closes: what it has stays.                                   *)
LEMMA LeaveLive ==
    ASSUME Types, LInv, Leave
    PROVE  LInv'
<1>1. /\ UNCHANGED <<catalogVars, announced, resyncing, shadow, promised, adopted>>
      /\ state' = "CLOSED" /\ link' = <<>>
  BY DEF Leave, fetchVars
<1>2. session' # "none" => session # "none" /\ subs' = subs
  BY DEF Leave
<1>3. AllGranted'
  BY <1>1, <1>2 DEF LInv, AllGranted, catalogVars
<1>4. AllPromised'
  BY <1>1 DEF AllPromised
<1>5. CountsOnce'
  <2>1. Shown' = Shown /\ announced' = announced
    BY <1>1 DEF Shown
  <2>2. Countable' = Countable /\ (Complete => Complete')
    BY <2>1 DEF Countable, Complete
  <2> QED
    BY <1>1, <2>2 DEF LInv, CountsOnce
<1> QED
  BY <1>3, <1>4, <1>5 DEF LInv

(* Who has everything keeps it while values only come in.                  *)
LEMMA StillComplete ==
    ASSUME announced => announced', Shown \subseteq Shown', Shown' \subseteq Channels
    PROVE  Complete => Complete'
  BY DEF Complete

LEMMA WelcomeLive ==
    ASSUME Types, LInv, NEW f \in Frames, HandleWelcome(f), f.promised = Channels
    PROVE  AllGranted' /\ CountsOnce'
<1>1. AllGranted'
  <2>1. UNCHANGED <<catalogVars, session>>
    BY DEF HandleWelcome
  <2>2. subs' = subs \/ subs' = subs \cup (Channels \cap catalog)
    BY DEF HandleWelcome, ResendSubscriptionWishes, Granting
  <2>3. subs = Channels => subs' = Channels
    BY <2>2
  <2> QED
    BY <2>1, <2>3 DEF LInv, AllGranted, catalogVars
<1>2. CASE state = "HELLO_SENT"
  <2>1. /\ promised' = f.promised /\ adopted' = 0 /\ resyncing' = resyncing
        /\ state' = Gate("SYNCING", catalogReady', 0, f.promised)
    BY <1>2 DEF HandleWelcome
  <2>2. state' = "SYNCING"
    <3>1. ~(0 >= Cardinality(f.promised) + 1)
      BY FiniteChannels
    <3> QED
      BY <2>1, <3>1 DEF Gate
  <2>3. resyncing' = FALSE
    BY <1>2, <2>1 DEF LInv, CountsOnce, Types, ClientTypes, Flags
  <2> QED
    BY <1>1, <2>1, <2>2, <2>3, CountCleared
<1>3. CASE state # "HELLO_SENT"
  <2>1. UNCHANGED clientVars
    BY <1>3 DEF HandleWelcome
  <2>2. CountsOnce'
    BY <2>1, CountKept DEF LInv, clientVars, fetchVars, gateVars
  <2> QED
    BY <1>1, <2>2
<1> QED
  BY <1>2, <1>3

(* The count and the gate after a frame that may have been counted: n is   *)
(* the new count, at most one more than the old one.                       *)
Counted ==
    \/ /\ Reopened /\ state' = "LIVE" /\ adopted' = adopted
    \/ /\ ~Reopened
       /\ state' = IF adopted' # adopted THEN Gate(state, catalogReady, adopted', promised)
                   ELSE state

LEMMA CountedOnce ==
    ASSUME Types, Types', CountsOnce, Counted, promised' = promised,
           resyncing' = (resyncing /\ ~Reopened),
           announced => announced', Shown \subseteq Shown', Shown' \subseteq Channels,
           Countable \in Nat, Countable' \in Nat, adopted' <= Countable'
    PROVE  CountsOnce'
<1>1. Complete => Complete'
  BY StillComplete
<1>2. CASE Reopened
  <2>1. state' = "LIVE" /\ resyncing /\ state = "SYNCING"
    BY <1>2 DEF Counted, Reopened
  <2>2. Complete'
    BY <1>1, <2>1 DEF CountsOnce
  <2> QED
    BY <2>1, <2>2 DEF CountsOnce
<1>3. CASE ~Reopened /\ state' = state
  BY <1>1, <1>3 DEF CountsOnce
<1>4. CASE ~Reopened /\ state' # state
  <2>1. state' = Gate(state, catalogReady, adopted', promised)
    BY <1>4 DEF Counted
  <2>2. state = "SYNCING" /\ state' = "LIVE" /\ ~resyncing
    BY <1>4, <2>1 DEF Gate
  <2>3. promised = Channels
    BY <2>2 DEF CountsOnce
  <2>4. adopted' \in Nat
    BY DEF Types, ClientTypes
  <2>5. Countable' >= Cardinality(Channels) + 1
    BY <2>1, <2>2, <2>3, <2>4, GateOpens
  <2>6. Complete'
    <3>1. Cardinality(Shown') + (IF announced' THEN 1 ELSE 0) >= Cardinality(Channels) + 1
      BY <2>5 DEF Countable
    <3>2. Shown' \in SUBSET Channels
      OBVIOUS
    <3>3. announced' /\ Shown' = Channels
      BY <3>1, <3>2, EnoughIsAll
    <3> QED
      BY <3>3 DEF Complete
  <2> QED
    BY <2>2, <2>3, <2>6 DEF CountsOnce
<1> QED
  BY <1>2, <1>3, <1>4

(* The channels shown after a step, and their number.                      *)
LEMMA ShownNext ==
    /\ Shown' \subseteq Channels /\ IsFiniteSet(Shown') /\ Cardinality(Shown') \in Nat
    /\ Countable' \in Nat
<1>1. Shown' \in SUBSET Channels
  BY DEF Shown
<1>2. IsFiniteSet(Shown')
  BY <1>1, FiniteChannels, FS_Subset
<1>3. Cardinality(Shown') \in Nat
  BY <1>2, FS_CardinalityType
<1> QED
  BY <1>1, <1>2, <1>3 DEF Countable

LEMMA StateLive ==
    ASSUME Types, Types', LInv, NEW f \in Frames, HandleState(f)
    PROVE  AllGranted' /\ CountsOnce'
<1>1. AllGranted' /\ UNCHANGED <<announced, promised>>
  BY DEF HandleState, LInv, AllGranted, hubVars, catalogVars, paceVars
<1>2. PICK c \in Channels : c = f.ch /\ f.ver # 0
  BY FrameKinds DEF HandleState
<1>3. shadow \in [Channels -> Shadow]
  BY DEF Types, ClientTypes
<1>4. \/ shadow' = shadow
      \/ Newer(f) /\ shadow' = [shadow EXCEPT ![c] = [seq |-> f.seq, ver |-> f.ver]]
  BY <1>2 DEF HandleState
<1>5. Shown' = Shown \/ Shown' = Shown \cup {c}
  BY <1>2, <1>3, <1>4 DEF Shown
<1>6. Newer(f) => Shown' = Shown \cup {c}
  <2>1. Newer(f) => shadow' = [shadow EXCEPT ![c] = [seq |-> f.seq, ver |-> f.ver]]
    BY <1>2 DEF HandleState
  <2> QED
    BY <1>2, <1>3, <2>1 DEF Shown
<1>7. Cardinality(Shown') >= Cardinality(Shown)
      /\ (c \notin Shown /\ Shown' = Shown \cup {c} =>
            Cardinality(Shown') = Cardinality(Shown) + 1)
  <2>1. IsFiniteSet(Shown) /\ IsFiniteSet(Shown') /\ Cardinality(Shown) \in Nat
    BY ShownIs, ShownNext
  <2>2. Shown \in SUBSET Shown'
    BY <1>5
  <2>3. Cardinality(Shown) <= Cardinality(Shown')
    BY <2>1, <2>2, FS_Subset
  <2>4. Cardinality(Shown \cup {c}) =
           IF c \in Shown THEN Cardinality(Shown) ELSE Cardinality(Shown) + 1
    BY <2>1, FS_AddElement
  <2> QED
    BY <2>3, <2>4, <2>1, ShownNext
<1>8. adopted' <= Countable'
  <2>1. adopted \in Nat /\ adopted <= Countable /\ Countable \in Nat /\ Countable' \in Nat
    BY ShownIs, ShownNext DEF Types, ClientTypes, LInv, CountsOnce
  <2>2. CASE adopted' = adopted
    <3>1. Countable <= Countable'
      BY <1>1, <1>7, ShownIs, ShownNext DEF Countable
    <3> QED
      BY <2>1, <2>2, <3>1
  <2>3. CASE adopted' # adopted
    <3>1. adopted' = adopted + 1 /\ Newer(f) /\ shadow[c].ver = 0
      BY <1>2, <2>3 DEF HandleState, Counts
    <3>2. c \notin Shown /\ Shown' = Shown \cup {c}
      BY <1>6, <3>1 DEF Shown
    <3>3. Countable' = Countable + 1
      BY <1>1, <1>7, <3>2, ShownIs DEF Countable
    <3> QED
      BY <2>1, <3>1, <3>3
  <2> QED
    BY <2>2, <2>3
<1>9. Counted /\ resyncing' = (resyncing /\ ~Reopened)
  BY DEF Counted, HandleState
<1>10. CountsOnce'
  BY <1>1, <1>5, <1>8, <1>9, ShownIs, ShownNext, CountedOnce DEF LInv
<1> QED
  BY <1>1, <1>10

LEMMA AnnouncementLive ==
    ASSUME Types, Types', LInv, NEW f \in Frames, HandleAnnouncement(f)
    PROVE  AllGranted' /\ CountsOnce'
<1>1. AllGranted' /\ UNCHANGED <<shadow, promised>> /\ announced' = TRUE
  BY DEF HandleAnnouncement, LInv, AllGranted, hubVars, catalogVars, paceVars
<1>2. Shown' = Shown
  BY <1>1 DEF Shown
<1>3. adopted' <= Countable'
  <2>1. adopted \in Nat /\ adopted <= Countable /\ Cardinality(Shown) \in Nat
    BY ShownIs DEF Types, ClientTypes, LInv, CountsOnce
  <2>2. Countable' = Cardinality(Shown) + 1
    BY <1>1, <1>2 DEF Countable
  <2>3. CASE announced
    <3>1. adopted' = adopted /\ Countable = Cardinality(Shown) + 1
      BY <2>3 DEF HandleAnnouncement, Countable
    <3> QED
      BY <2>1, <2>2, <3>1
  <2>4. CASE ~announced
    <3>1. (adopted' = adopted \/ adopted' = adopted + 1) /\ Countable = Cardinality(Shown)
      BY <2>1, <2>4 DEF HandleAnnouncement, Countable
    <3> QED
      BY <2>1, <2>2, <3>1
  <2> QED
    BY <2>3, <2>4
<1>4. Counted /\ resyncing' = (resyncing /\ ~Reopened)
  BY DEF Counted, HandleAnnouncement
<1>5. CountsOnce'
  BY <1>1, <1>2, <1>3, <1>4, ShownIs, ShownNext, CountedOnce DEF LInv
<1> QED
  BY <1>1, <1>5

LEMMA NotReadyLive ==
    ASSUME Types, LInv, NEW f \in Frames, HandleNotReady(f)
    PROVE  AllGranted' /\ CountsOnce'
<1>1. /\ AllGranted' /\ UNCHANGED <<shadow, promised, announced, adopted>>
  BY DEF HandleNotReady, LInv, AllGranted, catalogVars, paceVars
<1>2. Shown' = Shown
  BY <1>1 DEF Shown
<1>3. Countable' = Countable /\ (Complete => Complete')
  BY <1>1, <1>2 DEF Countable, Complete
<1>4. CASE state = "LIVE"
  <2>1. state' = "SYNCING" /\ Complete /\ promised = Channels
    BY <1>4 DEF HandleNotReady, LInv, CountsOnce
  <2> QED
    BY <1>1, <1>3, <2>1 DEF LInv, CountsOnce
<1>5. CASE state # "LIVE"
  <2>1. resyncing' = resyncing /\ (state' = state \/ state' = "CLOSED")
    BY <1>5 DEF HandleNotReady
  <2> QED
    BY <1>1, <1>3, <2>1, <1>5 DEF LInv, CountsOnce
<1> QED
  BY <1>4, <1>5

LEMMA ReceiveLive ==
    ASSUME Types, Types', LInv, Receive
    PROVE  LInv'
<1>1. PICK i \in DOMAIN link :
         /\ \/ HandleWelcome(link[i]) \/ HandleState(link[i]) \/ HandleAnnouncement(link[i])
            \/ HandleWithdrawn(link[i]) \/ HandleNotReady(link[i])
         /\ link' = RemoveAt(link, i) \/ (Lossy /\ UNCHANGED link)
  BY DEF Receive
<1>2. i \in 1 .. Len(link) /\ link[i] \in Frames
  BY LinkFrames DEF Types, LinkTypes
<1>3. AllPromised'
  BY <1>1, <1>2, PromisedShrinks DEF LInv
<1>4. ~HandleWithdrawn(link[i])
  BY <1>2 DEF HandleWithdrawn, LInv, AllPromised
<1>5. HandleWelcome(link[i]) => link[i].promised = Channels
  BY <1>2 DEF HandleWelcome, LInv, AllPromised
<1>6. AllGranted' /\ CountsOnce'
  BY <1>1, <1>2, <1>4, <1>5, WelcomeLive, StateLive, AnnouncementLive, NotReadyLive
<1> QED
  BY <1>3, <1>6 DEF LInv

LEMMA CatalogReadyLive ==
    ASSUME Types, LInv, CatalogReady
    PROVE  LInv'
<1>1. UNCHANGED <<catalogVars, session, paceVars, link, announced, resyncing, shadow,
                  promised, adopted>>
  BY DEF CatalogReady
<1>2. AllGranted' /\ AllPromised'
  BY <1>1 DEF LInv, AllGranted, AllPromised, catalogVars, paceVars
<1>3. Shown' = Shown /\ announced' = announced
  BY <1>1 DEF Shown
<1>4. Countable' = Countable /\ (Complete => Complete')
  BY <1>3 DEF Countable, Complete
<1>5. state' = Gate(state, TRUE, adopted, promised)
  BY DEF CatalogReady
<1>6. CASE state' = state
  BY <1>1, <1>2, <1>4, <1>6 DEF LInv, CountsOnce
<1>7. CASE state' # state
  <2>1. state = "SYNCING" /\ state' = "LIVE" /\ promised = Channels
    BY <1>5, <1>7 DEF Gate, LInv, CountsOnce
  <2>2. adopted \in Nat /\ Countable \in Nat /\ adopted <= Countable
    BY ShownIs DEF Types, ClientTypes, LInv, CountsOnce
  <2>3. Countable >= Cardinality(Channels) + 1
    BY <1>5, <2>1, <2>2, GateOpens
  <2>4. Complete
    <3>1. Cardinality(Shown) + (IF announced THEN 1 ELSE 0) >= Cardinality(Channels) + 1
      BY <2>3 DEF Countable
    <3>2. Shown \in SUBSET Channels
      BY ShownIs
    <3>3. announced /\ Shown = Channels
      BY <3>1, <3>2, EnoughIsAll
    <3> QED
      BY <3>3 DEF Complete
  <2> QED
    BY <1>1, <1>2, <1>4, <2>1, <2>4 DEF LInv, CountsOnce
<1> QED
  BY <1>6, <1>7

(* What the hub does on its own.                                           *)
LEMMA HubLive ==
    ASSUME Types, LInv, UNCHANGED clientVars, AllGranted', AllPromised'
    PROVE  LInv'
<1>1. CountsOnce'
  BY CountKept DEF LInv, clientVars, fetchVars, gateVars
<1> QED
  BY <1>1 DEF LInv

LEMMA PublishLive ==
    ASSUME Types, LInv, NEW ch \in Channels, Publish(ch)
    PROVE  LInv'
<1>1. /\ UNCHANGED <<catalog, session, subs, link, clientVars>>
      /\ retained' = [retained EXCEPT ![ch] =
            [held |-> TRUE, seq |-> (@.seq + 1) % Modulus, ver |-> @.ver + 1]]
  BY DEF Publish, paceVars
<1>2. \A c \in Channels : retained'[c].held
  BY <1>1 DEF Types, HubTypes, LInv, AllGranted
<1>3. AllGranted'
  BY <1>1, <1>2 DEF LInv, AllGranted
<1>4. AllPromised'
  BY <1>1 DEF LInv, AllPromised
<1> QED
  BY <1>1, <1>3, <1>4, HubLive

LEMMA PumpLive ==
    ASSUME Types, LInv, NEW D \in SUBSET {x \in Channels : Due(x)}, PumpStatePacing(D)
    PROVE  LInv'
<1>1. UNCHANGED <<catalogVars, session, subs, clientVars>>
  BY DEF PumpStatePacing
<1>2. AllGranted'
  BY <1>1 DEF LInv, AllGranted, catalogVars
<1>3. Pumps
  BY <1>1, PumpShape DEF Pumps, catalogVars, clientVars, gateVars
<1>4. PICK x \in Seq(Frames) : link' = link \o x /\ \A i \in 1 .. Len(x) : IsLatest(x[i])
  BY <1>3, PumpsLatest
<1>5. AllPromised'
  BY <1>4, PromisedGrows DEF IsLatest, LInv
<1> QED
  BY <1>1, <1>2, <1>5, HubLive

(* One more frame, of a kind that promises and withdraws nothing.          *)
LEMMA OnePromised ==
    ASSUME Types, AllPromised, NEW f \in Frames, f.type \notin {"WITHDRAWN", "WELCOME"},
           link' = Append(link, f) \/ link' = link \o Fitting(<<f>>)
    PROVE  AllPromised'
<1> DEFINE x == <<f>>
<1>1. x \in Seq({f}) /\ {f} \subseteq Frames
  OBVIOUS
<1>2. Append(link, f) = link \o x
  BY AppendIs DEF Types, LinkTypes
<1> HIDE DEF x
<1>3. Fitting(x) \in Seq({f})
  BY <1>1, FittingIs DEF Types
<1>4. PICK y \in Seq({f}) : link' = link \o y
  BY <1>1, <1>2, <1>3 DEF x
<1>5. y \in Seq(Frames) /\ \A i \in 1 .. Len(y) : y[i].type \notin {"WITHDRAWN", "WELCOME"}
  OBVIOUS
<1> QED
  BY <1>4, <1>5, PromisedGrows

LEMMA TellLive ==
    ASSUME Types, LInv, PumpAnnouncement \/ RefuseIntent
    PROVE  LInv'
<1>1. UNCHANGED <<catalogVars, session, subs, clientVars>>
  BY DEF PumpAnnouncement, RefuseIntent, hubVars, paceVars
<1>2. AllGranted'
  BY <1>1 DEF LInv, AllGranted, catalogVars
<1>3. \E f \in Frames : /\ f.type \notin {"WITHDRAWN", "WELCOME"}
                        /\ link' = Append(link, f) \/ link' = link \o Fitting(<<f>>)
  <2>1. CASE PumpAnnouncement
    <3>1. Announcement \in Frames /\ Announcement.type = "ANNOUNCE"
      BY DEF Announcement, Frames, Types, HubTypes
    <3> QED
      BY <2>1, <3>1 DEF PumpAnnouncement
  <2>2. CASE RefuseIntent
    <3> DEFINE f == [type |-> "NOT_READY"]
    <3>1. f \in Frames /\ f.type = "NOT_READY" /\ link' = link \o Fitting(<<f>>)
      BY <2>2 DEF Frames, RefuseIntent
    <3> HIDE DEF f
    <3> QED
      BY <3>1
  <2> QED
    BY <2>1, <2>2
<1>4. AllPromised'
  BY <1>3, OnePromised DEF LInv
<1> QED
  BY <1>1, <1>2, <1>4, HubLive

LEMMA QuietLive ==
    ASSUME Types, LInv,
           \/ \E ch \in Channels : Subscribe(ch)
           \/ \E l \in 0 .. 2 : SetCongestionLevel(l)
           \/ Park \/ LoseFrame \/ AbandonRefetch \/ RepeatReady \/ UNCHANGED vars
    PROVE  LInv'
<1>1. UNCHANGED <<catalog, retained, state, promised, adopted, announced, shadow, resyncing>>
  BY DEF Subscribe, SetCongestionLevel, Park, LoseFrame, AbandonRefetch, RepeatReady, vars,
         hubVars, catalogVars, clientVars, fetchVars, gateVars
<1>2. session' # "none" => session # "none"
  BY DEF Subscribe, SetCongestionLevel, Park, LoseFrame, AbandonRefetch, RepeatReady, vars,
         hubVars
<1>3. subs' = subs \/ \E ch \in Channels : subs' = subs \cup ({ch} \cap catalog)
  BY DEF Subscribe, Granting, SetCongestionLevel, Park, LoseFrame, AbandonRefetch, RepeatReady,
         vars, hubVars, paceVars
<1>4. subs = Channels => subs' = Channels
  BY <1>3
<1>5. AllGranted'
  BY <1>1, <1>2, <1>4 DEF LInv, AllGranted
<1>6. AllPromised'
  <2>1. CASE LoseFrame
    <3>1. PICK i \in DOMAIN link : link' = RemoveAt(link, i)
      BY <2>1 DEF LoseFrame
    <3>2. i \in 1 .. Len(link)
      BY DEF Types, LinkTypes
    <3> QED
      BY <3>1, <3>2, PromisedShrinks DEF LInv
  <2>2. CASE ~LoseFrame
    <3>1. link' = link \/ link' = <<>>
      BY <2>2 DEF Subscribe, SetCongestionLevel, Park, AbandonRefetch, RepeatReady, vars
    <3> QED
      BY <3>1 DEF LInv, AllPromised
  <2> QED
    BY <2>1, <2>2
<1>7. CountsOnce'
  BY <1>1, CountKept DEF LInv
<1> QED
  BY <1>5, <1>6, <1>7 DEF LInv

LEMMA NextLive ==
    ASSUME Types, Types', LInv, [Next]_vars, Dynamic = {}
    PROVE  LInv'
<1>1. CASE \E ch \in Channels : Publish(ch) \/ Pump(ch)
  BY <1>1, PublishLive, PumpLive DEF Pump
<1>2. CASE \/ \E ch \in Channels : Subscribe(ch)
           \/ \E l \in 0 .. 2 : SetCongestionLevel(l)
           \/ Park \/ LoseFrame \/ AbandonRefetch \/ RepeatReady \/ UNCHANGED vars
  BY <1>2, QuietLive
<1>3. CASE Connect \/ PumpAnnouncement \/ RefuseIntent
  BY <1>3, ConnectLive, TellLive
<1>4. CASE CatalogChanges
  <2>1. PICK gone \in SUBSET Channels, new \in SUBSET Channels, fixedSame \in BOOLEAN :
           CatalogChanged(gone, new, fixedSame)
    BY <1>4, ChangesAre
  <2> QED
    BY <2>1 DEF CatalogChanged
<1>5. CASE Receive \/ CatalogReady
  BY <1>5, ReceiveLive, CatalogReadyLive
<1>6. CASE RefuseCatalogTransfer \/ Disconnect
  BY <1>6, LeaveLive DEF RefuseCatalogTransfer, Disconnect
<1> QED
  BY <1>1, <1>2, <1>3, <1>4, <1>5, <1>6 DEF Next

LEMMA InitLive ==
    ASSUME Init, Seeded = Channels
    PROVE  LInv
<1>1. AllGranted
  <2>1. \A ch \in Channels : retained[ch].held
    BY DEF Init
  <2> QED
    BY <2>1 DEF Init, AllGranted
<1>2. AllPromised
  BY DEF Init, AllPromised
<1>3. CountsOnce
  <2>1. adopted = 0 /\ state = "CLOSED" /\ resyncing = FALSE
    BY DEF Init
  <2>2. 0 <= Countable
    BY ShownIs
  <2> QED
    BY <2>1, <2>2 DEF CountsOnce
<1> QED
  BY <1>1, <1>2, <1>3 DEF LInv

(* A LIVE client has adopted everything WELCOME promised it, under the     *)
(* catalog the hub booted with and when all its channels hold values: on   *)
(* any link, however often it reconnects, re-syncs or subscribes again,    *)
(* no value is counted twice towards LIVE and none that was counted is     *)
(* lost again.                                                             *)
THEOREM LiveHolds ==
    ASSUME Dynamic = {}, Seeded = Channels
    PROVE  Spec => []LiveHasAdopted
<1>1. Init => Types /\ LInv
  BY InitTypes, InitLive
<1>2. Types /\ LInv /\ [Next]_vars => Types' /\ LInv'
  BY NextTypes, NextLive
<1>3. Types /\ LInv => LiveHasAdopted
  BY DEF Types, ClientTypes, LInv, CountsOnce, Complete, Shown, LiveHasAdopted
<1> QED
  BY <1>1, <1>2, <1>3, PTL DEF Spec

=============================================================================
