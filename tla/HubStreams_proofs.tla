-------------------------- MODULE HubStreams_proofs --------------------------
(***************************************************************************)
(* Theorems about HubStreams.                                              *)
(***************************************************************************)
EXTENDS HubStreams, TLAPS

(* A step that publishes the owner it leaves, or changes neither.          *)
LEMMA PublishStep ==
    ASSUME RetainedOwnerIsCurrent,
           \/ PublishControlOwner
           \/ UNCHANGED <<owner, shown>>
    PROVE  RetainedOwnerIsCurrent'
  BY DEF RetainedOwnerIsCurrent, PublishControlOwner

(* Nearly every handler leaves the source and its snapshot alone.          *)
LEMMA IdleStep ==
    ASSUME NEW s \in Sessions,
           \/ Hello(s) \/ HandleCatalogReady(s) \/ HandlePublish(s)
           \/ StreamDropped(s) \/ StreamOverage(s) \/ StreamPaused(s)
           \/ StreamConflict(s)
    PROVE  UNCHANGED <<owner, shown>>
  BY DEF Hello, HandleCatalogReady, HandlePublish, StreamDropped, StreamOverage,
         StreamPaused, StreamConflict

(* An intent: the snapshot is published unless the sender had the source,  *)
(* and then it keeps it whether or not the intent is applied.              *)
LEMMA IntentStep ==
    ASSUME NEW s \in Sessions, HandleIntent(s)
    PROVE  PublishControlOwner \/ UNCHANGED <<owner, shown>>
  <1>1. CASE owner = s
    BY <1>1 DEF HandleIntent
  <1>2. CASE owner # s
    BY <1>2 DEF HandleIntent
  <1> QED
    BY <1>1, <1>2

(* A session leaves, and with it what it owned.                            *)
LEMMA LeaveStep ==
    ASSUME NEW s \in Sessions, MarkStale(s) \/ Teardown(s)
    PROVE  PublishControlOwner \/ UNCHANGED <<owner, shown>>
  BY DEF MarkStale, Teardown, ReleaseSessionSources

(* A bundle that takes the source publishes it.                            *)
LEMMA DeliverStep ==
    ASSUME NEW s \in Sessions, StreamDelivered(s)
    PROVE  PublishControlOwner \/ UNCHANGED <<owner, shown>>
  <1>1. owner \in {None, s} /\ owner' = s
        /\ (IF owner = None THEN PublishControlOwner ELSE UNCHANGED shown)
    BY DEF StreamDelivered
  <1> QED
    BY <1>1

(* A re-sync reseeds the snapshot it removed, or that was never there.     *)
LEMMA WithdrawStep ==
    ASSUME WithdrawGrants
    PROVE  PublishControlOwner \/ UNCHANGED <<owner, shown>>
  BY DEF WithdrawGrants, ReseedCoreSnapshots

(* The retained control-owner snapshot names the session that has the      *)
(* source, for any number of sessions and any constants.                   *)
THEOREM RetainedOwnerHolds == Spec => []RetainedOwnerIsCurrent
  <1>1. Init => RetainedOwnerIsCurrent
    BY DEF Init, RetainedOwnerIsCurrent
  <1>2. ASSUME RetainedOwnerIsCurrent, [Next]_vars
        PROVE  RetainedOwnerIsCurrent'
    <2>1. CASE UNCHANGED vars
      BY <1>2, <2>1, PublishStep DEF vars
    <2>2. ASSUME NEW s \in Sessions,
                 \/ Hello(s) \/ HandleCatalogReady(s) \/ HandlePublish(s)
                 \/ HandleIntent(s) \/ MarkStale(s) \/ Teardown(s)
                 \/ StreamDropped(s) \/ StreamOverage(s) \/ StreamPaused(s)
                 \/ StreamConflict(s) \/ StreamDelivered(s)
          PROVE  RetainedOwnerIsCurrent'
      BY <1>2, <2>2, IdleStep, IntentStep, LeaveStep, DeliverStep, PublishStep
    <2>3. CASE WithdrawGrants
      BY <1>2, <2>3, WithdrawStep, PublishStep
    <2>4. CASE SetPause \/ StartUpdate \/ PumpQuietRelease
      <3>1. PublishControlOwner \/ UNCHANGED <<owner, shown>>
        BY <2>4 DEF SetPause, StartUpdate, PumpQuietRelease
      <3> QED
        BY <1>2, <3>1, PublishStep
    <2> QED
      BY <1>2, <2>1, <2>2, <2>3, <2>4 DEF Next
  <1> QED
    BY <1>1, <1>2, PTL DEF Spec

------------------------------------------------------------------------------
(* The wrapping clock                                                      *)

LEMMA Basics ==
    /\ Ring \in Nat /\ Half \in Nat /\ Half > 0 /\ Ring = 2 * Half
    /\ SpanCap \in Nat /\ Horizon \in Nat /\ MaxFuture \in Nat /\ QuietMs \in Nat
    /\ LeadCap \in Nat /\ (LeadCap = Horizon \/ LeadCap = MaxFuture)
    /\ Leads \subseteq Stamps /\ Leads \subseteq Int
    /\ \A o \in Offsets : o \in Seq(Nat)
    /\ Gaps \subseteq Nat \ {0}
<1>1. /\ Ring \in Nat \ {0} /\ Ring = 2 * Half
      /\ SpanCap \in Nat /\ Horizon \in Nat /\ MaxFuture \in Nat /\ QuietMs \in Nat
  BY StreamConstants DEF StreamConstants
<1>2. Half \in Nat /\ Half > 0
  BY <1>1 DEF Half
<1>3. LeadCap \in Nat /\ (LeadCap = Horizon \/ LeadCap = MaxFuture)
  BY <1>1 DEF LeadCap
<1>4. Leads \subseteq Stamps /\ Stamps \subseteq Int
  BY <1>2, StreamConstants DEF StreamConstants, Stamps
<1>5. (\A o \in Offsets : o \in Seq(Nat)) /\ Gaps \subseteq Nat \ {0}
  BY StreamConstants DEF StreamConstants
<1> QED
  BY <1>1, <1>2, <1>3, <1>4, <1>5

(* The larger of two numbers.                                              *)
LEMMA MaxIs ==
    ASSUME NEW a \in Int, NEW b \in Int
    PROVE  Max({a, b}) = IF a >= b THEN a ELSE b
<1>1. \E x \in {a, b} : \A y \in {a, b} : x >= y
  OBVIOUS
<1>2. Max({a, b}) \in {a, b} /\ \A y \in {a, b} : Max({a, b}) >= y
  BY <1>1 DEF Max
<1> QED
  BY <1>2

LEMMA ModIs ==
    ASSUME NEW y \in Int, -Ring <= y, y < Ring + Ring
    PROVE  y % Ring = IF y < 0 THEN y + Ring ELSE IF y < Ring THEN y ELSE y - Ring
<1>0. Ring \in Nat /\ Ring > 0
  BY Basics
<1>1. CASE y < 0
  BY <1>0, <1>1
<1>2. CASE y >= 0 /\ y < Ring
  BY <1>0, <1>2
<1>3. CASE y >= Ring
  BY <1>0, <1>3
<1> QED
  BY <1>0, <1>1, <1>2, <1>3

(* A distance within one turn of the ring.                                 *)
LEMMA WrapIs ==
    ASSUME NEW d \in Int, -(Ring + Half) <= d, d < Ring + Half
    PROVE  /\ Wrap(d) = IF d < -Half THEN d + Ring ELSE IF d < Half THEN d ELSE d - Ring
           /\ Wrap(d) \in Stamps /\ Wrap(d) \in Int
<1>0. Ring \in Nat /\ Half \in Nat /\ Ring = 2 * Half
  BY Basics
<1>1. -Ring <= d + Half /\ d + Half < Ring + Ring /\ d + Half \in Int
  BY <1>0
<1>2. (d + Half) % Ring = IF d + Half < 0 THEN (d + Half) + Ring
                          ELSE IF d + Half < Ring THEN d + Half ELSE (d + Half) - Ring
  BY <1>1, ModIs
<1> QED
  BY <1>0, <1>2 DEF Wrap, Stamps

LEMMA WrapRange ==
    ASSUME NEW d \in Int
    PROVE  Wrap(d) \in Stamps /\ Wrap(d) \in Int
<1>0. Ring \in Nat /\ Ring > 0 /\ Half \in Nat /\ Ring = 2 * Half
  BY Basics
<1>1. PICK m : m = (d + Half) % Ring
  OBVIOUS
<1>2. m \in 0 .. (Ring - 1)
  BY <1>0, <1>1
<1> QED
  BY <1>0, <1>1, <1>2 DEF Wrap, Stamps

(* What is left of a lead l once a bundle with offset o is moved by as     *)
(* much as it exceeds the cap.                                             *)
LEMMA MovedBy ==
    ASSUME NEW l \in Int, NEW o \in Int, NEW cap \in Int, NEW turn \in Int
    PROVE  l - (((l + o) - turn) - cap) = (cap - o) + turn
OBVIOUS

LEMMA TurnBack ==
    ASSUME NEW h \in Nat, NEW r \in Nat, r = 2 * h, NEW c \in Int, 0 <= c, c < h,
           NEW y, y = c \/ y = c + r, NEW b,
           b = IF y < -h THEN y + r ELSE IF y < h THEN y ELSE y - r
    PROVE  b = c
<1>1. CASE y = c
  BY <1>1
<1>2. CASE y = c + r
  BY <1>2
<1> QED
  BY <1>1, <1>2

LEMMA SumInRange ==
    ASSUME NEW h \in Nat, NEW r \in Nat, r = 2 * h, NEW b \in Int, -h <= b, b < h,
           NEW o \in Nat, o < h, NEW z \in Int, z = b + o
    PROVE  -(r + h) <= z /\ z < r + h /\ -h <= z
OBVIOUS

LEMMA NoTurn ==
    ASSUME NEW h \in Nat, NEW r \in Nat, r = 2 * h, NEW cap \in Nat, cap < h,
           NEW l \in Int, l < h, NEW o \in Nat, o <= cap, NEW d \in Int, d = l + o,
           NEW w \in Int, w > cap, w = IF d < h THEN d ELSE d - r
    PROVE  d < h /\ w = d
<1>1. d < h + h
  OBVIOUS
<1>2. CASE d >= h
  <2>1. w = d - r
    BY <1>2
  <2>2. w < 0
    BY <1>1, <2>1
  <2> QED
    BY <2>2
<1> QED
  BY <1>2

------------------------------------------------------------------------------
(* The lead cap                                                            *)

(* No bundle is longer than the cap allows it to lead, and the cap is far  *)
(* below half a turn: 20 ms against 250 ms for samples, the horizon, at    *)
(* most a second, against itself for segments, and 35 minutes.             *)
CapsFit == SpanCap <= LeadCap /\ LeadCap < Half

(* The bundle that is handed on for one stamped l with offset o: its first *)
(* stamp b and its last.                                                   *)
LEMMA ClampHolds ==
    ASSUME CapsFit, NEW l \in Stamps, NEW offs \in Seq(Nat), Parses(offs),
           NEW b \in ClampLead(l, offs)
    PROVE  /\ b \in Stamps /\ LastStamp(b, offs) \in Stamps
           /\ LastStamp(b, offs) <= LeadCap
           /\ LastStamp(b, offs) < LastStamp(l, offs) => b >= 0
           /\ LastStamp(b, offs) = LeadCap \/ LastStamp(b, offs) = LastStamp(l, offs)
<1>0. /\ Ring \in Nat /\ Half \in Nat /\ Half > 0 /\ Ring = 2 * Half /\ LeadCap \in Nat
      /\ SpanCap \in Nat /\ LeadCap < Half /\ SpanCap <= LeadCap
  BY Basics DEF CapsFit
<1>1. PICK o \in Nat : o = offs[Len(offs)] /\ o <= SpanCap
  BY DEF Parses
<1>2. l \in Int /\ -Half <= l /\ l < Half
  BY <1>0 DEF Stamps
<1>3. PICK d \in Int : d = l + o
  BY <1>1, <1>2
<1>4. -(Ring + Half) <= d /\ d < Ring + Half /\ -Half <= d
  BY <1>0, <1>1, <1>2, <1>3
<1>5. PICK w : w = Wrap(d)
  OBVIOUS
<1>6. /\ w = IF d < Half THEN d ELSE d - Ring
      /\ w \in Int /\ w \in Stamps
  BY <1>0, <1>4, <1>5, WrapIs
<1>7. -Half <= w /\ w < Half
  BY <1>0, <1>6 DEF Stamps
<1>8. LastStamp(l, offs) = w /\ LastStamp(b, offs) = Wrap(b + o)
  BY <1>1, <1>3, <1>5 DEF LastStamp
<1>9. PICK over \in Int : over = w - LeadCap
  BY <1>0, <1>6
<1>10. /\ over > 0 => b = Wrap(l - over)
       /\ over < -Half => b = l \/ b = Wrap(l - over)
       /\ over <= 0 /\ over >= -Half => b = l
  <2>1. b \in CASE over > 0     -> {Wrap(l - over)}
               [] over < -Half -> {l, Wrap(l - over)}
               [] OTHER        -> {l}
    BY <1>8, <1>9 DEF ClampLead
  <2>2. Half >= 0
    BY <1>0
  <2>3. over > 0 => ~(over < -Half)
    BY <1>0, <1>9
  <2>4. over <= 0 => ~(over > 0)
    BY <1>9
  <2>5. over >= -Half => ~(over < -Half)
    BY <1>0, <1>9
  <2>6. CASE over > 0
    BY <2>1, <2>3, <2>6, <1>9, <1>0
  <2>7. CASE over < -Half
    BY <2>1, <2>3, <2>7, <1>9, <1>0
  <2>8. CASE over <= 0 /\ over >= -Half
    BY <2>1, <2>4, <2>5, <2>8, <1>9, <1>0
  <2> QED
    BY <1>0, <1>9, <2>6, <2>7, <2>8
<1>11. CASE b = l /\ over <= 0
  <2>1. LastStamp(b, offs) = w /\ w <= LeadCap
    BY <1>0, <1>6, <1>8, <1>9, <1>11
  <2> QED
    BY <1>0, <1>2, <1>6, <1>8, <1>11, <2>1
<1>12. CASE b = Wrap(l - over) /\ over > 0
  <2>0. w > LeadCap
    BY <1>0, <1>6, <1>9, <1>12
  <2>9. d < Half
    <3>1. o <= LeadCap
      BY <1>0, <1>1
    <3> QED
      BY <1>0, <1>2, <1>6, <2>0, <3>1, <1>3, NoTurn
  <2>10. w = (l + o) - 0 /\ w = d /\ 0 \in Int /\ o \in Int /\ LeadCap \in Int
    BY <1>0, <1>1, <1>2, <1>3, <1>6, <2>9
  <2>11. l - (w - LeadCap) = (LeadCap - o) + 0
    BY <1>2, <2>10, MovedBy
  <2>1. w > LeadCap /\ w = d /\ l - over = LeadCap - o
    BY <2>10, <1>9, <2>0, <2>11
  <2>2. PICK x \in Int : x = LeadCap - o
    BY <1>0, <1>1
  <2>3. -(Ring + Half) <= x /\ x < Ring + Half /\ 0 <= x /\ x < Half
    BY <1>0, <1>1, <2>2
  <2>4. b = x /\ b \in Stamps /\ b >= 0
    BY <1>0, <1>12, <2>1, <2>2, <2>3, WrapIs
  <2>5. -(Ring + Half) <= LeadCap /\ LeadCap < Ring + Half /\ LeadCap \in Int /\ -Half <= LeadCap
    BY <1>0
  <2>6. Wrap(LeadCap) = LeadCap /\ LeadCap \in Stamps
    BY <1>0, <2>5, WrapIs
  <2>7. b + o = LeadCap
    BY <1>0, <1>1, <2>2, <2>4
  <2> QED
    BY <1>0, <1>6, <1>8, <2>1, <2>4, <2>6, <2>7
<1>13. CASE b = Wrap(l - over) /\ over < -Half
  <2>1. PICK y \in Int : y = l - over
    BY <1>2, <1>9
  <2>2. -(Ring + Half) <= y /\ y < Ring + Half
    BY <1>0, <1>2, <1>6, <1>7, <1>9, <2>1
  <2>3. b = (IF y < -Half THEN y + Ring ELSE IF y < Half THEN y ELSE y - Ring)
        /\ b \in Stamps /\ b \in Int
    BY <1>13, <2>1, <2>2, WrapIs
  <2>4. PICK z \in Int : z = b + o
    BY <1>1, <2>3
  <2>5. -Half <= b /\ b < Half
    BY <1>0, <2>3 DEF Stamps
  <2>6. -(Ring + Half) <= z /\ z < Ring + Half
    <3>1. o < Half
      BY <1>0, <1>1
    <3> QED
      BY <1>0, <2>3, <2>4, <2>5, <3>1, SumInRange
  <2>7. Wrap(z) = IF z < -Half THEN z + Ring
                  ELSE IF z < Half THEN z ELSE z - Ring
    BY <2>6, WrapIs
  <2>8. w < LeadCap /\ LeadCap \in Stamps
    BY <1>0, <1>6, <1>7, <1>9, <1>13 DEF Stamps
  <2>9. Wrap(z) = LeadCap
    <3>1. w = d \/ w = d - Ring
      BY <1>6
    <3>2. y = LeadCap - o \/ y = LeadCap - o + Ring
      <4>1. y = l - (w - LeadCap) /\ o \in Int /\ LeadCap \in Int /\ Ring \in Int /\ 0 \in Int
        BY <1>0, <1>1, <1>9, <2>1
      <4>2. CASE w = d
        <5>1. w = (l + o) - 0
          BY <1>1, <1>2, <1>3, <4>2
        <5>2. y = (LeadCap - o) + 0
          BY <1>2, <4>1, <5>1, MovedBy
        <5> QED
          BY <4>1, <5>2
      <4>3. CASE w = d - Ring
        <5>1. w = (l + o) - Ring
          BY <1>3, <4>3
        <5>2. y = (LeadCap - o) + Ring
          BY <1>2, <4>1, <5>1, MovedBy
        <5> QED
          BY <5>2
      <4> QED
        BY <3>1, <4>2, <4>3
    <3>5. 0 <= LeadCap - o /\ LeadCap - o < Half
      BY <1>0, <1>1
    <3>3. b = LeadCap - o
      <4>1. PICK c \in Int : c = LeadCap - o
        BY <1>0, <1>1
      <4> QED
        BY <1>0, <2>3, <3>2, <3>5, <4>1, TurnBack
    <3>4. z = LeadCap
      BY <1>0, <1>1, <2>4, <3>3
    <3> QED
      BY <1>0, <2>7, <3>4
  <2> QED
    BY <1>0, <1>6, <1>8, <2>3, <2>4, <2>8, <2>9
<1> QED
  BY <1>0, <1>9, <1>10, <1>11, <1>12, <1>13

(* What a delivered bundle leaves behind.                                  *)
LEMMA DeliveredIs ==
    ASSUME NEW s \in Sessions, StreamDelivered(s)
    PROVE  \E offs \in Offsets, l \in Leads : \E b \in ClampLead(l, offs) :
              /\ offs \in Seq(Nat) /\ Parses(offs) /\ l \in Stamps
              /\ quiet' = MarkedActive(LastStamp(b, offs), Window)
              /\ played' = [stamped |-> LastStamp(l, offs), first |-> b,
                            last |-> LastStamp(b, offs)]
              /\ until' = Max({until, LastStamp(b, offs)})
<1>1. PICK offs \in Offsets, l \in Leads :
         /\ Admissible(s, offs)
         /\ \E b \in ClampLead(l, offs) :
              LET last == LastStamp(b, offs)
              IN  /\ quiet'  = MarkedActive(last, Window)
                  /\ played' = [stamped |-> LastStamp(l, offs), first |-> b, last |-> last]
                  /\ until'  = Max({until, last})
  BY DEF StreamDelivered
<1>2. offs \in Seq(Nat) /\ Parses(offs) /\ l \in Stamps
  BY <1>1, Basics DEF Admissible
<1> QED
  BY <1>1, <1>2

(* What the delegate is handed is never stamped beyond the cap, and a      *)
(* bundle the clamp moved never starts in the past, whatever a client      *)
(* stamps and whatever a build makes of an overflowing difference: for     *)
(* every cap that no span exceeds.                                         *)
THEOREM StampsHold ==
    ASSUME CapsFit
    PROVE  Spec => []StampsAreHeld
<1>1. Init => StampsAreHeld
  BY Basics DEF Init, StampsAreHeld
<1>2. ASSUME StampsAreHeld, [Next]_vars
      PROVE  StampsAreHeld'
  <2>1. CASE played' = played
    BY <1>2, <2>1 DEF StampsAreHeld
  <2>2. ASSUME NEW s \in Sessions, StreamDelivered(s)
        PROVE  StampsAreHeld'
    <3>1. PICK offs \in Offsets, l \in Leads : \E b \in ClampLead(l, offs) :
              /\ offs \in Seq(Nat) /\ Parses(offs) /\ l \in Stamps
              /\ played' = [stamped |-> LastStamp(l, offs), first |-> b,
                            last |-> LastStamp(b, offs)]
      BY <2>2, DeliveredIs
    <3>2. PICK b \in ClampLead(l, offs) :
              /\ offs \in Seq(Nat) /\ Parses(offs) /\ l \in Stamps
              /\ played' = [stamped |-> LastStamp(l, offs), first |-> b,
                            last |-> LastStamp(b, offs)]
      BY <3>1
    <3>3. /\ LastStamp(b, offs) <= LeadCap
          /\ LastStamp(b, offs) < LastStamp(l, offs) => b >= 0
      BY <3>2, ClampHolds
    <3>4. played'.stamped = LastStamp(l, offs) /\ played'.first = b
          /\ played'.last = LastStamp(b, offs)
      BY <3>2
    <3> QED
      BY <3>3, <3>4 DEF StampsAreHeld
  <2>3. played' = played \/ \E s \in Sessions : StreamDelivered(s)
    BY <1>2 DEF Next, vars, Hello, HandleCatalogReady, HandlePublish, HandleIntent, MarkStale,
                Teardown, StreamDropped, StreamOverage, StreamPaused, StreamConflict,
                WithdrawGrants, SetPause, StartUpdate, PumpQuietRelease
  <2> QED
    BY <2>1, <2>2, <2>3
<1> QED
  BY <1>1, <1>2, PTL DEF Spec

------------------------------------------------------------------------------
(* The quiet clock and the playout                                         *)

(* How old a stamp may be when it arrives.                                 *)
Past == Half - 1 - Window - LeadCap

(* The windows of the hub: an intent shortens the open window to QuietMs,  *)
(* and what is still to be played then must end within one more of it.     *)
(* 500 ms, against a horizon of at most 1000 and a cap of 250.             *)
WindowsFit == Horizon <= 2 * QuietMs /\ MaxFuture <= QuietMs

(* Stamps are near enough to now for the half-range comparison to tell     *)
(* past from future while a window is open: within half an hour of it, on  *)
(* the hub's ring of 71 minutes.                                           *)
StampsNear ==
    /\ Past \in Nat
    /\ \A l \in Leads : -Past <= l /\ l + SpanCap < Half

(* The updates come often enough for no stamp to go round between two.     *)
GapsNear == \A d \in Gaps : d + Past + Window <= Half

(* The quiet clock, q left of its window and the playout end e, with u to  *)
(* the end of all motion, and how an open window ages.                     *)
Clocks(q, e, u) ==
    /\ q \in 0 .. Window /\ e \in Stamps /\ u \in 0 .. LeadCap
    /\ q > 0 => -(Past + (Window - q)) <= e /\ e <= LeadCap

(* What is still to be played is covered: by the window alone, or by the   *)
(* end the quiet clock knows of and by QuietMs after the window.           *)
Covered(q, e, u) ==
    u > 0 => \/ u <= q /\ u <= QuietMs
             \/ u <= e /\ u <= q + QuietMs

ClocksOK == Clocks(quiet.left, quiet.end, until)

PInv == ClocksOK /\ Covered(quiet.left, quiet.end, until)

LEMMA WindowIs ==
    /\ Window \in Nat /\ QuietMs \in Nat /\ QuietMs <= Window /\ Horizon <= Window
    /\ WindowsFit => LeadCap <= Window + QuietMs /\ LeadCap <= 2 * QuietMs
<1>1. QuietMs \in Nat /\ Horizon \in Nat /\ MaxFuture \in Nat
  BY StreamConstants DEF StreamConstants
<1>2. Window = IF QuietMs >= Horizon THEN QuietMs ELSE Horizon
  BY <1>1, MaxIs DEF Window
<1>3. LeadCap = Horizon \/ LeadCap = MaxFuture
  BY Basics
<1>4. /\ Window \in Nat /\ QuietMs <= Window /\ Horizon <= Window
  BY <1>1, <1>2
<1>5. ASSUME WindowsFit PROVE LeadCap <= Window + QuietMs /\ LeadCap <= 2 * QuietMs
  <2>1. Horizon <= 2 * QuietMs /\ MaxFuture <= QuietMs
    BY <1>5 DEF WindowsFit
  <2>2. CASE LeadCap = Horizon
    BY <1>1, <1>4, <2>1, <2>2
  <2>3. CASE LeadCap = MaxFuture
    BY <1>1, <1>4, <2>1, <2>3
  <2> QED
    BY <1>3, <2>2, <2>3
<1> QED
  BY <1>1, <1>4, <1>5

(* Their numbers.                                                          *)
LEMMA ClocksAre ==
    ASSUME NEW q, NEW e, NEW u, Clocks(q, e, u)
    PROVE  /\ q \in Int /\ 0 <= q /\ q <= Window
           /\ e \in Int /\ -Half <= e /\ e < Half
           /\ u \in Int /\ 0 <= u /\ u <= LeadCap
           /\ q > 0 => -(Past + (Window - q)) <= e /\ e <= LeadCap
<1>1. Half \in Nat /\ LeadCap \in Nat
  BY Basics
<1>2. Window \in Nat
  BY WindowIs
<1>3. q \in Int /\ 0 <= q /\ q <= Window
  BY <1>2 DEF Clocks
<1>4. e \in Int /\ -Half <= e /\ e < Half
  BY <1>1 DEF Clocks, Stamps
<1>5. u \in Int /\ 0 <= u /\ u <= LeadCap
  BY <1>1 DEF Clocks
<1> QED
  BY <1>3, <1>4, <1>5 DEF Clocks

(* The last stamp of what is handed on is near now.                        *)
LEMMA LastIsNear ==
    ASSUME CapsFit, StampsNear, NEW l \in Leads, NEW offs \in Seq(Nat), Parses(offs),
           NEW b \in ClampLead(l, offs)
    PROVE  LastStamp(b, offs) \in -Past .. LeadCap
<1>0. /\ Ring \in Nat /\ Half \in Nat /\ Half > 0 /\ Ring = 2 * Half /\ LeadCap \in Nat
      /\ SpanCap \in Nat /\ Past \in Nat /\ Window \in Nat
  BY Basics, WindowIs DEF StampsNear
<1>1. l \in Stamps /\ l \in Int /\ -Half <= l
  BY <1>0, Basics DEF Stamps
<1>2. /\ LastStamp(b, offs) \in Stamps /\ LastStamp(b, offs) <= LeadCap
      /\ LastStamp(b, offs) = LeadCap \/ LastStamp(b, offs) = LastStamp(l, offs)
  BY <1>1, ClampHolds
<1>3. PICK o \in Nat : o = offs[Len(offs)] /\ o <= SpanCap
  BY DEF Parses
<1>4. -Past <= l /\ l + SpanCap < Half
  BY DEF StampsNear
<1>5. PICK d \in Int : d = l + o
  BY <1>1, <1>3
<1>6. -Half <= d /\ d < Half /\ -Past <= d
  BY <1>0, <1>1, <1>3, <1>4, <1>5
<1>7. -(Ring + Half) <= d /\ d < Ring + Half
  BY <1>0, <1>6
<1>8. Wrap(d) = d
  BY <1>0, <1>6, <1>7, WrapIs
<1>9. LastStamp(l, offs) = d
  BY <1>3, <1>5, <1>8 DEF LastStamp
<1>10. LastStamp(b, offs) \in Int /\ -Past <= LastStamp(b, offs)
  BY <1>0, <1>2, <1>6, <1>9
<1> QED
  BY <1>0, <1>2, <1>10

(* markSourceActive, for a stamp near now.                                 *)
LEMMA MarkIs ==
    ASSUME CapsFit, StampsNear, ClocksOK, NEW x \in -Past .. LeadCap, NEW w
    PROVE  /\ MarkedActive(x, w).left = w
           /\ quiet.left = 0 => MarkedActive(x, w).end = x
           /\ quiet.left > 0 =>
                 MarkedActive(x, w).end = IF x > quiet.end THEN x ELSE quiet.end
<1>0. /\ Ring \in Nat /\ Half \in Nat /\ Half > 0 /\ Ring = 2 * Half /\ LeadCap \in Nat
      /\ Past \in Nat /\ Window \in Nat /\ LeadCap < Half /\ Past = Half - 1 - Window - LeadCap
  BY Basics, WindowIs DEF StampsNear, CapsFit, Past
<1>1. PICK q \in Int, e \in Int :
         /\ q = quiet.left /\ e = quiet.end /\ 0 <= q /\ q <= Window
         /\ q > 0 => -(Past + (Window - q)) <= e /\ e <= LeadCap
  BY ClocksAre DEF ClocksOK
<1>2. x \in Int /\ -Past <= x /\ x <= LeadCap
  BY <1>0
<1>3. MarkedActive(x, w).left = w
  BY DEF MarkedActive
<1>4. MarkedActive(x, w).end = IF q = 0 \/ Wrap(x - e) > 0 THEN x ELSE e
  BY <1>1 DEF MarkedActive
<1>5. ASSUME q > 0
      PROVE  Wrap(x - e) > 0 <=> x > e
  <2>1. -(Past + (Window - q)) <= e /\ e <= LeadCap
    BY <1>1, <1>5
  <2>2. PICK d \in Int : d = x - e
    BY <1>1, <1>2
  <2>3. -Half <= d /\ d < Half
    BY <1>0, <1>1, <1>2, <1>5, <2>1, <2>2
  <2>4. -(Ring + Half) <= d /\ d < Ring + Half
    BY <1>0, <2>3
  <2>5. Wrap(d) = d
    BY <1>0, <2>3, <2>4, WrapIs
  <2> QED
    BY <1>1, <1>2, <2>2, <2>5
<1>6. quiet.left > 0 => quiet.left # 0
  BY <1>1
<1> QED
  BY <1>1, <1>3, <1>4, <1>5, <1>6

(* One more bundle, its last stamp x.                                      *)
LEMMA BundleKeeps ==
    ASSUME CapsFit, WindowsFit, StampsNear, NEW q, NEW e, NEW u, Clocks(q, e, u),
           Covered(q, e, u), NEW x \in -Past .. LeadCap, NEW e2, NEW u2,
           q = 0 => e2 = x, q > 0 => e2 = (IF x > e THEN x ELSE e),
           u2 = IF u >= x THEN u ELSE x
    PROVE  Clocks(Window, e2, u2) /\ Covered(Window, e2, u2)
<1>0. /\ Half \in Nat /\ LeadCap \in Nat /\ Past \in Nat /\ Window \in Nat /\ QuietMs \in Nat
      /\ LeadCap < Half /\ Past = Half - 1 - Window - LeadCap /\ QuietMs <= Window
      /\ LeadCap <= Window + QuietMs
  BY Basics, WindowIs DEF StampsNear, CapsFit, Past
<1>1. /\ q \in Int /\ 0 <= q /\ q <= Window
      /\ e \in Int /\ -Half <= e /\ e < Half
      /\ u \in Int /\ 0 <= u /\ u <= LeadCap
      /\ q > 0 => -(Past + (Window - q)) <= e /\ e <= LeadCap
  BY ClocksAre
<1>2. x \in Int /\ -Past <= x /\ x <= LeadCap
  BY <1>0
<1>3. e2 \in Int /\ x <= e2 /\ e2 <= LeadCap
  <2>1. CASE q = 0
    BY <1>0, <1>2, <2>1
  <2>2. CASE q > 0
    BY <1>0, <1>1, <1>2, <2>2
  <2> QED
    BY <1>1, <2>1, <2>2
<1>4. u2 \in Int /\ 0 <= u2 /\ u2 <= LeadCap
  BY <1>0, <1>1, <1>2
<1>5. Clocks(Window, e2, u2)
  <2>1. Window \in 0 .. Window /\ u2 \in 0 .. LeadCap
    BY <1>0, <1>4
  <2>2. -Half <= e2 /\ e2 < Half /\ -(Past + (Window - Window)) <= e2
    BY <1>0, <1>2, <1>3
  <2>3. e2 \in Stamps
    BY <1>0, <1>3, <2>2 DEF Stamps
  <2> QED
    BY <1>3, <2>1, <2>2, <2>3 DEF Clocks
<1>6. Covered(Window, e2, u2)
  <2> SUFFICES ASSUME u2 > 0
               PROVE  \/ u2 <= Window /\ u2 <= QuietMs
                      \/ u2 <= e2 /\ u2 <= Window + QuietMs
    BY DEF Covered
  <2>1. u2 <= Window + QuietMs
    BY <1>0, <1>4
  <2>2. CASE u2 <= e2
    BY <2>1, <2>2
  <2>3. CASE ~(u2 <= e2)
    <3>1. u2 = u /\ u > e2
      BY <1>1, <1>2, <1>3, <2>3
    <3>2. u > 0
      BY <3>1
    <3>3. (u <= q /\ u <= QuietMs) \/ (u <= e /\ u <= q + QuietMs)
      BY <3>2 DEF Covered
    <3>4. u <= QuietMs
      <4>1. CASE q > 0
        BY <1>1, <1>2, <3>1, <3>3, <4>1
      <4>2. CASE q = 0
        BY <1>0, <1>1, <3>3, <4>2
      <4> QED
        BY <1>1, <4>1, <4>2
    <3> QED
      BY <1>0, <1>1, <3>1, <3>4
  <2> QED
    BY <2>2, <2>3
<1> QED
  BY <1>5, <1>6

(* An intent, that marks now and opens a window of QuietMs.                *)
LEMMA IntentKeeps ==
    ASSUME CapsFit, WindowsFit, StampsNear, NEW q, NEW e, NEW u, Clocks(q, e, u),
           Covered(q, e, u), NEW e2,
           q = 0 => e2 = 0, q > 0 => e2 = (IF 0 > e THEN 0 ELSE e)
    PROVE  Clocks(QuietMs, e2, u) /\ Covered(QuietMs, e2, u)
<1>0. /\ Half \in Nat /\ LeadCap \in Nat /\ Past \in Nat /\ Window \in Nat /\ QuietMs \in Nat
      /\ LeadCap < Half /\ QuietMs <= Window /\ LeadCap <= 2 * QuietMs
  BY Basics, WindowIs DEF StampsNear, CapsFit
<1>1. /\ q \in Int /\ 0 <= q /\ q <= Window
      /\ e \in Int /\ -Half <= e /\ e < Half
      /\ u \in Int /\ 0 <= u /\ u <= LeadCap
      /\ q > 0 => -(Past + (Window - q)) <= e /\ e <= LeadCap
  BY ClocksAre
<1>2. e2 \in Int /\ 0 <= e2 /\ e2 <= LeadCap
  <2>1. CASE q = 0
    BY <1>0, <2>1
  <2>2. CASE q > 0
    BY <1>0, <1>1, <2>2
  <2> QED
    BY <1>1, <2>1, <2>2
<1>3. Clocks(QuietMs, e2, u)
  <2>1. QuietMs \in 0 .. Window /\ u \in 0 .. LeadCap
    BY <1>0, <1>1
  <2>2. -Half <= e2 /\ e2 < Half /\ -(Past + (Window - QuietMs)) <= e2
    BY <1>0, <1>2
  <2>3. e2 \in Stamps
    BY <1>0, <1>2, <2>2 DEF Stamps
  <2> QED
    BY <1>2, <2>1, <2>2, <2>3 DEF Clocks
<1>4. Covered(QuietMs, e2, u)
  <2> SUFFICES ASSUME u > 0
               PROVE  \/ u <= QuietMs /\ u <= QuietMs
                      \/ u <= e2 /\ u <= QuietMs + QuietMs
    BY DEF Covered
  <2>1. u <= QuietMs + QuietMs
    BY <1>0, <1>1
  <2>2. (u <= q /\ u <= QuietMs) \/ (u <= e /\ u <= q + QuietMs)
    BY DEF Covered
  <2>3. CASE q > 0
    <3>1. e <= e2
      BY <1>1, <1>2, <2>3
    <3> QED
      BY <1>0, <1>1, <1>2, <2>1, <2>2, <3>1
  <2>4. CASE q = 0
    BY <1>0, <1>1, <2>2, <2>4
  <2> QED
    BY <1>1, <2>3, <2>4
<1> QED
  BY <1>3, <1>4

(* Time that passes, d ticks of it.                                        *)
LEMMA TimeKeeps ==
    ASSUME CapsFit, StampsNear, NEW q, NEW e, NEW u, Clocks(q, e, u),
           Covered(q, e, u), NEW d \in Nat
    PROVE  /\ Clocks(Left(q, d), Aged(e, d), Left(u, d))
           /\ Covered(Left(q, d), Aged(e, d), Left(u, d))
<1>0. /\ Ring \in Nat /\ Ring = 2 * Half /\ Half \in Nat /\ LeadCap \in Nat /\ Past \in Nat
      /\ Window \in Nat /\ QuietMs \in Nat /\ LeadCap < Half
      /\ Past = Half - 1 - Window - LeadCap
  BY Basics, WindowIs DEF StampsNear, CapsFit, Past
<1>1. /\ q \in Int /\ 0 <= q /\ q <= Window
      /\ e \in Int /\ -Half <= e /\ e < Half
      /\ u \in Int /\ 0 <= u /\ u <= LeadCap
      /\ q > 0 => -(Past + (Window - q)) <= e /\ e <= LeadCap
  BY ClocksAre
<1>2. PICK y \in Int : y = e - d
  BY <1>1
<1>3. PICK a : a = Aged(e, d)
  OBVIOUS
<1>4. a \in Stamps /\ a \in Int
  BY <1>2, <1>3, WrapRange DEF Aged
<1>5. ASSUME -Half <= y PROVE a = y
  <2>1. -(Ring + Half) <= y /\ y < Ring + Half /\ y < Half
    BY <1>0, <1>1, <1>2, <1>5
  <2>2. Wrap(y) = y
    BY <1>0, <1>5, <2>1, WrapIs
  <2> QED
    BY <1>2, <1>3, <2>2 DEF Aged
<1>6. PICK q2 \in Int : q2 = Left(q, d) /\ q2 = IF q > d THEN q - d ELSE 0
  <2>1. Left(q, d) = IF 0 >= q - d THEN 0 ELSE q - d
    BY <1>1, MaxIs DEF Left
  <2> QED
    BY <1>1, <2>1
<1>7. PICK u2 \in Int : u2 = Left(u, d) /\ u2 = IF u > d THEN u - d ELSE 0
  <2>1. Left(u, d) = IF 0 >= u - d THEN 0 ELSE u - d
    BY <1>1, MaxIs DEF Left
  <2> QED
    BY <1>1, <2>1
<1>8. Clocks(q2, a, u2)
  <2>1. q2 \in 0 .. Window /\ u2 \in 0 .. LeadCap
    BY <1>0, <1>1, <1>6, <1>7
  <2>2. ASSUME q2 > 0 PROVE -(Past + (Window - q2)) <= a /\ a <= LeadCap
    <3>1. q > d /\ q2 = q - d /\ q > 0
      BY <1>1, <1>6, <2>2
    <3>2. -(Past + (Window - q)) <= e /\ e <= LeadCap
      BY <1>1, <3>1
    <3>3. -(Past + (Window - q2)) <= y /\ y <= LeadCap
      BY <1>0, <1>1, <1>2, <3>1, <3>2
    <3>4. -Half <= y
      BY <1>0, <1>6, <2>2, <3>3
    <3> QED
      BY <1>5, <3>3, <3>4
  <2> QED
    BY <1>4, <2>1, <2>2 DEF Clocks
<1>9. Covered(q2, a, u2)
  <2> SUFFICES ASSUME u2 > 0
               PROVE  \/ u2 <= q2 /\ u2 <= QuietMs
                      \/ u2 <= a /\ u2 <= q2 + QuietMs
    BY DEF Covered
  <2>1. u > d /\ u2 = u - d /\ u > 0
    BY <1>1, <1>7
  <2>2. (u <= q /\ u <= QuietMs) \/ (u <= e /\ u <= q + QuietMs)
    BY <2>1 DEF Covered
  <2>3. CASE u <= q /\ u <= QuietMs
    BY <1>0, <1>1, <1>6, <2>1, <2>3
  <2>4. CASE u <= e /\ u <= q + QuietMs
    <3>1. y >= u2 /\ y > 0
      BY <1>1, <1>2, <1>7, <2>1, <2>4
    <3>2. a = y
      BY <1>0, <1>5, <3>1
    <3>3. u2 <= q2 + QuietMs
      BY <1>0, <1>1, <1>6, <1>7, <2>1, <2>4
    <3> QED
      BY <3>1, <3>2, <3>3, <1>7
  <2> QED
    BY <2>2, <2>3, <2>4
<1> QED
  BY <1>3, <1>6, <1>7, <1>8, <1>9

(* The steps that leave the clocks alone: none of them gives the source to *)
(* anybody.                                                                *)
Aside ==
    /\ UNCHANGED <<phase, quiet, until>>
    /\ owner' \in {owner, None}

LEMMA StepIs ==
    ASSUME [Next]_vars
    PROVE  \/ Aside \/ StartUpdate \/ PumpQuietRelease
           \/ \E s \in Sessions : HandleIntent(s) \/ StreamDelivered(s)
<1>1. CASE UNCHANGED vars
  BY <1>1 DEF vars, Aside
<1>2. CASE WithdrawGrants \/ SetPause
  BY <1>2 DEF WithdrawGrants, SetPause, Aside
<1>3. ASSUME NEW s \in Sessions, Hello(s) \/ HandleCatalogReady(s) \/ HandlePublish(s)
      PROVE  Aside
  BY <1>3 DEF Hello, HandleCatalogReady, HandlePublish, Aside
<1>4. ASSUME NEW s \in Sessions, MarkStale(s) \/ Teardown(s)
      PROVE  Aside
  BY <1>4 DEF MarkStale, Teardown, ReleaseSessionSources, Aside
<1>5. ASSUME NEW s \in Sessions,
             StreamDropped(s) \/ StreamOverage(s) \/ StreamPaused(s) \/ StreamConflict(s)
      PROVE  Aside
  BY <1>5 DEF StreamDropped, StreamOverage, StreamPaused, StreamConflict, Aside
<1> QED
  BY <1>1, <1>2, <1>3, <1>4, <1>5 DEF Next

(* A bundle handed on, in numbers.                                         *)
LEMMA BundleIs ==
    ASSUME CapsFit, StampsNear, ClocksOK, NEW s \in Sessions, StreamDelivered(s)
    PROVE  \E x \in -Past .. LeadCap :
              /\ quiet'.left = Window
              /\ quiet.left = 0 => quiet'.end = x
              /\ quiet.left > 0 => quiet'.end = IF x > quiet.end THEN x ELSE quiet.end
              /\ until' = IF until >= x THEN until ELSE x
<1>1. PICK offs \in Offsets, l \in Leads : \E b \in ClampLead(l, offs) :
              /\ offs \in Seq(Nat) /\ Parses(offs) /\ l \in Stamps
              /\ quiet' = MarkedActive(LastStamp(b, offs), Window)
              /\ until' = Max({until, LastStamp(b, offs)})
  BY DeliveredIs
<1>2. PICK b \in ClampLead(l, offs) :
              /\ offs \in Seq(Nat) /\ Parses(offs) /\ l \in Stamps
              /\ quiet' = MarkedActive(LastStamp(b, offs), Window)
              /\ until' = Max({until, LastStamp(b, offs)})
  BY <1>1
<1>3. PICK x \in -Past .. LeadCap : x = LastStamp(b, offs)
  BY <1>2, LastIsNear
<1>4. x \in Int /\ until \in Int
  <2>1. Past \in Nat /\ LeadCap \in Nat
    BY Basics DEF StampsNear
  <2>2. until \in Int
    BY ClocksAre DEF ClocksOK
  <2> QED
    BY <2>1, <2>2
<1>5. until' = IF until >= x THEN until ELSE x
  BY <1>2, <1>3, <1>4, MaxIs
<1>6. /\ MarkedActive(x, Window).left = Window
      /\ quiet.left = 0 => MarkedActive(x, Window).end = x
      /\ quiet.left > 0 =>
            MarkedActive(x, Window).end = IF x > quiet.end THEN x ELSE quiet.end
  BY MarkIs
<1> QED
  BY <1>2, <1>3, <1>5, <1>6

(* An intent, in numbers.                                                  *)
LEMMA IntentIs ==
    ASSUME CapsFit, StampsNear, ClocksOK, NEW s \in Sessions, HandleIntent(s)
    PROVE  /\ quiet'.left = QuietMs
           /\ quiet.left = 0 => quiet'.end = 0
           /\ quiet.left > 0 => quiet'.end = IF 0 > quiet.end THEN 0 ELSE quiet.end
           /\ until' = until
<1>1. quiet' = MarkedActive(0, QuietMs) /\ until' = until
  BY DEF HandleIntent
<1>2. 0 \in -Past .. LeadCap
  BY Basics DEF StampsNear
<1> QED
  BY <1>1, <1>2, MarkIs

(* Time, in numbers.                                                       *)
LEMMA UpdateIs ==
    ASSUME StartUpdate
    PROVE  \E d \in Gaps :
              /\ quiet'.left = Left(quiet.left, d)
              /\ quiet'.end = Aged(quiet.end, d)
              /\ until' = Left(until, d)
<1>1. PICK d \in Gaps :
         /\ quiet' = [left |-> Left(quiet.left, d), end |-> Aged(quiet.end, d)]
         /\ until' = Left(until, d)
  BY DEF StartUpdate
<1> QED
  BY <1>1

LEMMA PInvInit ==
    ASSUME CapsFit, StampsNear, Init
    PROVE  PInv
<1>1. quiet.left = 0 /\ quiet.end = 0 /\ until = 0
  BY DEF Init
<1>2. Half \in Nat /\ Half > 0 /\ LeadCap \in Nat /\ Window \in Nat
  BY Basics, WindowIs
<1>3. 0 \in Stamps /\ 0 \in 0 .. Window /\ 0 \in 0 .. LeadCap
  BY <1>2 DEF Stamps
<1> QED
  BY <1>1, <1>3 DEF PInv, ClocksOK, Clocks, Covered

LEMMA PInvStep ==
    ASSUME CapsFit, WindowsFit, StampsNear, PInv, [Next]_vars
    PROVE  PInv'
<1>0. ClocksOK /\ Clocks(quiet.left, quiet.end, until) /\ Covered(quiet.left, quiet.end, until)
  BY DEF PInv, ClocksOK
<1> USE DEF PInv, ClocksOK
<1>1. CASE Aside \/ PumpQuietRelease
  BY <1>0, <1>1 DEF Aside, PumpQuietRelease
<1>2. CASE StartUpdate
  <2>1. PICK d \in Gaps : /\ quiet'.left = Left(quiet.left, d)
                          /\ quiet'.end = Aged(quiet.end, d)
                          /\ until' = Left(until, d)
    BY <1>2, UpdateIs
  <2>2. d \in Nat
    BY Basics
  <2>3. /\ Clocks(Left(quiet.left, d), Aged(quiet.end, d), Left(until, d))
        /\ Covered(Left(quiet.left, d), Aged(quiet.end, d), Left(until, d))
    BY <1>0, <2>2, TimeKeeps
  <2> QED
    BY <2>1, <2>3
<1>3. ASSUME NEW s \in Sessions, HandleIntent(s) PROVE PInv'
  <2>1. /\ quiet'.left = QuietMs
        /\ quiet.left = 0 => quiet'.end = 0
        /\ quiet.left > 0 => quiet'.end = IF 0 > quiet.end THEN 0 ELSE quiet.end
        /\ until' = until
    BY <1>0, <1>3, IntentIs
  <2>2. Clocks(QuietMs, quiet'.end, until) /\ Covered(QuietMs, quiet'.end, until)
    BY <1>0, <2>1, IntentKeeps
  <2> QED
    BY <2>1, <2>2
<1>4. ASSUME NEW s \in Sessions, StreamDelivered(s) PROVE PInv'
  <2>1. PICK x \in -Past .. LeadCap :
              /\ quiet'.left = Window
              /\ quiet.left = 0 => quiet'.end = x
              /\ quiet.left > 0 => quiet'.end = IF x > quiet.end THEN x ELSE quiet.end
              /\ until' = IF until >= x THEN until ELSE x
    BY <1>0, <1>4, BundleIs
  <2>2. Clocks(Window, quiet'.end, until') /\ Covered(Window, quiet'.end, until')
    BY <1>0, <2>1, BundleKeeps
  <2> QED
    BY <2>1, <2>2
<1> QED
  BY <1>1, <1>2, <1>3, <1>4, StepIs

(* The quiet release never takes the source while motion already handed to *)
(* the delegate is still to be played: for every horizon and every cap     *)
(* within the windows, whatever the order of bundles, intents and updates. *)
THEOREM NoReleaseHolds ==
    ASSUME CapsFit, WindowsFit, StampsNear
    PROVE  Spec => NoReleaseMidPlayout
<1>1. ASSUME PInv, [Next]_vars
      PROVE  [phase = "frames" /\ phase' = "idle" /\ owner' # owner => until = 0]_vars
  <2> SUFFICES ASSUME phase = "frames", phase' = "idle", owner' # owner
               PROVE  until = 0
    OBVIOUS
  <2>1. PumpQuietRelease
    BY <1>1, StepIs DEF Aside, StartUpdate, HandleIntent, StreamDelivered
  <2>2. Wrap(-quiet.end) >= 0 /\ quiet.left = 0
    BY <2>1 DEF PumpQuietRelease, Quiet
  <2>3. Clocks(quiet.left, quiet.end, until) /\ Covered(quiet.left, quiet.end, until)
    BY <1>1 DEF PInv, ClocksOK
  <2>4. PICK e \in Int : e = quiet.end /\ -Half <= e /\ e < Half
    BY <2>3, ClocksAre
  <2>5. until \in Int /\ 0 <= until
    BY <2>3, ClocksAre
  <2>6. ~(e > 0)
    <3> SUFFICES ASSUME e > 0 PROVE FALSE
      OBVIOUS
    <3>0. Ring \in Nat /\ Ring = 2 * Half /\ Half \in Nat
      BY Basics
    <3>1. PICK d \in Int : d = -e
      BY <2>4
    <3>2. -(Ring + Half) <= d /\ d < Ring + Half /\ -Half <= d /\ d < 0
      BY <2>4, <3>0, <3>1
    <3>3. Wrap(d) = d
      BY <3>0, <3>2, WrapIs
    <3> QED
      BY <2>2, <2>4, <3>1, <3>2, <3>3
  <2>7. until > 0 => (until <= 0 \/ until <= e)
    BY <2>2, <2>3, <2>4, <2>5 DEF Covered
  <2> QED
    BY <2>4, <2>5, <2>6, <2>7
<1> QED
  BY <1>1, PInvInit, PInvStep, PTL DEF Spec, NoReleaseMidPlayout

(* While somebody has the source, or a window is open, the quiet clock     *)
(* knows of no end beyond what is to be played, and of none half a turn    *)
(* away.                                                                   *)
Ends(held, q, e, u) ==
    /\ held \/ q > 0 => e <= u
    /\ held => e > -Half

QInv == PInv /\ Ends(owner # None, quiet.left, quiet.end, until) /\ QuietIsReleased

(* The ends of the three steps that move the clocks.                       *)
LEMMA BundleEnds ==
    ASSUME StampsNear, NEW q, NEW e, NEW u, Clocks(q, e, u), q > 0 => e <= u,
           NEW x \in -Past .. LeadCap, NEW e2, NEW u2,
           q = 0 => e2 = x, q > 0 => e2 = (IF x > e THEN x ELSE e),
           u2 = IF u >= x THEN u ELSE x
    PROVE  e2 <= u2 /\ e2 > -Half
<1>0. /\ Half \in Nat /\ LeadCap \in Nat /\ Past \in Nat /\ Window \in Nat
      /\ Past = Half - 1 - Window - LeadCap
  BY Basics, WindowIs DEF StampsNear, Past
<1>1. /\ q \in Int /\ 0 <= q /\ e \in Int /\ u \in Int
  BY ClocksAre
<1>2. x \in Int /\ -Past <= x /\ x > -Half
  BY <1>0
<1>3. CASE q = 0
  BY <1>1, <1>2, <1>3
<1>4. CASE q > 0
  <2>1. e <= u
    BY <1>4
  <2> QED
    BY <1>0, <1>1, <1>2, <1>4, <2>1
<1> QED
  BY <1>1, <1>3, <1>4

LEMMA IntentEnds ==
    ASSUME NEW q, NEW e, NEW u, Clocks(q, e, u), q > 0 => e <= u, NEW e2,
           q = 0 => e2 = 0, q > 0 => e2 = (IF 0 > e THEN 0 ELSE e)
    PROVE  e2 <= u /\ e2 > -Half
<1>0. Half \in Nat /\ Half > 0
  BY Basics
<1>1. /\ q \in Int /\ 0 <= q /\ e \in Int /\ u \in Int /\ 0 <= u
  BY ClocksAre
<1>3. CASE q = 0
  BY <1>0, <1>1, <1>3
<1>4. CASE q > 0
  <2>1. e <= u
    BY <1>4
  <2> QED
    BY <1>0, <1>1, <1>4, <2>1
<1> QED
  BY <1>1, <1>3, <1>4

LEMMA TimeEnds ==
    ASSUME CapsFit, StampsNear, NEW held \in BOOLEAN, NEW q, NEW e, NEW u, Clocks(q, e, u),
           Covered(q, e, u), Ends(held, q, e, u), held => u > 0 \/ q > 0,
           NEW d \in Nat, d + Past + Window <= Half, d > 0
    PROVE  Ends(held, Left(q, d), Aged(e, d), Left(u, d))
<1>0. /\ Ring \in Nat /\ Ring = 2 * Half /\ Half \in Nat /\ LeadCap \in Nat /\ Past \in Nat
      /\ Window \in Nat /\ QuietMs \in Nat
  BY Basics, WindowIs DEF StampsNear
<1>1. /\ q \in Int /\ 0 <= q /\ q <= Window
      /\ e \in Int /\ -Half <= e /\ e < Half
      /\ u \in Int /\ 0 <= u
      /\ q > 0 => -(Past + (Window - q)) <= e
  BY ClocksAre
<1>2. PICK y \in Int : y = e - d
  BY <1>1
<1>3. PICK q2 \in Int : q2 = Left(q, d) /\ q2 = IF q > d THEN q - d ELSE 0
  <2>1. Left(q, d) = IF 0 >= q - d THEN 0 ELSE q - d
    BY <1>1, MaxIs DEF Left
  <2> QED
    BY <1>1, <2>1
<1>4. PICK u2 \in Int : u2 = Left(u, d) /\ u2 = IF u > d THEN u - d ELSE 0
  <2>1. Left(u, d) = IF 0 >= u - d THEN 0 ELSE u - d
    BY <1>1, MaxIs DEF Left
  <2> QED
    BY <1>1, <2>1
<1>5. ASSUME held \/ q2 > 0
      PROVE  Aged(e, d) <= u2 /\ Aged(e, d) > -Half
  <2>1. q > 0 \/ q = 0
    BY <1>1
  <2>2. q > 0 \/ (u > 0 /\ held)
    BY <1>1, <1>3, <1>5
  <2>3. y > -Half
    <3>1. CASE q > 0
      BY <1>0, <1>1, <1>2, <3>1
    <3>2. CASE q = 0
      <4>1. u > 0
        BY <1>1, <2>2, <3>2
      <4>2. (u <= q /\ u <= QuietMs) \/ (u <= e /\ u <= q + QuietMs)
        BY <4>1 DEF Covered
      <4>3. e > 0
        BY <1>0, <1>1, <3>2, <4>1, <4>2
      <4> QED
        BY <1>0, <1>1, <1>2, <4>3
    <3> QED
      BY <2>1, <3>1, <3>2
  <2>4. -(Ring + Half) <= y /\ y < Ring + Half /\ -Half <= y /\ y < Half
    BY <1>0, <1>1, <1>2, <2>3
  <2>5. Wrap(y) = y
    BY <1>0, <2>4, WrapIs
  <2>6. Aged(e, d) = y
    BY <1>2, <2>5 DEF Aged
  <2>7. held \/ q > 0
    BY <2>2
  <2>8. e <= u
    BY <2>7 DEF Ends
  <2>9. y <= u2
    BY <1>1, <1>2, <1>4, <2>8
  <2> QED
    BY <2>3, <2>6, <2>9
<1> QED
  BY <1>3, <1>4, <1>5 DEF Ends

(* The pump leaves the source to nobody once all has been played.          *)
LEMMA PumpReleases ==
    ASSUME QInv, PumpQuietRelease
    PROVE  QuietIsReleased'
<1>1. CASE Quiet /\ owner # None
  BY <1>1 DEF PumpQuietRelease, QuietIsReleased
<1>2. CASE owner = None
  BY <1>2 DEF PumpQuietRelease, QuietIsReleased
<1>3. CASE ~Quiet /\ owner # None
  <2>0. Ring \in Nat /\ Ring = 2 * Half /\ Half \in Nat
    BY Basics
  <2>1. owner' = owner /\ quiet' = quiet /\ until' = until
    BY <1>3 DEF PumpQuietRelease
  <2>2. Clocks(quiet.left, quiet.end, until) /\ Ends(TRUE, quiet.left, quiet.end, until)
    BY <1>3 DEF QInv, PInv, ClocksOK
  <2>3. PICK q \in Int, e \in Int, u \in Int :
           /\ q = quiet.left /\ e = quiet.end /\ u = until
           /\ 0 <= q /\ -Half <= e /\ e < Half /\ 0 <= u
    BY <2>2, ClocksAre
  <2>4. e <= u /\ e > -Half
    BY <2>2, <2>3 DEF Ends
  <2>5. Wrap(-e) < 0 \/ q > 0
    <3>1. ~(Wrap(-e) >= 0) \/ q # 0
      BY <1>3, <2>3 DEF Quiet
    <3>2. Wrap(-e) \in Int
      BY WrapRange
    <3> QED
      BY <2>3, <3>1, <3>2
  <2>6. CASE q > 0
    BY <2>1, <2>3, <2>6 DEF QuietIsReleased
  <2>7. CASE Wrap(-e) < 0
    <3>1. PICK d \in Int : d = -e
      OBVIOUS
    <3>2. -(Ring + Half) <= d /\ d < Ring + Half /\ -Half < d /\ d < Half
      BY <2>0, <2>3, <2>4, <3>1
    <3>3. Wrap(d) = d
      BY <2>0, <3>2, WrapIs
    <3>4. e > 0
      BY <2>7, <3>1, <3>3
    <3>5. u > 0
      BY <2>4, <3>4
    <3> QED
      BY <2>1, <2>3, <3>5 DEF QuietIsReleased
  <2> QED
    BY <2>5, <2>6, <2>7
<1> QED
  BY <1>1, <1>2, <1>3

LEMMA QInvStep ==
    ASSUME CapsFit, WindowsFit, StampsNear, GapsNear, QInv, [Next]_vars
    PROVE  QInv'
<1>0. /\ PInv /\ PInv' /\ ClocksOK
      /\ Clocks(quiet.left, quiet.end, until) /\ Covered(quiet.left, quiet.end, until)
      /\ Ends(owner # None, quiet.left, quiet.end, until) /\ QuietIsReleased
      /\ (owner # None) \in BOOLEAN
      /\ quiet.left > 0 => quiet.end <= until
  BY PInvStep DEF QInv, PInv, ClocksOK, Ends
<1> SUFFICES Ends(owner' # None, quiet'.left, quiet'.end, until') /\ QuietIsReleased'
  BY <1>0 DEF QInv
<1>1. CASE Aside
  BY <1>0, <1>1 DEF Aside, Ends, QuietIsReleased
<1>2. CASE PumpQuietRelease
  <2>1. QuietIsReleased'
    BY <1>2, PumpReleases
  <2>2. quiet' = quiet /\ until' = until /\ owner' \in {owner, None}
    BY <1>2 DEF PumpQuietRelease
  <2> QED
    BY <1>0, <2>1, <2>2 DEF Ends
<1>3. CASE StartUpdate
  <2>1. PICK d \in Gaps : /\ quiet'.left = Left(quiet.left, d)
                          /\ quiet'.end = Aged(quiet.end, d)
                          /\ until' = Left(until, d)
    BY <1>3, UpdateIs
  <2>2. phase = "idle" /\ phase' = "frames" /\ owner' = owner
    BY <1>3 DEF StartUpdate
  <2>3. d \in Nat /\ d > 0 /\ d + Past + Window <= Half
    BY Basics DEF GapsNear
  <2>4. owner # None => until > 0 \/ quiet.left > 0
    BY <1>0, <2>2 DEF QuietIsReleased
  <2>5. Ends(owner # None, Left(quiet.left, d), Aged(quiet.end, d), Left(until, d))
    BY <1>0, <2>3, <2>4, TimeEnds
  <2> QED
    BY <2>1, <2>2, <2>5 DEF QuietIsReleased
<1>4. ASSUME NEW s \in Sessions, HandleIntent(s)
      PROVE  Ends(owner' # None, quiet'.left, quiet'.end, until') /\ QuietIsReleased'
  <2>1. /\ quiet'.left = QuietMs
        /\ quiet.left = 0 => quiet'.end = 0
        /\ quiet.left > 0 => quiet'.end = IF 0 > quiet.end THEN 0 ELSE quiet.end
        /\ until' = until
    BY <1>0, <1>4, IntentIs
  <2>2. quiet'.end <= until /\ quiet'.end > -Half
    BY <1>0, <2>1, IntentEnds
  <2>3. phase' = "frames"
    BY <1>4 DEF HandleIntent, Receiving
  <2> QED
    BY <2>1, <2>2, <2>3 DEF Ends, QuietIsReleased
<1>5. ASSUME NEW s \in Sessions, StreamDelivered(s)
      PROVE  Ends(owner' # None, quiet'.left, quiet'.end, until') /\ QuietIsReleased'
  <2>1. PICK x \in -Past .. LeadCap :
              /\ quiet'.left = Window
              /\ quiet.left = 0 => quiet'.end = x
              /\ quiet.left > 0 => quiet'.end = IF x > quiet.end THEN x ELSE quiet.end
              /\ until' = IF until >= x THEN until ELSE x
    BY <1>0, <1>5, BundleIs
  <2>2. quiet'.end <= until' /\ quiet'.end > -Half
    BY <1>0, <2>1, BundleEnds
  <2>3. phase' = "frames"
    BY <1>5 DEF StreamDelivered, Receiving
  <2> QED
    BY <2>2, <2>3 DEF Ends, QuietIsReleased
<1> QED
  BY <1>1, <1>2, <1>3, <1>4, <1>5, StepIs

(* Once update() is over nobody keeps the source silently: the comparison  *)
(* of wrapping stamps takes no old end for one to come, for every ring     *)
(* with stamps and updates near enough.                                    *)
THEOREM QuietReleaseHolds ==
    ASSUME CapsFit, WindowsFit, StampsNear, GapsNear
    PROVE  Spec => []QuietIsReleased
<1>1. Init => QInv
  <2> SUFFICES ASSUME Init PROVE QInv
    OBVIOUS
  <2>1. owner = None /\ quiet.left = 0
    BY DEF Init
  <2> QED
    BY <2>1, PInvInit DEF QInv, Ends, QuietIsReleased
<1>2. QInv /\ [Next]_vars => QInv'
  BY QInvStep
<1>3. QInv => QuietIsReleased
  BY DEF QInv
<1> QED
  BY <1>1, <1>2, <1>3, PTL DEF Spec

(* No stamp is so old that its distance to the cap overflows, nor so far   *)
(* ahead that the end of its bundle goes round.                            *)
NoOverflow == \A l \in Leads : LeadCap - Half <= l /\ l + SpanCap < Half

(* A bundle whose every stamp has passed is handed on with those stamps,   *)
(* for every cap, as long as the clamp's difference does not overflow.     *)
THEOREM PastHolds ==
    ASSUME NoOverflow
    PROVE  Spec => []PastNeverMoves
<1>1. Init => PastNeverMoves
  BY DEF Init, PastNeverMoves
<1>2. ASSUME PastNeverMoves, [Next]_vars
      PROVE  PastNeverMoves'
  <2>1. CASE played' = played
    BY <1>2, <2>1 DEF PastNeverMoves
  <2>2. ASSUME NEW s \in Sessions, StreamDelivered(s)
        PROVE  PastNeverMoves'
    <3>1. PICK offs \in Offsets, l \in Leads : \E b \in ClampLead(l, offs) :
              /\ offs \in Seq(Nat) /\ Parses(offs)
              /\ played' = [stamped |-> LastStamp(l, offs), first |-> b,
                            last |-> LastStamp(b, offs)]
      BY <2>2, DeliveredIs
    <3>2. PICK b \in ClampLead(l, offs) :
              played' = [stamped |-> LastStamp(l, offs), first |-> b,
                         last |-> LastStamp(b, offs)]
      BY <3>1
    <3>3. PICK o \in Nat : o = offs[Len(offs)] /\ o <= SpanCap
      BY <3>1 DEF Parses
    <3>4. /\ Ring \in Nat /\ Half \in Nat /\ Ring = 2 * Half /\ LeadCap \in Nat
          /\ SpanCap \in Nat /\ l \in Int
      BY Basics
    <3>5. LeadCap - Half <= l /\ l + SpanCap < Half
      BY DEF NoOverflow
    <3>6. PICK d \in Int : d = l + o
      BY <3>3, <3>4
    <3>7. -(Ring + Half) <= d /\ d < Ring + Half /\ -Half <= d /\ d < Half
      BY <3>3, <3>4, <3>5, <3>6
    <3>8. Wrap(d) = d
      BY <3>4, <3>7, WrapIs
    <3>9. LastStamp(l, offs) = d
      BY <3>3, <3>6, <3>8 DEF LastStamp
    <3>10. d - LeadCap >= -Half
      <4>1. l <= d
        BY <3>3, <3>4, <3>6
      <4>2. PICK c \in Nat : c = LeadCap
        BY <3>4
      <4>3. PICK h \in Nat : h = Half
        BY <3>4
      <4>4. c - h <= l /\ l \in Int
        BY <3>4, <3>5, <4>2, <4>3
      <4>5. d - c >= -h
        BY <3>6, <4>1, <4>4
      <4> QED
        BY <4>2, <4>3, <4>5
    <3>11. d <= 0 => b = l
      <4>1. ASSUME d <= 0  PROVE ClampLead(l, offs) = {l}
        <5>1. ~(d - LeadCap > 0) /\ ~(d - LeadCap < -Half)
          BY <3>4, <3>10, <4>1
        <5> QED
          BY <3>9, <5>1 DEF ClampLead
      <4> QED
        BY <3>2, <4>1
    <3>12. played'.stamped = d /\ played'.last = LastStamp(b, offs)
      BY <3>2, <3>9
    <3> QED
      BY <3>9, <3>11, <3>12 DEF PastNeverMoves
  <2>3. played' = played \/ \E s \in Sessions : StreamDelivered(s)
    BY <1>2 DEF Next, vars, Hello, HandleCatalogReady, HandlePublish, HandleIntent, MarkStale,
                Teardown, StreamDropped, StreamOverage, StreamPaused, StreamConflict,
                WithdrawGrants, SetPause, StartUpdate, PumpQuietRelease
  <2> QED
    BY <2>1, <2>2, <2>3
<1> QED
  BY <1>1, <1>2, PTL DEF Spec

------------------------------------------------------------------------------
(* Types                                                                   *)

(* The smaller of two numbers.                                             *)
LEMMA MinIs ==
    ASSUME NEW a \in Int, NEW b \in Int
    PROVE  Min({a, b}) = IF a <= b THEN a ELSE b
<1>1. \E x \in {a, b} : \A y \in {a, b} : x =< y
  OBVIOUS
<1>2. Min({a, b}) \in {a, b} /\ \A y \in {a, b} : Min({a, b}) =< y
  BY <1>1 DEF Min
<1> QED
  BY <1>2

LEMMA LeftIs ==
    ASSUME NEW k \in Nat, NEW t \in 0 .. k, NEW d \in Nat
    PROVE  Left(t, d) \in 0 .. k
<1>1. t - d \in Int /\ 0 \in Int
  OBVIOUS
<1>2. Left(t, d) = IF 0 >= t - d THEN 0 ELSE t - d
  BY <1>1, MaxIs DEF Left
<1> QED
  BY <1>2

(* The largest bucket *)
Most == MaxRate * BurstFactor

LEMMA RatesAre ==
    /\ MaxRate \in Nat \ {0} /\ BurstFactor \in Nat \ {0} /\ NackMs \in Nat \ {0}
    /\ Most \in Nat /\ MaxRate <= Most
    /\ \A r \in 0 .. MaxRate : r * BurstFactor \in Nat /\ r <= r * BurstFactor
                               /\ r * BurstFactor <= Most
<1>1. /\ MaxRate \in Nat \ {0} /\ BurstFactor \in Nat \ {0} /\ NackMs \in Nat \ {0}
  BY StreamConstants DEF StreamConstants
<1>2. ASSUME NEW r \in Nat, NEW m \in Nat, NEW k \in Nat \ {0}, r <= m
      PROVE  r * k \in Nat /\ r <= r * k /\ r * k <= m * k
  <2>1. \A x, y \in Nat : x * y \in Nat
    OBVIOUS
  <2>2. PICK j \in Nat : k = 1 + j
    <3>1. k - 1 \in Nat /\ k = 1 + (k - 1)
      OBVIOUS
    <3> QED
      BY <3>1
  <2>3. PICK e \in Nat : m = r + e
    <3>1. m - r \in Nat /\ m = r + (m - r)
      BY <1>2
    <3> QED
      BY <3>1
  <2>4. r * (1 + j) = r + r * j
    OBVIOUS
  <2>5. (r + e) * k = r * k + e * k
    OBVIOUS
  <2>6. r * j \in Nat /\ e * k \in Nat /\ r * k \in Nat
    BY <2>1
  <2>7. r * k = r + r * j /\ m * k = r * k + e * k
    BY <2>2, <2>3, <2>4, <2>5
  <2> QED
    BY <2>6, <2>7
<1>3. \A r \in 0 .. MaxRate : r \in Nat /\ r <= MaxRate
  BY <1>1
<1> QED
  BY <1>1, <1>2, <1>3 DEF Most

(* A grant whose bucket holds at most its burst *)
GrantOk(g) == g \in Grant /\ g.tokens <= g.burst

LEMMA NoGrantOk == GrantOk(NoGrant)
<1>1. Most \in Nat /\ MaxRate \in Nat /\ NackMs \in Nat
  BY RatesAre
<1> QED
  BY <1>1 DEF GrantOk, NoGrant, Grant, Most

LEMMA GrantedOk ==
    ASSUME NEW rate \in Rates, NEW burst \in Bursts
    PROVE  GrantOk(Granted(rate, burst))
<1>0. rate \in Nat /\ burst \in Nat
  BY StreamConstants DEF StreamConstants
<1>1. MaxRate \in Nat /\ NackMs \in Nat /\ Most \in Nat
  BY RatesAre
<1>2. PICK r : r = Min({rate, MaxRate})
  OBVIOUS
<1>3. r \in 0 .. MaxRate
  BY <1>0, <1>1, <1>2, MinIs
<1>4. PICK k \in Nat : k = r * BurstFactor /\ r <= k /\ k <= Most
  BY <1>3, RatesAre
<1>5. PICK x : x = Min({burst, k})
  OBVIOUS
<1>6. x \in Nat /\ x <= k
  BY <1>0, <1>4, <1>5, MinIs
<1>7. PICK b : b = IF burst = 0 THEN r ELSE Max({r, x})
  OBVIOUS
<1>8. Max({r, x}) = IF r >= x THEN r ELSE x
  BY <1>3, <1>6, MaxIs
<1>9. b \in 0 .. Most
  BY <1>1, <1>3, <1>4, <1>6, <1>7, <1>8
<1>10. CASE rate = 0
  BY <1>10, NoGrantOk DEF Granted
<1>11. CASE rate # 0
  <2>1. Granted(rate, burst) = [rate |-> r, burst |-> b, tokens |-> b, throttle |-> 0]
    BY <1>2, <1>4, <1>5, <1>7, <1>11 DEF Granted
  <2> QED
    BY <1>1, <1>3, <1>9, <2>1 DEF GrantOk, Grant, Most
<1> QED
  BY <1>10, <1>11

LEMMA RefilledOk ==
    ASSUME NEW g, GrantOk(g), NEW d \in Nat
    PROVE  GrantOk(Refilled(g, d))
<1>0. MaxRate \in Nat /\ NackMs \in Nat /\ Most \in Nat
  BY RatesAre
<1>1. /\ g \in Grant /\ g.tokens <= g.burst
      /\ g.rate \in Nat /\ g.burst \in 0 .. Most /\ g.tokens \in 0 .. Most
      /\ g.throttle \in 0 .. NackMs
  BY <1>0 DEF GrantOk, Grant, Most
<1>2. PICK k \in Nat : k = g.rate * d
  BY <1>1
<1>3. PICK t : t = Min({g.burst, g.tokens + k})
  OBVIOUS
<1>4. t \in 0 .. Most /\ t <= g.burst
  <2>1. g.burst \in Int /\ g.tokens + k \in Int
    BY <1>0, <1>1, <1>2
  <2>2. t = IF g.burst <= g.tokens + k THEN g.burst ELSE g.tokens + k
    BY <1>3, <2>1, MinIs
  <2> QED
    BY <1>0, <1>1, <1>2, <2>2
<1>5. Left(g.throttle, d) \in 0 .. NackMs
  BY <1>0, <1>1, LeftIs
<1>6. PICK g2 : g2 = Refilled(g, d)
  OBVIOUS
<1>7. g2 = [g EXCEPT !.tokens = t, !.throttle = Left(g.throttle, d)]
  BY <1>1, <1>2, <1>3, <1>6 DEF Refilled, Grant
<1>8. g2 \in Grant /\ g2.tokens = t /\ g2.burst = g.burst
  BY <1>1, <1>4, <1>5, <1>7 DEF Grant, Most
<1> QED
  BY <1>4, <1>6, <1>8 DEF GrantOk

(* A session whose bucket holds at most its burst *)
SessionOk(p) == p \in Session /\ p.grant.tokens <= p.grant.burst

(* What handlers do to a session *)
LEMMA SessionSteps ==
    ASSUME NEW p, SessionOk(p)
    PROVE  /\ \A st \in {"FREE", "LIVE", "STALE"} : SessionOk([p EXCEPT !.state = st])
           /\ \A b \in BOOLEAN : SessionOk([p EXCEPT !.ready = b])
           /\ \A g : GrantOk(g) => SessionOk([p EXCEPT !.grant = g])
           /\ \A c \in 0 .. NackMs : SessionOk([p EXCEPT !.conflict = c])
           /\ GrantOk(p.grant)
<1>1. p \in Session
  BY DEF SessionOk
<1>2. GrantOk(p.grant)
  BY DEF SessionOk, GrantOk, Session
<1>3. ASSUME NEW st \in {"FREE", "LIVE", "STALE"}
      PROVE  SessionOk([p EXCEPT !.state = st])
  <2>1. [p EXCEPT !.state = st] \in Session /\ [p EXCEPT !.state = st].grant = p.grant
    BY <1>1 DEF Session
  <2> QED
    BY <2>1 DEF SessionOk
<1>4. ASSUME NEW b \in BOOLEAN
      PROVE  SessionOk([p EXCEPT !.ready = b])
  <2>1. [p EXCEPT !.ready = b] \in Session /\ [p EXCEPT !.ready = b].grant = p.grant
    BY <1>1 DEF Session
  <2> QED
    BY <2>1 DEF SessionOk
<1>5. ASSUME NEW g, GrantOk(g)
      PROVE  SessionOk([p EXCEPT !.grant = g])
  <2>1. [p EXCEPT !.grant = g] \in Session /\ [p EXCEPT !.grant = g].grant = g
    BY <1>1, <1>5 DEF Session, GrantOk
  <2> QED
    BY <1>5, <2>1 DEF SessionOk, GrantOk
<1>6. ASSUME NEW c \in 0 .. NackMs
      PROVE  SessionOk([p EXCEPT !.conflict = c])
  <2>1. [p EXCEPT !.conflict = c] \in Session /\ [p EXCEPT !.conflict = c].grant = p.grant
    BY <1>1 DEF Session
  <2> QED
    BY <2>1 DEF SessionOk
<1> QED
  BY <1>2, <1>3, <1>4, <1>5, <1>6

LEMMA NoSessionOk == SessionOk(NoSession)
<1>1. NackMs \in Nat
  BY RatesAre
<1>2. NoSession \in Session /\ NoSession.grant = NoGrant
  BY <1>1, NoGrantOk DEF NoSession, Session, GrantOk
<1> QED
  BY <1>2, NoGrantOk DEF SessionOk, GrantOk

LEMMA ConsumedOk ==
    ASSUME NEW g, GrantOk(g), NEW n \in Nat, n <= g.tokens
    PROVE  GrantOk([g EXCEPT !.tokens = @ - n])
<1>0. Most \in Nat
  BY RatesAre
<1>1. g \in Grant /\ g.tokens \in 0 .. Most /\ g.burst \in 0 .. Most /\ g.tokens <= g.burst
  BY DEF GrantOk, Grant, Most
<1>2. PICK t \in 0 .. Most : t = g.tokens - n /\ t <= g.burst
  BY <1>0, <1>1
<1>3. PICK g2 : g2 = [g EXCEPT !.tokens = @ - n]
  OBVIOUS
<1>4. g2 = [g EXCEPT !.tokens = t]
  BY <1>1, <1>2, <1>3 DEF Grant
<1>5. g2 \in Grant /\ g2.tokens = t /\ g2.burst = g.burst
  BY <1>1, <1>2, <1>4 DEF Grant, Most
<1> QED
  BY <1>2, <1>3, <1>5 DEF GrantOk

LEMMA ThrottledOk ==
    ASSUME NEW t \in 0 .. NackMs
    PROVE  Throttled(t) \in 0 .. NackMs
<1>1. NackMs \in Nat
  BY RatesAre
<1> QED
  BY <1>1 DEF Throttled

(* A bundle that was let in took its samples out of the bucket *)
LEMMA BundleOk ==
    ASSUME NEW s \in Sessions, SessionOk(sess[s]), NEW offs \in Offsets,
           Admissible(s, offs), WithinRate(s, offs)
    PROVE  SessionOk(Consumed(s, offs))
<1>1. Heard(s) = [sess[s] EXCEPT !.state = "LIVE"] /\ SessionOk(Heard(s))
  BY SessionSteps DEF Heard
<1>2. PICK p : p = Heard(s)
  OBVIOUS
<1>3. p.grant = sess[s].grant
  BY <1>1, <1>2 DEF SessionOk, Session
<1>4. PICK n \in Nat : n = Len(offs) /\ n <= p.grant.tokens
  <2>1. offs \in Seq(Nat)
    BY Basics
  <2> QED
    BY <1>3, <2>1 DEF WithinRate
<1>5. GrantOk(p.grant)
  BY <1>1, <1>2, SessionSteps
<1>6. PICK g : g = [p.grant EXCEPT !.tokens = @ - n]
  OBVIOUS
<1>7. GrantOk(g)
  BY <1>4, <1>5, <1>6, ConsumedOk
<1>8. Consumed(s, offs) = [p EXCEPT !.grant = g]
  BY <1>2, <1>4, <1>6 DEF Consumed
<1>9. SessionOk(p)
  BY <1>1, <1>2
<1>10. SessionOk([p EXCEPT !.grant = g])
  BY <1>7, <1>9, SessionSteps
<1> QED
  BY <1>8, <1>10

(* Every handler leaves sessions that are in order *)
SessionsOk == sess \in [Sessions -> Session] /\ \A s \in Sessions : SessionOk(sess[s])

LEMMA OneSession ==
    ASSUME SessionsOk, NEW s \in Sessions, NEW p, SessionOk(p),
           sess' = [sess EXCEPT ![s] = p]
    PROVE  SessionsOk'
<1>1. p \in Session
  BY DEF SessionOk
<1>2. sess' \in [Sessions -> Session]
  BY <1>1 DEF SessionsOk
<1>3. \A t \in Sessions : sess'[t] = IF t = s THEN p ELSE sess[t]
  BY DEF SessionsOk
<1>4. \A t \in Sessions : SessionOk(sess'[t])
  BY <1>3 DEF SessionsOk
<1> QED
  BY <1>2, <1>4 DEF SessionsOk

LEMMA SessionsStep ==
    ASSUME SessionsOk, [Next]_vars
    PROVE  SessionsOk'
<1>0. /\ sess \in [Sessions -> Session] /\ \A s \in Sessions : SessionOk(sess[s])
      /\ \A s \in Sessions : SessionOk(Heard(s)) /\ GrantOk(Heard(s).grant)
      /\ \A s \in Sessions : Heard(s) \in Session
  BY SessionSteps DEF SessionsOk, Heard, SessionOk
<1>1. CASE sess' = sess
  BY <1>0, <1>1 DEF SessionsOk
<1>2. ASSUME NEW s \in Sessions, Hello(s) PROVE SessionsOk'
  <2>1. PICK ready \in BOOLEAN, rate \in Rates, burst \in Bursts :
          sess' = [sess EXCEPT ![s] =
                      [NoSession EXCEPT !.state = "LIVE", !.ready = ready,
                                        !.grant = Granted(rate, burst)]]
    BY <1>2 DEF Hello
  <2>2. PICK g : g = Granted(rate, burst) /\ GrantOk(g)
    BY GrantedOk
  <2>3. PICK p : p = [NoSession EXCEPT !.state = "LIVE", !.ready = ready, !.grant = g]
    OBVIOUS
  <2>4. p = [[[NoSession EXCEPT !.state = "LIVE"] EXCEPT !.ready = ready] EXCEPT !.grant = g]
    BY <2>3 DEF NoSession
  <2>5. SessionOk([NoSession EXCEPT !.state = "LIVE"])
    BY NoSessionOk, SessionSteps
  <2>6. SessionOk([[NoSession EXCEPT !.state = "LIVE"] EXCEPT !.ready = ready])
    BY <2>5, SessionSteps
  <2>7. SessionOk(p)
    BY <2>2, <2>4, <2>6, SessionSteps
  <2> QED
    BY <2>1, <2>2, <2>3, <2>7, OneSession
<1>3. ASSUME NEW s \in Sessions, HandleCatalogReady(s) PROVE SessionsOk'
  <2>1. SessionOk([Heard(s) EXCEPT !.ready = TRUE])
    BY <1>0, SessionSteps
  <2> QED
    BY <1>3, <2>1, OneSession DEF HandleCatalogReady
<1>4. ASSUME NEW s \in Sessions, HandlePublish(s) PROVE SessionsOk'
  <2>1. PICK rate \in Rates, burst \in Bursts :
          sess' = [sess EXCEPT ![s] = [Heard(s) EXCEPT !.grant = Granted(rate, burst)]]
    BY <1>4 DEF HandlePublish
  <2>2. SessionOk([Heard(s) EXCEPT !.grant = Granted(rate, burst)])
    BY <1>0, GrantedOk, SessionSteps
  <2> QED
    BY <2>1, <2>2, OneSession
<1>5. ASSUME NEW s \in Sessions, HandleIntent(s) \/ StreamDropped(s) PROVE SessionsOk'
  <2>1. sess' = [sess EXCEPT ![s] = Heard(s)]
    BY <1>5 DEF HandleIntent, StreamDropped
  <2> QED
    BY <1>0, <2>1, OneSession
<1>6. ASSUME NEW s \in Sessions, MarkStale(s) PROVE SessionsOk'
  <2>1. sess' = [sess EXCEPT ![s] = [sess[s] EXCEPT !.state = "STALE"]]
    BY <1>0, <1>6 DEF MarkStale
  <2>2. SessionOk([sess[s] EXCEPT !.state = "STALE"])
    BY <1>0, SessionSteps
  <2> QED
    BY <2>1, <2>2, OneSession
<1>7. ASSUME NEW s \in Sessions, Teardown(s) PROVE SessionsOk'
  BY <1>7, NoSessionOk, OneSession DEF Teardown
<1>8. ASSUME NEW s \in Sessions, StreamOverage(s) PROVE SessionsOk'
  <2>1. PICK g : g = Heard(s).grant /\ GrantOk(g)
    BY <1>0
  <2>2. PICK t : t = Throttled(g.throttle)
    OBVIOUS
  <2>3. g.throttle \in 0 .. NackMs
    BY <2>1 DEF GrantOk, Grant
  <2>4. t \in 0 .. NackMs
    BY <2>2, <2>3, ThrottledOk
  <2>5. PICK g2 : g2 = [g EXCEPT !.throttle = t]
    OBVIOUS
  <2>6. g2 \in Grant /\ g2.tokens = g.tokens /\ g2.burst = g.burst
    BY <2>1, <2>4, <2>5 DEF GrantOk, Grant
  <2>7. GrantOk(g2)
    BY <2>1, <2>6 DEF GrantOk
  <2>8. sess' = [sess EXCEPT ![s] = [Heard(s) EXCEPT !.grant.throttle = Throttled(@)]]
    BY <1>8 DEF StreamOverage
  <2>9. [Heard(s) EXCEPT !.grant.throttle = Throttled(@)] = [Heard(s) EXCEPT !.grant = g2]
    BY <2>1, <2>2, <2>5
  <2>10. SessionOk([Heard(s) EXCEPT !.grant = g2])
    BY <1>0, <2>7, SessionSteps
  <2> QED
    BY <2>8, <2>9, <2>10, OneSession
<1>9. ASSUME NEW s \in Sessions, StreamPaused(s) PROVE SessionsOk'
  <2>1. PICK offs \in Offsets : /\ Admissible(s, offs) /\ WithinRate(s, offs)
                                /\ sess' = [sess EXCEPT ![s] = Consumed(s, offs)]
    BY <1>9 DEF StreamPaused
  <2> QED
    BY <1>0, <2>1, BundleOk, OneSession
<1>10. ASSUME NEW s \in Sessions, StreamConflict(s) PROVE SessionsOk'
  <2>1. PICK offs \in Offsets :
          /\ Admissible(s, offs) /\ WithinRate(s, offs)
          /\ sess' = [sess EXCEPT ![s] =
                 [Consumed(s, offs) EXCEPT !.conflict = Throttled(@)]]
    BY <1>10 DEF StreamConflict
  <2>2. PICK p : p = Consumed(s, offs) /\ SessionOk(p)
    BY <1>0, <2>1, BundleOk
  <2>3. PICK c \in 0 .. NackMs : c = Throttled(p.conflict)
    <3>1. p.conflict \in 0 .. NackMs
      BY <2>2 DEF SessionOk, Session
    <3> QED
      BY <3>1, ThrottledOk
  <2>4. SessionOk([p EXCEPT !.conflict = c])
    BY <2>2, SessionSteps
  <2>5. sess' = [sess EXCEPT ![s] = [p EXCEPT !.conflict = c]]
    BY <2>1, <2>2, <2>3
  <2> QED
    BY <2>4, <2>5, OneSession
<1>11. ASSUME NEW s \in Sessions, StreamDelivered(s) PROVE SessionsOk'
  <2>1. PICK offs \in Offsets :
          /\ Admissible(s, offs) /\ WithinRate(s, offs)
          /\ sess' = [sess EXCEPT ![s] =
                 [Consumed(s, offs) EXCEPT !.conflict = IF owner = None THEN 0 ELSE @]]
    BY <1>11 DEF StreamDelivered
  <2>2. PICK p : p = Consumed(s, offs) /\ SessionOk(p)
    BY <1>0, <2>1, BundleOk
  <2>3. PICK c \in 0 .. NackMs : c = IF owner = None THEN 0 ELSE p.conflict
    <3>1. p.conflict \in 0 .. NackMs /\ 0 \in 0 .. NackMs
      BY <2>2, RatesAre DEF SessionOk, Session
    <3> QED
      BY <3>1
  <2>4. SessionOk([p EXCEPT !.conflict = c])
    BY <2>2, SessionSteps
  <2>5. sess' = [sess EXCEPT ![s] = [p EXCEPT !.conflict = c]]
    BY <2>1, <2>2, <2>3
  <2> QED
    BY <2>4, <2>5, OneSession
<1>12. CASE WithdrawGrants
  <2>1. PICK resync \in BOOLEAN : sess' = [s \in Sessions |->
                 [sess[s] EXCEPT !.ready = @ /\ ~resync, !.grant = NoGrant]]
    BY <1>12 DEF WithdrawGrants
  <2>2. ASSUME NEW s \in Sessions PROVE SessionOk(sess'[s])
    <3>1. PICK b \in BOOLEAN : b = (sess[s].ready /\ ~resync)
      OBVIOUS
    <3>2. PICK p : p = [sess[s] EXCEPT !.ready = b]
      OBVIOUS
    <3>3. SessionOk(p)
      BY <1>0, <3>2, SessionSteps
    <3>4. SessionOk([p EXCEPT !.grant = NoGrant])
      BY <3>3, NoGrantOk, SessionSteps
    <3>5. sess'[s] = [sess[s] EXCEPT !.ready = b, !.grant = NoGrant]
      BY <2>1, <3>1
    <3>6. sess'[s] = [p EXCEPT !.grant = NoGrant]
      BY <1>0, <3>2, <3>5 DEF Session
    <3> QED
      BY <3>4, <3>6
  <2>3. \A s \in Sessions : sess'[s] \in Session
    BY <2>2 DEF SessionOk
  <2>4. sess' = [s \in Sessions |-> sess'[s]]
    BY <2>1
  <2> QED
    BY <2>2, <2>3, <2>4 DEF SessionsOk
<1>13. CASE StartUpdate
  <2>1. PICK d \in Gaps : sess' = [s \in Sessions |->
                 [sess[s] EXCEPT !.grant = Refilled(@, d), !.conflict = Left(@, d)]]
    BY <1>13 DEF StartUpdate
  <2>2. d \in Nat /\ NackMs \in Nat
    BY Basics, RatesAre
  <2>3. ASSUME NEW s \in Sessions PROVE SessionOk(sess'[s])
    <3>1. PICK p : p = sess[s] /\ SessionOk(p) /\ GrantOk(p.grant)
      BY <1>0, SessionSteps
    <3>2. PICK g : g = Refilled(p.grant, d) /\ GrantOk(g)
      BY <2>2, <3>1, RefilledOk
    <3>3. PICK c \in 0 .. NackMs : c = Left(p.conflict, d)
      <4>1. p.conflict \in 0 .. NackMs
        BY <3>1 DEF SessionOk, Session
      <4> QED
        BY <2>2, <4>1, LeftIs
    <3>4. PICK p2 : p2 = [p EXCEPT !.grant = g]
      OBVIOUS
    <3>5. SessionOk(p2)
      BY <3>1, <3>2, <3>4, SessionSteps
    <3>6. SessionOk([p2 EXCEPT !.conflict = c])
      BY <3>5, SessionSteps
    <3>7. sess'[s] = [p EXCEPT !.grant = g, !.conflict = c]
      BY <2>1, <3>1, <3>2, <3>3
    <3>8. sess'[s] = [p2 EXCEPT !.conflict = c]
      BY <3>1, <3>4, <3>7 DEF SessionOk, Session
    <3> QED
      BY <3>6, <3>8
  <2>4. \A s \in Sessions : sess'[s] \in Session
    BY <2>3 DEF SessionOk
  <2>5. sess' = [s \in Sessions |-> sess'[s]]
    BY <2>1
  <2> QED
    BY <2>3, <2>4, <2>5 DEF SessionsOk
<1>14. CASE SetPause \/ PumpQuietRelease \/ UNCHANGED vars
  BY <1>1, <1>14 DEF SetPause, PumpQuietRelease, vars
<1> QED
  BY <1>2, <1>3, <1>4, <1>5, <1>6, <1>7, <1>8, <1>9, <1>10, <1>11, <1>12, <1>13, <1>14
     DEF Next

(* The rest of the state *)
RestOk ==
    /\ phase \in {"frames", "idle"} /\ pause \in BOOLEAN
    /\ owner \in Sessions \cup {None}
    /\ shown \in Sessions \cup {None, Unpublished}

ClocksFit ==
    /\ quiet \in [left : 0 .. Window, end : Stamps]
    /\ played \in [stamped : Stamps, first : Stamps, last : Stamps]
    /\ until \in 0 .. Half

LEMMA RestStep ==
    ASSUME RestOk, [Next]_vars
    PROVE  RestOk'
<1>1. ASSUME NEW s \in Sessions,
             Hello(s) \/ HandleCatalogReady(s) \/ HandlePublish(s) \/ StreamDropped(s)
               \/ StreamOverage(s) \/ StreamPaused(s) \/ StreamConflict(s)
      PROVE  RestOk'
  <2>1. UNCHANGED <<phase, pause, owner, shown>>
    BY <1>1 DEF Hello, HandleCatalogReady, HandlePublish, StreamDropped, StreamOverage,
                StreamPaused, StreamConflict
  <2> QED
    BY <2>1 DEF RestOk
<1>2. ASSUME NEW s \in Sessions, HandleIntent(s) PROVE RestOk'
  <2>1. /\ UNCHANGED <<phase, pause>> /\ owner' \in Sessions \cup {None}
        /\ (shown' = owner' \/ shown' = shown)
    BY <1>2 DEF HandleIntent, PublishControlOwner
  <2> QED
    BY <2>1 DEF RestOk
<1>3. ASSUME NEW s \in Sessions, MarkStale(s) \/ Teardown(s) PROVE RestOk'
  <2>1. /\ UNCHANGED <<phase, pause>> /\ owner' \in {owner, None}
        /\ (shown' = owner' \/ shown' = shown)
    BY <1>3 DEF MarkStale, Teardown, ReleaseSessionSources, PublishControlOwner
  <2> QED
    BY <2>1 DEF RestOk
<1>4. ASSUME NEW s \in Sessions, StreamDelivered(s) PROVE RestOk'
  <2>1. /\ UNCHANGED <<phase, pause>> /\ owner' = s
        /\ (shown' = owner' \/ shown' = shown)
    BY <1>4 DEF StreamDelivered, PublishControlOwner
  <2> QED
    BY <2>1 DEF RestOk
<1>5. CASE WithdrawGrants
  <2>1. /\ UNCHANGED <<phase, pause, owner>> /\ (shown' = owner' \/ shown' = shown)
    BY <1>5 DEF WithdrawGrants, ReseedCoreSnapshots, PublishControlOwner
  <2> QED
    BY <2>1 DEF RestOk
<1>6. CASE SetPause
  BY <1>6 DEF SetPause, RestOk
<1>7. CASE StartUpdate
  BY <1>7 DEF StartUpdate, RestOk
<1>8. CASE PumpQuietRelease
  <2>1. /\ phase' = "idle" /\ UNCHANGED pause /\ owner' \in {owner, None}
        /\ (shown' = owner' \/ shown' = shown)
    BY <1>8 DEF PumpQuietRelease, PublishControlOwner
  <2> QED
    BY <2>1 DEF RestOk
<1>9. CASE UNCHANGED vars
  BY <1>9 DEF vars, RestOk
<1> QED
  BY <1>1, <1>2, <1>3, <1>4, <1>5, <1>6, <1>7, <1>8, <1>9 DEF Next

LEMMA MarkFits ==
    ASSUME ClocksFit, NEW x \in Stamps, NEW w \in 0 .. Window
    PROVE  MarkedActive(x, w) \in [left : 0 .. Window, end : Stamps]
<1>1. quiet.end \in Stamps
  BY DEF ClocksFit
<1> QED
  BY <1>1 DEF MarkedActive

(* What the clamp makes of a stamp is a stamp, overflow or not *)
LEMMA ClampFits ==
    ASSUME NEW l \in Stamps, NEW offs \in Seq(Nat), Parses(offs), NEW b \in ClampLead(l, offs)
    PROVE  b \in Stamps /\ LastStamp(b, offs) \in Stamps /\ LastStamp(l, offs) \in Stamps
<1>1. PICK o \in Nat : o = offs[Len(offs)]
  BY DEF Parses
<1>2. Half \in Nat /\ LeadCap \in Nat
  BY Basics
<1>3. \A x \in Stamps : x \in Int
  BY <1>2 DEF Stamps
<1>4. ASSUME NEW x \in Stamps PROVE LastStamp(x, offs) \in Stamps
  <2>1. PICK d \in Int : d = x + o
    BY <1>3
  <2>2. Wrap(d) \in Stamps
    BY WrapRange
  <2> QED
    BY <1>1, <2>1, <2>2 DEF LastStamp
<1>5. PICK over \in Int : over = LastStamp(l, offs) - LeadCap
  BY <1>2, <1>3, <1>4
<1>6. PICK d \in Int : d = l - over
  BY <1>3
<1>7. b \in {l, Wrap(d)}
  BY <1>5, <1>6 DEF ClampLead
<1>8. b \in Stamps
  BY <1>7, WrapRange
<1> QED
  BY <1>4, <1>8

LEMMA ClocksStep ==
    ASSUME ClocksFit, [Next]_vars
    PROVE  ClocksFit'
<1>0. Half \in Nat /\ Half > 0 /\ Window \in Nat /\ QuietMs \in 0 .. Window
  BY Basics, WindowIs
<1>1. ASSUME NEW s \in Sessions, StreamDelivered(s) PROVE ClocksFit'
  <2>1. PICK offs \in Offsets, l \in Leads : \E b \in ClampLead(l, offs) :
              /\ offs \in Seq(Nat) /\ Parses(offs) /\ l \in Stamps
              /\ quiet' = MarkedActive(LastStamp(b, offs), Window)
              /\ played' = [stamped |-> LastStamp(l, offs), first |-> b,
                            last |-> LastStamp(b, offs)]
              /\ until' = Max({until, LastStamp(b, offs)})
    BY <1>1, DeliveredIs
  <2>2. PICK b \in ClampLead(l, offs) :
              /\ offs \in Seq(Nat) /\ Parses(offs) /\ l \in Stamps
              /\ quiet' = MarkedActive(LastStamp(b, offs), Window)
              /\ played' = [stamped |-> LastStamp(l, offs), first |-> b,
                            last |-> LastStamp(b, offs)]
              /\ until' = Max({until, LastStamp(b, offs)})
    BY <2>1
  <2>3. b \in Stamps /\ LastStamp(b, offs) \in Stamps /\ LastStamp(l, offs) \in Stamps
    BY <2>2, ClampFits
  <2>4. PICK x \in Stamps : x = LastStamp(b, offs)
    BY <2>3
  <2>5. x \in Int /\ x <= Half /\ until \in 0 .. Half
    BY <1>0 DEF Stamps, ClocksFit
  <2>6. Max({until, x}) = IF until >= x THEN until ELSE x
    BY <1>0, <2>5, MaxIs
  <2>7. until' \in 0 .. Half
    BY <1>0, <2>2, <2>4, <2>5, <2>6
  <2>8. Window \in 0 .. Window
    BY <1>0
  <2>9. quiet' \in [left : 0 .. Window, end : Stamps]
    BY <2>2, <2>4, <2>8, MarkFits
  <2>10. played' \in [stamped : Stamps, first : Stamps, last : Stamps]
    BY <2>2, <2>3
  <2> QED
    BY <2>7, <2>9, <2>10 DEF ClocksFit
<1>2. ASSUME NEW s \in Sessions, HandleIntent(s) PROVE ClocksFit'
  <2>1. quiet' = MarkedActive(0, QuietMs) /\ UNCHANGED <<played, until>>
    BY <1>2 DEF HandleIntent
  <2>2. 0 \in Stamps
    BY <1>0 DEF Stamps
  <2>3. quiet' \in [left : 0 .. Window, end : Stamps]
    BY <1>0, <2>1, <2>2, MarkFits
  <2> QED
    BY <2>1, <2>3 DEF ClocksFit
<1>3. CASE StartUpdate
  <2>1. PICK d \in Gaps :
          /\ quiet' = [left |-> Left(quiet.left, d), end |-> Aged(quiet.end, d)]
          /\ until' = Left(until, d) /\ UNCHANGED played
    BY <1>3 DEF StartUpdate
  <2>2. d \in Nat
    BY Basics
  <2>3. Left(quiet.left, d) \in 0 .. Window
    <3>1. quiet.left \in 0 .. Window
      BY DEF ClocksFit
    <3> QED
      BY <1>0, <2>2, <3>1, LeftIs
  <2>4. Aged(quiet.end, d) \in Stamps
    <3>1. quiet.end \in Int
      BY <1>0 DEF ClocksFit, Stamps
    <3>2. PICK x \in Int : x = quiet.end - d
      BY <2>2, <3>1
    <3> QED
      BY <3>2, WrapRange DEF Aged
  <2>5. Left(until, d) \in 0 .. Half
    <3>1. until \in 0 .. Half
      BY DEF ClocksFit
    <3> QED
      BY <1>0, <2>2, <3>1, LeftIs
  <2> QED
    BY <2>1, <2>3, <2>4, <2>5 DEF ClocksFit
<1>4. \/ UNCHANGED <<quiet, played, until>> \/ StartUpdate
      \/ \E s \in Sessions : HandleIntent(s) \/ StreamDelivered(s)
  BY DEF Next, vars, Hello, HandleCatalogReady, HandlePublish, MarkStale, Teardown,
         StreamDropped, StreamOverage, StreamPaused, StreamConflict, WithdrawGrants, SetPause,
         PumpQuietRelease
<1>5. CASE UNCHANGED <<quiet, played, until>>
  BY <1>5 DEF ClocksFit
<1> QED
  BY <1>1, <1>2, <1>3, <1>4, <1>5

(* The values the variables take, for any wishes, rates and bundles: a     *)
(* burst never exceeds its multiple of the channel's rate, and no refill,  *)
(* grant or bundle brings a bucket above its burst or below nothing.       *)
THEOREM StreamTypesHold == Spec => []TypeOK
<1>1. Init => SessionsOk /\ RestOk /\ ClocksFit
  <2> SUFFICES ASSUME Init PROVE SessionsOk /\ RestOk /\ ClocksFit
    OBVIOUS
  <2>1. SessionsOk
    BY NoSessionOk DEF Init, SessionsOk, SessionOk
  <2>2. RestOk
    BY DEF Init, RestOk
  <2>3. ClocksFit
    BY Basics, WindowIs DEF Init, ClocksFit, Stamps
  <2> QED
    BY <2>1, <2>2, <2>3
<1>2. SessionsOk /\ RestOk /\ ClocksFit /\ [Next]_vars => (SessionsOk /\ RestOk /\ ClocksFit)'
  BY SessionsStep, RestStep, ClocksStep
<1>3. SessionsOk /\ RestOk /\ ClocksFit => TypeOK
  BY DEF SessionsOk, SessionOk, RestOk, ClocksFit, TypeOK
<1> QED
  BY <1>1, <1>2, <1>3, PTL DEF Spec
=============================================================================
