------------------------------ MODULE HubStreams ------------------------------
(***************************************************************************)
(* Motion input: the STREAM bundles clients send to the hub                *)
(* (Hub::handleStream, wire/stream_bundle.hpp), the publish grants and     *)
(* token buckets that admit them (grantPublishWish, IngressRateLimiter),   *)
(* the ownership of the motion source they feed, and the quiet release     *)
(* that takes it back (markSourceActive, pumpQuietRelease).                *)
(*                                                                         *)
(* One channel, mapped to one source of kind `stream', is modelled: the    *)
(* grants, buckets and quiet clocks of two channels or sources share no    *)
(* state.                                                                  *)
(*                                                                         *)
(* The code keeps moments and compares them with the clock; every one is   *)
(* kept here as its distance from now, so that no clock has to stop.  A    *)
(* millisecond deadline is the time left to it, 0 once it has passed.  A   *)
(* stamp of the wrapping microsecond clock is its place in the half-range  *)
(* window around now, which is how timeDelta reads it.  A tick is one      *)
(* millisecond and 1000 microseconds; time passes between two updates.     *)
(*                                                                         *)
(* update() first hands every frame to its handler, then runs              *)
(* pumpQuietRelease: `phase' is "frames" while it is at the former.        *)
(***************************************************************************)
EXTENDS Integers, Sequences, FiniteSets, FiniteSetsExt

CONSTANTS
    Sessions,      \* the sessions that can hold a slot
    None,          \* session id 0: nobody
    Unpublished,   \* the control-owner channel has no retained value
    Ring,          \* the wrapping microsecond clock, 2^32
    Leads,         \* how far ahead of the hub's clock a bundle may start
    Offsets,       \* the t_off arrays a bundle can carry
    MaxSamples,    \* bundle_max_samples
    SpanCap,       \* the longest span of a bundle on this channel
    Horizon,       \* schedule_horizon_ms of the grant, 0 if it names none
    MaxFuture,     \* max_future_schedule_ms
    QuietMs,       \* stream_quiet_release_ms
    MaxRate,       \* the catalog entry's max_rate, samples per tick
    BurstFactor,   \* max_burst_multiple
    Rates, Bursts, \* the wishes a client can send; 0 drops, or asks for none
    NackMs,        \* 1000 / stream_ingress_overage_nack_per_s
    Gaps           \* the time between two update() calls

LeadCap == IF Horizon = 0 THEN MaxFuture ELSE Horizon
Window  == Max({QuietMs, Horizon})
Half    == Ring \div 2

ASSUME StreamConstants ==
    /\ None \notin Sessions /\ Unpublished \notin Sessions \cup {None}
    /\ Ring \in Nat \ {0} /\ Ring = 2 * Half
    /\ Leads \subseteq -Half .. (Half - 1)
    /\ \A o \in Offsets : o \in Seq(Nat)
    /\ {MaxSamples, SpanCap, Horizon, MaxFuture, QuietMs} \subseteq Nat
    /\ {MaxRate, BurstFactor, NackMs} \subseteq Nat \ {0}
    /\ Rates \subseteq Nat /\ Bursts \subseteq Nat
    /\ Gaps \subseteq Nat \ {0}

VARIABLES
    phase,     \* "frames": update() is handing out frames; "idle": it is over
    sess,      \* [Sessions -> Session]: state, readiness, grant, throttle
    pause,     \* is PAUSE latched in _safetyWord?
    owner,     \* SourceOwnershipTable: the owner of the source
    shown,     \* the owner in the retained control-owner snapshot
    quiet,     \* SourceQuiet of the source
    played,    \* history: the bundle handed to the delegate last, as stamped
               \* and as the delegate saw it
    until      \* history: time left until all motion handed on has played

vars == <<phase, sess, pause, owner, shown, quiet, played, until>>

Stamps == -Half .. (Half - 1)

(* PublishGrant with its limiter.  throttle is the time left before the    *)
(* next RATE_LIMITED goes out.                                             *)
Grant ==
    [rate : 0 .. MaxRate, burst : 0 .. MaxRate * BurstFactor,
     tokens : 0 .. MaxRate * BurstFactor, throttle : 0 .. NackMs]

(* publishGrantFor(channel) = nullptr *)
NoGrant == [rate |-> 0, burst |-> 0, tokens |-> 0, throttle |-> 0]

(* conflict is the ConflictNack record: the time left before the next      *)
(* SOURCE_CONFLICT goes out                                                *)
Session ==
    [state : {"FREE", "LIVE", "STALE"}, ready : BOOLEAN, grant : Grant,
     conflict : 0 .. NackMs]

NoSession ==
    [state |-> "FREE", ready |-> FALSE, grant |-> NoGrant, conflict |-> 0]

------------------------------------------------------------------------------
(* The wrapping clock and the bundle *)

(* timeDelta: the distance d, read in the half-range window *)
Wrap(d) == ((d + Half) % Ring) - Half

(* A distance, and a time left, after the clock has moved by d *)
Aged(stamp, d) == Wrap(stamp - d)
Left(t, d)     == Max({0, t - d})

(* BundleWriter::addSample; a sample it refuses leaves the bundle as it was *)
AddSample(offs, o) ==
    IF /\ Len(offs) < MaxSamples
       /\ IF offs = <<>> THEN o = 0 ELSE offs[Len(offs)] < o
       /\ o <= SpanCap
    THEN Append(offs, o) ELSE offs

(* The t_off arrays a client's BundleWriter can end up with after n calls *)
Written[n \in 0 .. (MaxSamples + 1)] ==
    IF n = 0 THEN {<<>>}
    ELSE {AddSample(offs, o) : offs \in Written[n - 1], o \in 0 .. (SpanCap + 1)}

(* BundleView::parse, and the n = 0 check after it *)
Parses(offs) ==
    /\ Len(offs) \in 1 .. MaxSamples
    /\ offs[1] = 0
    /\ \A i \in 2 .. Len(offs) : offs[i - 1] < offs[i]
    /\ offs[Len(offs)] <= SpanCap

(* The hub takes exactly the bundles the client's writer can make *)
ASSUME WriterAndParserAgree ==
    \A n \in 0 .. (MaxSamples + 1) : \A offs \in [1 .. n -> 0 .. (SpanCap + 1)] :
       Parses(offs) <=> offs \in Written[MaxSamples + 1] \ {<<>>}

(* sampleTimeUs(n - 1) of a bundle with this t_base *)
LastStamp(base, offs) == Wrap(base + offs[Len(offs)])

(* Mutant: the first stamp is held to the cap, not the last *)
ClampLead_first(base, offs) ==
    IF base > LeadCap THEN {LeadCap} ELSE {base}

(* clampLead: the values t_base can have after it.  The subtraction of two *)
(* int32_t overflows for a stamp almost half a ring old; a build may then  *)
(* compare as if it had not, or move the bundle by the wrapped difference. *)
ClampLead(base, offs) ==
    LET over == LastStamp(base, offs) - LeadCap
    IN  CASE over > 0     -> {Wrap(base - over)}
          [] over < -Half -> {base, Wrap(base - over)}
          [] OTHER        -> {base}

------------------------------------------------------------------------------
(* Publish grants and their buckets *)

(* IngressRateLimiter::refill.  The refill is linear, so it makes no       *)
(* difference that the code does it when the next bundle comes.            *)
Refilled(g, d) ==
    [g EXCEPT !.tokens = Min({g.burst, @ + g.rate * d}), !.throttle = Left(@, d)]

(* grantPublishWish for a channel that validates, then addPublishGrant: a  *)
(* new bucket, full.  A burst is held between the rate and its multiple.   *)
Granted(rate, burst) ==
    LET r == Min({rate, MaxRate})
        b == IF burst = 0 THEN r ELSE Max({r, Min({burst, r * BurstFactor})})
    IN  IF rate = 0 THEN NoGrant
        ELSE [rate |-> r, burst |-> b, tokens |-> b, throttle |-> 0]

(* reviveIfStale: any frame of a STALE session *)
Heard(s) == [sess[s] EXCEPT !.state = "LIVE"]

Receiving(s) == phase = "frames" /\ sess[s].state # "FREE"

(* HELLO, with a publish wish for the channel.  The session is ready if it *)
(* holds the catalog already.                                              *)
Hello(s) ==
    /\ phase = "frames"
    /\ sess[s].state = "FREE"
    /\ \E ready \in BOOLEAN, rate \in Rates, burst \in Bursts :
          sess' = [sess EXCEPT ![s] =
                      [NoSession EXCEPT !.state = "LIVE", !.ready = ready,
                                        !.grant = Granted(rate, burst)]]
    /\ UNCHANGED <<phase, pause, owner, shown, quiet, played, until>>

(* CATALOG_READY *)
HandleCatalogReady(s) ==
    /\ Receiving(s)
    /\ ~sess[s].ready
    /\ sess' = [sess EXCEPT ![s] = [Heard(s) EXCEPT !.ready = TRUE]]
    /\ UNCHANGED <<phase, pause, owner, shown, quiet, played, until>>

(* PUBLISH: the grant is made anew, or dropped on a rate of 0 *)
HandlePublish(s) ==
    /\ Receiving(s)
    /\ \E rate \in Rates, burst \in Bursts :
          sess' = [sess EXCEPT ![s] =
                      [Heard(s) EXCEPT !.grant = Granted(rate, burst)]]
    /\ UNCHANGED <<phase, pause, owner, shown, quiet, played, until>>

(* Mutant: the snapshot is taken before the source changes hands *)
PublishControlOwner_early == shown' = owner

(* publishControlOwnerStateIfPresent: the snapshot has the owner that the  *)
(* ownership table has by then                                             *)
PublishControlOwner == shown' = owner'

(* reseedCoreSnapshots, for a snapshot that is not retained any more, or   *)
(* not yet                                                                 *)
ReseedCoreSnapshots(removed) ==
    IF removed \/ shown = Unpublished THEN PublishControlOwner ELSE UNCHANGED shown

(* catalogChanged and withdrawGrants: a live change takes the channel      *)
(* away.  A re-sync revokes readiness, and may remove the control-owner    *)
(* snapshot.                                                               *)
WithdrawGrants ==
    /\ phase = "idle"
    /\ UNCHANGED <<phase, pause, owner, quiet, played, until>>
    /\ \E resync, removed \in BOOLEAN :
          /\ sess' = [s \in Sessions |->
                 [sess[s] EXCEPT !.ready = @ /\ ~resync, !.grant = NoGrant]]
          /\ IF resync THEN ReseedCoreSnapshots(removed) ELSE UNCHANGED shown

------------------------------------------------------------------------------
(* The source: ownership and the quiet clock *)

(* Mutant: the last bundle's end is always taken *)
MarkedActive_latest(end, window) == [left |-> window, end |-> end]

(* Mutant: an end half a ring old is still taken for the current one *)
MarkedActive_unexpired(end, window) ==
    [left |-> window,
     end  |-> IF Wrap(end - quiet.end) > 0 THEN end ELSE quiet.end]

(* markSourceActive: a late bundle never pulls the playout end earlier     *)
(* while the previous one is still current.  left is the time to           *)
(* lastActiveMs + windowMs.                                                *)
MarkedActive(end, window) ==
    [left |-> window,
     end  |-> IF quiet.left = 0 \/ Wrap(end - quiet.end) > 0
              THEN end ELSE quiet.end]

(* A motion intent for the source.  acquire() with the takeover flag set   *)
(* and a role that suffices takes it from its owner; under PAUSE only an   *)
(* intent the application admits gets this far.  An intent the application *)
(* then refuses keeps no source it took, nor hands it back to the session  *)
(* it was taken from; the quiet clock has been started.  An intent refused *)
(* earlier changes nothing here.                                           *)
HandleIntent(s) ==
    /\ Receiving(s)
    /\ sess[s].ready
    /\ sess'  = [sess EXCEPT ![s] = Heard(s)]
    /\ \E applied \in BOOLEAN : owner' = IF applied \/ owner = s THEN s ELSE None
    /\ IF owner # s THEN PublishControlOwner ELSE UNCHANGED shown
    /\ quiet' = MarkedActive(0, QuietMs)
    /\ UNCHANGED <<phase, pause, played, until>>

(* releaseSessionSources *)
ReleaseSessionSources(s) ==
    IF owner = s THEN owner' = None /\ PublishControlOwner
    ELSE UNCHANGED <<owner, shown>>

(* markStale: silence, or a lost transport *)
MarkStale(s) ==
    /\ sess[s].state = "LIVE"
    /\ sess'  = [sess EXCEPT ![s].state = "STALE"]
    /\ ReleaseSessionSources(s)
    /\ UNCHANGED <<phase, pause, quiet, played, until>>

(* teardownSession *)
Teardown(s) ==
    /\ sess[s].state # "FREE"
    /\ sess'  = [sess EXCEPT ![s] = NoSession]
    /\ ReleaseSessionSources(s)
    /\ UNCHANGED <<phase, pause, quiet, played, until>>

(* The latch itself is HubSafety's: here it only gates the bundles *)
SetPause ==
    /\ pause' = ~pause
    /\ UNCHANGED <<phase, sess, owner, shown, quiet, played, until>>

------------------------------------------------------------------------------
(* handleStream, in the order of its checks *)

(* Steps 0 to 3b: ready, granted, well formed, and not empty *)
Admissible(s, offs) ==
    /\ sess[s].ready
    /\ sess[s].grant # NoGrant
    /\ Parses(offs)

(* allowN: all of the samples or none *)
WithinRate(s, offs) == sess[s].grant.tokens >= Len(offs)

Consumed(s, offs) == [Heard(s) EXCEPT !.grant.tokens = @ - Len(offs)]

(* A NACK goes out when its throttle has run off, and starts it again *)
Throttled(t) == IF t = 0 THEN NackMs ELSE t

StreamDropped(s) ==
    /\ Receiving(s)
    /\ \E offs \in Offsets : ~Admissible(s, offs)
    /\ sess' = [sess EXCEPT ![s] = Heard(s)]
    /\ UNCHANGED <<phase, pause, owner, shown, quiet, played, until>>

(* sendStreamOverageNack *)
StreamOverage(s) ==
    /\ Receiving(s)
    /\ \E offs \in Offsets : Admissible(s, offs) /\ ~WithinRate(s, offs)
    /\ sess' = [sess EXCEPT ![s] =
                   [Heard(s) EXCEPT !.grant.throttle = Throttled(@)]]
    /\ UNCHANGED <<phase, pause, owner, shown, quiet, played, until>>

(* While PAUSE is latched the bundle is dropped, and its samples are spent *)
StreamPaused(s) ==
    /\ Receiving(s)
    /\ pause
    /\ \E offs \in Offsets :
          /\ Admissible(s, offs) /\ WithinRate(s, offs)
          /\ sess' = [sess EXCEPT ![s] = Consumed(s, offs)]
    /\ UNCHANGED <<phase, pause, owner, shown, quiet, played, until>>

(* acquire() = Conflict, and sendSourceConflictNack *)
StreamConflict(s) ==
    /\ Receiving(s)
    /\ ~pause
    /\ owner \notin {None, s}
    /\ \E offs \in Offsets :
          /\ Admissible(s, offs) /\ WithinRate(s, offs)
          /\ sess' = [sess EXCEPT ![s] =
                 [Consumed(s, offs) EXCEPT !.conflict = Throttled(@)]]
    /\ UNCHANGED <<phase, pause, owner, shown, quiet, played, until>>

(* acquire() = Acquired or AlreadyOwner; the former clears the throttle.   *)
(* The bundle reaches the delegate with its stamps held to the cap.        *)
StreamDelivered(s) ==
    /\ Receiving(s)
    /\ ~pause
    /\ owner \in {None, s}
    /\ \E offs \in Offsets, lead \in Leads :
          /\ Admissible(s, offs) /\ WithinRate(s, offs)
          /\ \E base \in ClampLead(lead, offs) :
                LET last == LastStamp(base, offs)
                IN  /\ quiet'  = MarkedActive(last, Window)
                    /\ played' = [stamped |-> LastStamp(lead, offs),
                                  first |-> base, last |-> last]
                    /\ until'  = Max({until, last})
          /\ sess' = [sess EXCEPT ![s] =
                 [Consumed(s, offs) EXCEPT
                     !.conflict = IF owner = None THEN 0 ELSE @]]
    /\ owner' = s
    /\ IF owner = None THEN PublishControlOwner ELSE UNCHANGED shown
    /\ UNCHANGED <<phase, pause>>

------------------------------------------------------------------------------
(* update() *)

StartUpdate ==
    /\ phase = "idle"
    /\ phase' = "frames"
    /\ \E d \in Gaps :
          /\ sess'  = [s \in Sessions |->
                 [sess[s] EXCEPT !.grant = Refilled(@, d),
                                 !.conflict = Left(@, d)]]
          /\ quiet' = [left |-> Left(quiet.left, d), end |-> Aged(quiet.end, d)]
          /\ until' = Left(until, d)
    /\ UNCHANGED <<pause, owner, shown, played>>

(* pumpQuietRelease's test of a stream source *)
Quiet == Wrap(-quiet.end) >= 0 /\ quiet.left = 0

(* pumpQuietRelease, last in update() *)
PumpQuietRelease ==
    /\ phase = "frames"
    /\ IF Quiet /\ owner # None THEN owner' = None /\ PublishControlOwner
       ELSE UNCHANGED <<owner, shown>>
    /\ phase' = "idle"
    /\ UNCHANGED <<sess, pause, quiet, played, until>>

Init ==
    /\ phase = "idle"
    /\ sess = [s \in Sessions |-> NoSession]
    /\ pause = FALSE
    /\ owner = None
    /\ shown = Unpublished
    /\ quiet = [left |-> 0, end |-> 0]
    /\ played = [stamped |-> 0, first |-> 0, last |-> 0]
    /\ until = 0

Next ==
    \/ \E s \in Sessions :
          \/ Hello(s) \/ HandleCatalogReady(s) \/ HandlePublish(s)
          \/ HandleIntent(s) \/ MarkStale(s) \/ Teardown(s)
          \/ StreamDropped(s) \/ StreamOverage(s) \/ StreamPaused(s)
          \/ StreamConflict(s) \/ StreamDelivered(s)
    \/ WithdrawGrants \/ SetPause \/ StartUpdate \/ PumpQuietRelease

Spec == Init /\ [][Next]_vars

------------------------------------------------------------------------------
(* The values the variables take.  The bucket never holds more than the    *)
(* burst it was granted.                                                   *)
TypeOK ==
    /\ phase \in {"frames", "idle"}
    /\ sess \in [Sessions -> Session]
    /\ \A s \in Sessions : sess[s].grant.tokens <= sess[s].grant.burst
    /\ pause \in BOOLEAN
    /\ owner \in Sessions \cup {None}
    /\ shown \in Sessions \cup {None, Unpublished}
    /\ quiet \in [left : 0 .. Window, end : Stamps]
    /\ played \in [stamped : Stamps, first : Stamps, last : Stamps]
    /\ until \in 0 .. Half

(* What the delegate is handed never plays later than the cap allows, and  *)
(* a bundle the clamp moved still starts no earlier than now: a jump into  *)
(* the past would play its samples all at once (clampLead with the span    *)
(* cap of parse).                                                          *)
StampsAreHeld ==
    /\ played.last <= LeadCap
    /\ played.last < played.stamped => played.first >= 0

(* The quiet release never takes the source while motion already handed to *)
(* the delegate is still to be played, whichever bundles and intents, late *)
(* or early, came after it (markSourceActive, pumpQuietRelease).           *)
NoReleaseMidPlayout ==
    [][phase = "frames" /\ phase' = "idle" /\ owner' # owner
          => until = 0]_vars

(* Once update() is over the source has an owner only if something is      *)
(* still to be played or its quiet window is open: the comparison of       *)
(* wrapping stamps keeps no silent owner (pumpQuietRelease).  That is so   *)
(* for stamps well within half a ring, as Leads has them; one almost half  *)
(* a ring old reads as one in the future.                                  *)
QuietIsReleased ==
    phase = "idle" /\ owner # None => until > 0 \/ quiet.left > 0

(* The retained control-owner snapshot names the session that has the      *)
(* source, through takeovers, refused intents, quiet releases, lost        *)
(* sessions and re-syncs; before it is first published nobody has had it.  *)
RetainedOwnerIsCurrent ==
    shown = owner \/ (shown = Unpublished /\ owner = None)

(* A bundle whose every stamp has passed is handed on with those stamps    *)
(* (clampLead: a stamp in the past never moves).                           *)
PastNeverMoves == played.stamped <= 0 => played.last = played.stamped
=============================================================================
