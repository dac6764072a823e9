------------------------------ MODULE HubBlob -------------------------------
(***************************************************************************)
(* Moving documents to a client in chunks: BLOB_REQ arms a cursor in the   *)
(* session's slot, update() drains it a few chunks at a time, BLOB_CHUNK   *)
(* carries identity, generation, index, count and size, and the receiver   *)
(* puts the document together by index, asks again for what is missing,    *)
(* starts over, or gives up (hub/hub_impl.hpp, clients/js/session.js).     *)
(*                                                                         *)
(* Two documents: the catalog, which the hub encodes itself and whose      *)
(* transfers it ends when the catalog changes, and a store item, which may *)
(* change under a transfer and carries a generation.  A document's bytes   *)
(* are its revision; the hub never keeps them between two updates, so what *)
(* a cursor sends is the revision it finds then.                           *)
(*                                                                         *)
(* The receiver is the JavaScript client, which fetches store items and    *)
(* asks for repairs.  The C++ client takes whole catalogs only: its        *)
(* handleBlobChunk() is in StateSync.  At most one document is on its way  *)
(* to a receiver, so its two reassemblers are one here.  `of' is the       *)
(* revision a transfer was armed for; the hub does not have that field.    *)
(***************************************************************************)
EXTENDS Integers, Sequences, FiniteSets, SequencesExt

CONSTANTS
    Slots,           \* sessions, each with its slot and its link
    Revisions,       \* 1 .. the number of revisions a document has
    Size,            \* the bytes of each revision
    Payload,         \* catalog_chunk_payload
    ChunksPerTick,   \* kBlobChunksPerTick
    InFlightMax,     \* blob_chunks_in_flight
    HoldTicks,       \* kBlobHoldAbortMs, in updates
    MaxBytes,        \* maxTotalBytes, the receiver's reassembly budget
    RepairMax,       \* chunks that one repair may name
    LinkRoom,        \* frames a link holds
    MaxRequests      \* bound: BLOB_REQs per session

Docs == {"catalog", "store"}

ASSUME BlobConstants ==
    /\ Revisions = 1 .. Cardinality(Revisions) /\ 1 \in Revisions
    /\ Size \in [Revisions -> Nat \ {0}]
    /\ Payload \in Nat \ {0} /\ ChunksPerTick \in Nat \ {0}
    /\ InFlightMax \in Nat /\ InFlightMax >= ChunksPerTick
    /\ HoldTicks \in Nat \ {0} /\ LinkRoom \in Nat /\ MaxRequests \in Nat
    /\ MaxBytes \in Nat /\ RepairMax \in Nat \ {0}

VARIABLES
    rev,        \* the revision of each document, 0 while it has no bytes
    etag,       \* the revision of the last catalog that was encoded
    allowed,    \* whether a session's role may read the store
    congested,  \* whether congestionLevel is not 0
    pb,         \* Slot::PendingBlob
    req,        \* the BLOB_REQ underway, at most one per session
    asked,      \* requests made so far
    down,       \* the frames underway to the client
    rx,         \* the client's transfer and its reassembler
    taken       \* history: what the last fetch resolved with

vars == <<rev, etag, allowed, congested, pb, req, asked, down, rx, taken>>
hub  == <<rev, etag, allowed, congested>>

(* No transfer: the other fields are not read then.                        *)
NoCursor == [active |-> FALSE, doc |-> "catalog", of |-> 0, total |-> 0, gen |-> 0,
             want |-> <<>>, inFlight |-> 0, held |-> 0, seq |-> 0]
NoReq    == [doc |-> "none", want |-> {}, seq |-> 0]
(* doc: "catalog" while catalogInFlight, "store" while the head of the     *)
(* fetches is on the wire, whose requests are numbered from since on.      *)
NoRx     == [doc |-> "none", since |-> 0, active |-> FALSE, count |-> 0, total |-> 0,
             gen |-> 0, got |-> <<>>]
Nothing  == [total |-> 0, gen |-> 0, got |-> <<>>]

-----------------------------------------------------------------------------
(* The documents.                                                          *)

ChunkCount(total) == (total + Payload - 1) \div Payload
Indices(total) == 0 .. (ChunkCount(total) - 1)
(* The generation a document travels under: the catalog has none.          *)
Generation(doc) == IF doc = "catalog" THEN 0 ELSE rev[doc]

(* resolveBlobBytes(): there are bytes, and the role may read them.        *)
Resolves(s, doc) == rev[doc] # 0 /\ (doc = "store" => allowed[s])

(* fillBlobChunk().                                                        *)
Chunk(doc, idx) == [type |-> "BLOB_CHUNK", doc |-> doc, rev |-> rev[doc],
                    gen |-> Generation(doc), idx |-> idx,
                    count |-> ChunkCount(Size[rev[doc]]), total |-> Size[rev[doc]]]
Nack(code, seq) == [type |-> "NACK", code |-> code, seq |-> seq]

Init ==
    /\ rev = [d \in Docs |-> 1]
    /\ etag = 1
    /\ allowed = [s \in Slots |-> TRUE]
    /\ congested = [s \in Slots |-> FALSE]
    /\ pb = [s \in Slots |-> NoCursor]
    /\ req = [s \in Slots |-> NoReq]
    /\ asked = [s \in Slots |-> 0]
    /\ down = [s \in Slots |-> <<>>]
    /\ rx = [s \in Slots |-> NoRx]
    /\ taken = [s \in Slots |-> Nothing]

-----------------------------------------------------------------------------
(* The hub.                                                                *)

(* A refusal names the request it answers, and is written if the link      *)
(* takes it.                                                               *)
Said(q, code, seq) == IF Len(q) < LinkRoom THEN Append(q, Nack(code, seq)) ELSE q

(* The chunks a cursor goes through: all of them from 0 on, or those a     *)
(* repair names, which missingIndices() lists in order.                    *)
InOrder(S) ==
    CHOOSE f \in [1 .. Cardinality(S) -> S] : \A i, j \in DOMAIN f : i < j => f[i] < f[j]

(* handleBlobReq(): a repair may only name chunks the document has.        *)
Acceptable(s, r) ==
    /\ Resolves(s, r.doc)
    /\ r.want \subseteq Indices(Size[rev[r.doc]])

HandleBlobReq(s) ==
    LET r == req[s] IN
    /\ r # NoReq
    /\ req' = [req EXCEPT ![s] = NoReq]
    /\ IF Acceptable(s, r)
       THEN /\ pb' = [pb EXCEPT ![s] =
                 [NoCursor EXCEPT
                    !.active = TRUE, !.doc = r.doc, !.of = rev[r.doc],
                    !.total = Size[rev[r.doc]], !.gen = Generation(r.doc), !.seq = r.seq,
                    !.want = InOrder(IF r.want = {} THEN Indices(Size[rev[r.doc]])
                                     ELSE r.want)]]
            /\ UNCHANGED down
       ELSE /\ down' = [down EXCEPT ![s] = Said(@, "CHUNK_UNAVAILABLE", r.seq)]
            /\ UNCHANGED pb
    /\ UNCHANGED <<hub, asked, rx, taken>>

(* Mutant: a cursor is resumed without asking whether the document moved.  *)
SameDocumentUnchecked(c) == TRUE

(* The cursor still points into the document it was armed for, as far as   *)
(* size and generation tell.                                               *)
SameDocument(c) == Size[rev[c.doc]] = c.total /\ Generation(c.doc) = c.gen

(* pumpBlobTransfer(): the transfer is over, with a refusal.               *)
PumpRefuses(s) ==
    LET c == pb[s] IN
    /\ c.active
    /\ ~(Resolves(s, c.doc) /\ SameDocument(c))
    /\ pb' = [pb EXCEPT ![s] = NoCursor]
    /\ down' = [down EXCEPT ![s] = Said(@, "CHUNK_UNAVAILABLE", c.seq)]
    /\ UNCHANGED <<hub, req, asked, rx, taken>>

(* How many chunks this update may emit: the budget of an update, and on a *)
(* congested link what is left of the budget in flight.                    *)
Credit(s) ==
    LET used == IF congested[s] THEN pb[s].inFlight ELSE 0
        left == IF ~congested[s] THEN ChunksPerTick
                ELSE IF used >= InFlightMax THEN 0 ELSE InFlightMax - used
    IN  Min({ChunksPerTick, left, Len(pb[s].want)})

(* Mutant: the stall clock starts again at every update.                   *)
HeldAfterAlways(c, n) == 1

(* The stall clock: armed by an update that moved nothing, disarmed by any *)
(* chunk.                                                                  *)
HeldAfter(c, n) == IF n > 0 THEN 0 ELSE c.held + 1

(* ... or n chunks go out (fewer than the credit if the link takes no      *)
(* more), and the transfer goes on, is complete, or has stalled too long.  *)
PumpEmits(s, n) ==
    LET c    == pb[s]
        sent == [k \in 1 .. n |-> Chunk(c.doc, c.want[k])]
        rest == SubSeq(c.want, n + 1, Len(c.want))
        held == HeldAfter(c, n)
    IN
    /\ c.active /\ Resolves(s, c.doc) /\ SameDocument(c)
    /\ n <= Credit(s) /\ Len(down[s]) + n <= LinkRoom
    /\ pb' = [pb EXCEPT ![s] =
               IF rest = <<>> \/ held > HoldTicks THEN NoCursor
               ELSE [c EXCEPT !.want = rest, !.held = held,
                       !.inFlight = (IF congested[s] THEN c.inFlight ELSE 0) + n]]
    /\ down' = [down EXCEPT ![s] =
                 IF rest # <<>> /\ held > HoldTicks THEN Said(@, "BUSY", c.seq)
                 ELSE @ \o sent]
    /\ UNCHANGED <<hub, req, asked, rx, taken>>

-----------------------------------------------------------------------------
(* What changes under a transfer.                                          *)

(* abortCatalogTransfers().                                                *)
AbortCatalogTransfers ==
    LET hit == {s \in Slots : pb[s].active /\ pb[s].doc = "catalog"} IN
    /\ pb' = [s \in Slots |-> IF s \in hit THEN NoCursor ELSE pb[s]]
    /\ down' = [s \in Slots |-> IF s \in hit
                                THEN Said(down[s], "CHUNK_UNAVAILABLE", pb[s].seq)
                                ELSE down[s]]

(* catalogChanged(): encoded anew; the same etag is no change.             *)
CatalogChanged(r) ==
    /\ rev["catalog"] # r
    /\ rev' = [rev EXCEPT !["catalog"] = r]
    /\ IF etag = r THEN UNCHANGED <<etag, pb, down>>
       ELSE etag' = r /\ AbortCatalogTransfers
    /\ UNCHANGED <<allowed, congested, req, asked, rx, taken>>

(* ... or it cannot be encoded: no bytes, the old etag.                    *)
CatalogEncodeFails ==
    /\ rev["catalog"] # 0
    /\ rev' = [rev EXCEPT !["catalog"] = 0]
    /\ UNCHANGED <<etag, allowed, congested, pb, req, asked, down, rx, taken>>

(* readBlob(): the item is another one, or gone.  Every change of it is    *)
(* assumed to have a new generation.  (The hub's own ledger items change   *)
(* labels and stamps without one; each fits in one chunk.)                 *)
StoreMoves(r) ==
    /\ rev["store"] # r /\ (r = 0 \/ r > rev["store"])
    /\ rev' = [rev EXCEPT !["store"] = r]
    /\ UNCHANGED <<etag, allowed, congested, pb, req, asked, down, rx, taken>>

(* The session's role falls under the store's access.                      *)
Demote(s) ==
    /\ allowed[s]
    /\ allowed' = [allowed EXCEPT ![s] = FALSE]
    /\ UNCHANGED <<rev, etag, congested, pb, req, asked, down, rx, taken>>

SetCongestionLevel(s) ==
    /\ congested' = [congested EXCEPT ![s] = ~@]
    /\ UNCHANGED <<rev, etag, allowed, pb, req, asked, down, rx, taken>>

(* The link or the session is gone: the cursor, all frames and what the    *)
(* receiver was assembling with it.                                        *)
EndSession(s) ==
    /\ pb' = [pb EXCEPT ![s] = NoCursor]
    /\ req' = [req EXCEPT ![s] = NoReq]
    /\ down' = [down EXCEPT ![s] = <<>>]
    /\ rx' = [rx EXCEPT ![s] = NoRx]
    /\ UNCHANGED <<hub, asked, taken>>

Teardown(s) ==
    /\ pb[s].active \/ req[s] # NoReq \/ down[s] # <<>>
    /\ EndSession(s)

-----------------------------------------------------------------------------
(* The receiver asks.                                                      *)

(* BLOB_REQ, at most one underway.  The requests of a fetch are numbered,  *)
(* those of the catalog are not.                                           *)
Request(s, doc, want) ==
    /\ req[s] = NoReq /\ asked[s] < MaxRequests
    /\ asked' = [asked EXCEPT ![s] = @ + 1]
    /\ req' = [req EXCEPT ![s] = [doc |-> doc, want |-> want,
                                 seq |-> IF doc = "store" THEN asked'[s] ELSE 0]]

Awaiting(s, doc) == [NoRx EXCEPT !.doc = doc, !.since = asked[s] + 1]

(* requestCatalog(): at any time, and whatever is on the wire is dropped.  *)
(* pumpStoreFetch(): the next item, once nothing else is on the wire.      *)
Ask(s, doc) ==
    /\ doc = "store" => rx[s].doc = "none"
    /\ Request(s, doc, {})
    /\ rx' = [rx EXCEPT ![s] = Awaiting(s, doc)]

Missing(r) == (0 .. (r.count - 1)) \ DOMAIN r.got
Complete(r) == r.active /\ Missing(r) = {}

(* The lowest RepairMax of the chunks that are missing.                    *)
Repair(r) ==
    {i \in Missing(r) : Cardinality({k \in Missing(r) : k < i}) < RepairMax}

(* gapElapsed(): some of the missing chunks are asked for again.           *)
AskRepair(s) ==
    /\ rx[s].active
    /\ Request(s, rx[s].doc, Repair(rx[s]))
    /\ UNCHANGED rx

(* A transfer that took too long, or a fetch that its caller aborts.  The  *)
(* catalog's clock starts with its first chunk.                            *)
GiveUp(s) ==
    /\ rx[s].doc # "none" /\ (rx[s].doc = "catalog" => rx[s].active)
    /\ rx' = [rx EXCEPT ![s] = NoRx]
    /\ UNCHANGED <<req, asked>>

-----------------------------------------------------------------------------
(* The receiver takes what arrives.                                        *)

(* Mutant: a chunk of another generation is taken for the same item        *)
(* (the C++ client compares no more than this, for catalogs)               *)
RestartsOnCountOnly(r, f) == ~r.active \/ r.count # f.count

(* A chunk that is not of the document being assembled starts it over.     *)
(* Chunks of the catalog all carry generation 0.                           *)
Restarts(r, f) ==
    \/ ~r.active
    \/ <<r.count, r.total, r.gen>> # <<f.count, f.total, f.gen>>

OverBudget(r, f) == Restarts(r, f) /\ f.total > MaxBytes

(* BlobReassembler.begin(), once the caller has checked the budget.        *)
Begin(r, f) ==
    [r EXCEPT !.active = TRUE, !.count = f.count, !.total = f.total, !.gen = f.gen,
              !.got = <<>>]

(* BlobReassembler.insert().                                               *)
Insert(r, f) ==
    IF r.active /\ f.idx < r.count
    THEN [r EXCEPT !.got = [i \in DOMAIN @ \cup {f.idx} |->
                              IF i = f.idx THEN f.rev ELSE @[i]]]
    ELSE r

Assemble(r, f) == Insert(IF Restarts(r, f) THEN Begin(r, f) ELSE r, f)

(* refuseBlob(): GOODBYE and close, or, for a catalog fetched again,       *)
(* refuseRefetch(): the client stays on the one it has.                    *)
RefuseBlob(s, f) ==
    \/ EndSession(s)
    \/ /\ f.doc = "catalog"
       /\ rx' = [rx EXCEPT ![s] = NoRx]
       /\ down' = [down EXCEPT ![s] = Tail(@)]
       /\ UNCHANGED <<hub, pb, req, asked, taken>>

(* The transfer is over, or the catalog is asked for anew: its digest did  *)
(* not match or the hub refused, and the count of restarts allows it.      *)
Over(s) == rx' = [rx EXCEPT ![s] = NoRx] /\ UNCHANGED <<req, asked>>

OverOrAnew(s) ==
    \/ Over(s)
    \/ rx[s].doc = "catalog" /\ Ask(s, "catalog")

(* The whole document: a fetch resolves with it, unless its caller expects *)
(* another digest.                                                         *)
HandOver(s, r) ==
    /\ OverOrAnew(s)
    /\ \/ /\ r.doc = "store"
          /\ taken' = [taken EXCEPT ![s] = [total |-> r.total, gen |-> r.gen,
                                            got |-> r.got]]
       \/ UNCHANGED taken

(* handleBlobChunk() and handleStoreChunk().                               *)
HandleBlobChunk(s, f) ==
    \/ /\ f.doc # rx[s].doc
       /\ UNCHANGED <<rx, req, asked, taken>>
    \/ /\ f.doc = rx[s].doc /\ ~OverBudget(rx[s], f)
       /\ LET r == Assemble(rx[s], f) IN
          \/ /\ ~Complete(r)
             /\ rx' = [rx EXCEPT ![s] = r]
             /\ UNCHANGED <<req, asked, taken>>
          \/ Complete(r) /\ HandOver(s, r)

(* handleNack(): a refusal of one of its own requests ends a fetch; one    *)
(* that finds a catalog in flight is taken for that transfer's.            *)
HandleNack(s, n) ==
    LET own == rx[s].doc = "store" /\ n.seq >= rx[s].since
        cat == rx[s].doc = "catalog" /\ n.code = "CHUNK_UNAVAILABLE"
    IN
    /\ \/ own /\ Over(s)
       \/ cat /\ OverOrAnew(s)
       \/ ~own /\ ~cat /\ UNCHANGED <<rx, req, asked>>
    /\ UNCHANGED taken

Receive(s) ==
    /\ down[s] # <<>>
    /\ LET f == Head(down[s]) IN
       \/ /\ \/ f.type = "BLOB_CHUNK" /\ HandleBlobChunk(s, f)
             \/ f.type = "NACK" /\ HandleNack(s, f)
          /\ down' = [down EXCEPT ![s] = Tail(@)]
          /\ UNCHANGED <<hub, pb>>
       \/ /\ f.type = "BLOB_CHUNK" /\ f.doc = rx[s].doc /\ OverBudget(rx[s], f)
          /\ RefuseBlob(s, f)

(* A binding without delivery guarantees: a frame is lost.                 *)
LoseFrame(s) ==
    \/ /\ req[s] # NoReq
       /\ req' = [req EXCEPT ![s] = NoReq]
       /\ UNCHANGED <<hub, pb, asked, down, rx, taken>>
    \/ \E n \in 1 .. Len(down[s]) :
         /\ down' = [down EXCEPT ![s] = RemoveAt(@, n)]
         /\ UNCHANGED <<hub, pb, req, asked, rx, taken>>

-----------------------------------------------------------------------------
Pump(s) == PumpRefuses(s) \/ \E n \in 0 .. ChunksPerTick : PumpEmits(s, n)

Documents ==
    \/ \E r \in Revisions : CatalogChanged(r)
    \/ CatalogEncodeFails
    \/ \E r \in Revisions \cup {0} : StoreMoves(r)

Session(s) ==
    \/ HandleBlobReq(s)
    \/ Pump(s)
    \/ Demote(s)
    \/ SetCongestionLevel(s)
    \/ Teardown(s)

(* Its timers and its callers find the hub and the link as they are.       *)
Client(s) ==
    /\ (\E doc \in Docs : Ask(s, doc)) \/ AskRepair(s) \/ GiveUp(s)
    /\ UNCHANGED <<hub, pb, down, taken>>

Receiver(s) == Client(s) \/ Receive(s) \/ LoseFrame(s)

Next == Documents \/ \E s \in Slots : Session(s) \/ Receiver(s)

(* update() drains every cursor, at every call.                            *)
Fairness == \A s \in Slots : WF_vars(Pump(s))

Spec == Init /\ [][Next]_vars /\ Fairness

-----------------------------------------------------------------------------
(* Type correctness; the chunks in flight and the bytes assembled stay     *)
(* within their budgets.                                                   *)
TypeOK ==
    /\ rev \in [Docs -> Revisions \cup {0}]
    /\ etag \in Revisions
    /\ allowed \in [Slots -> BOOLEAN]
    /\ congested \in [Slots -> BOOLEAN]
    /\ \A s \in Slots :
         /\ pb[s].doc \in Docs /\ pb[s].want \in Seq(Nat)
         /\ pb[s].inFlight \in 0 .. InFlightMax /\ pb[s].held \in 0 .. HoldTicks
         /\ req[s].doc \in Docs \cup {"none"} /\ req[s].want \subseteq Nat
         /\ Len(down[s]) <= LinkRoom
         /\ rx[s].count \in Nat /\ DOMAIN rx[s].got \subseteq 0 .. (rx[s].count - 1)
         /\ rx[s].total \in 0 .. MaxBytes
    /\ asked \in [Slots -> 0 .. MaxRequests]

(* One transfer sends one revision: whatever moved since the request, and  *)
(* however often the cursor was resumed, no chunk is of another document   *)
(* than the one the request was accepted for (hub_impl.hpp,                *)
(* pumpBlobTransfer(): the head of one revision is never spliced onto the  *)
(* tail of another).                                                       *)
OneRevisionPerTransfer ==
    [][\A s \in Slots : \A n \in 1 .. Len(down'[s]) :
         LET f == down'[s][n]
         IN  n > Len(down[s]) /\ f.type = "BLOB_CHUNK"
               => pb[s].active /\ f.doc = pb[s].doc /\ f.rev = pb[s].of]_vars

(* What a fetch resolves with is one revision of the item, whole, under    *)
(* its own generation, even when chunks of several transfers arrived, late *)
(* and lost, and repairs were asked for while the item changed.            *)
ItemIsWhole ==
    \A s \in Slots : taken[s] # Nothing =>
       \E r \in Revisions : taken[s] = [total |-> Size[r], gen |-> r,
                                        got |-> [i \in Indices(Size[r]) |-> r]]

(* Every transfer ends: sent to its last chunk, refused, or given up once  *)
(* the link has taken nothing for too long.                                *)
TransfersEnd == \A s \in Slots : pb[s].active ~> ~pb[s].active
=============================================================================
