--------------------------- MODULE HubBlob_proofs ---------------------------
(* What a transfer sends and what a receiver puts together, proved for     *)
(* every size of document, link, budget and number of sessions.            *)
EXTENDS HubBlob, FiniteSetTheorems, TLAPS

CursorFields == {"active", "doc", "of", "total", "gen", "want", "inFlight", "held",
                 "seq"}
RxFields     == {"doc", "since", "active", "count", "total", "gen", "got"}

(* A table with one entry per session *)
IsTable(f) == f = [s \in Slots |-> f[s]]

(* Frames are underway in a sequence; what a cursor wants, and with it the *)
(* index of a chunk, is whatever sorting the indices gives.                *)
IsQueue(q) == \E S : q \in Seq(S)

(* A chunk of the store carries the generation and the size of the         *)
(* revision its bytes are of.                                              *)
Honest(f) ==
    f.type = "BLOB_CHUNK" =>
       /\ f.doc \in Docs
       /\ f.doc = "store" => /\ f.rev \in Revisions /\ f.gen = f.rev
                             /\ f.total = Size[f.rev] /\ f.count = ChunkCount(f.total)

(* A cursor is armed for the catalog the etag names, or for the store item *)
(* of its generation.                                                      *)
Aimed(c) ==
    /\ DOMAIN c = CursorFields
    /\ c.active => /\ c.doc \in Docs
                   /\ c.doc = "catalog" => c.of = etag
                   /\ c.doc = "store" => c.of = c.gen

(* What a receiver has of a store item is all of the generation it is      *)
(* assembling.                                                             *)
Pure(r) ==
    /\ DOMAIN r = RxFields
    /\ r.active => r.doc \in Docs
    /\ r.active /\ r.doc = "store" =>
         /\ r.gen \in Revisions /\ r.total = Size[r.gen] /\ r.count = ChunkCount(r.total)
         /\ r.got = [i \in DOMAIN r.got |-> r.got[i]]
         /\ \A i \in DOMAIN r.got : r.got[i] = r.gen

Tables ==
    /\ rev \in [Docs -> Revisions \cup {0}]
    /\ IsTable(pb) /\ IsTable(req) /\ IsTable(down) /\ IsTable(rx)

(* A catalog that has bytes is the one the etag names: failing to encode   *)
(* it leaves the etag, and encoding it again with that etag changes        *)
(* nothing a cursor could notice.                                          *)
EtagIsCurrent == rev["catalog"] \in {0, etag}

CursorsAreAimed == \A s \in Slots : Aimed(pb[s])

RequestsNameDocs == \A s \in Slots : req[s] # NoReq => req[s].doc \in Docs

ChunksAreHonest ==
    \A s \in Slots : /\ IsQueue(down[s])
                     /\ \A n \in 1 .. Len(down[s]) : Honest(down[s][n])

AssembliesArePure == \A s \in Slots : Pure(rx[s])

(* OneRevisionPerTransfer rests on the first five; ItemIsWhole on the last *)
(* two and on the counts below.                                            *)
IInv ==
    /\ Tables
    /\ EtagIsCurrent
    /\ CursorsAreAimed
    /\ RequestsNameDocs
    /\ ChunksAreHonest
    /\ AssembliesArePure

------------------------------------------------------------------------------
(* Tables and queues *)

LEMMA EmptyQueue == IsQueue(<<>>) /\ Len(<<>>) = 0
<1>1. <<>> \in Seq({})
  OBVIOUS
<1>2. QED
  BY <1>1 DEF IsQueue

LEMMA QueueLen ==
  ASSUME NEW q, IsQueue(q)
  PROVE  Len(q) \in Nat
  BY DEF IsQueue

LEMMA QueueAppend ==
  ASSUME NEW q, IsQueue(q), NEW f
  PROVE  /\ IsQueue(Append(q, f)) /\ Len(Append(q, f)) = Len(q) + 1
         /\ \A n \in 1 .. Len(Append(q, f)) :
              Append(q, f)[n] = IF n > Len(q) THEN f ELSE q[n]
<1>1. PICK S : q \in Seq(S)
  BY DEF IsQueue
<1> DEFINE T == S \cup {f}
<1>2. q \in Seq(T) /\ f \in T
  BY <1>1
<1> HIDE DEF T
<1>3. Append(q, f) \in Seq(T)
  BY <1>2
<1>4. IsQueue(Append(q, f))
  BY <1>3 DEF IsQueue
<1>5. QED
  BY <1>2, <1>4

(* p is the queue q with the k frames of g after it *)
Extends(p, q, k, g) ==
    /\ IsQueue(p) /\ Len(p) = Len(q) + k
    /\ \A n \in 1 .. Len(p) : n <= Len(q) => n \in 1 .. Len(q) /\ p[n] = q[n]
    /\ \A n \in 1 .. Len(p) : n > Len(q) => \E i \in 1 .. k : p[n] = g[i]

LEMMA QueueConcat ==
  ASSUME NEW q, IsQueue(q), NEW k \in Nat, NEW R, NEW g \in [1 .. k -> R]
  PROVE  Extends(q \o g, q, k, g)
<1>1. PICK S : q \in Seq(S)
  BY DEF IsQueue
<1> DEFINE T == S \cup R
<1>2. q \in Seq(T)
  BY <1>1
<1>3. g \in Seq(T) /\ Len(g) = k
  OBVIOUS
<1> HIDE DEF T
<1>4. q \o g \in Seq(T)
  BY <1>2, <1>3
<1>5. IsQueue(q \o g)
  BY <1>4 DEF IsQueue
<1>6. /\ Len(q \o g) = Len(q) + k
      /\ \A n \in 1 .. Len(q \o g) : (q \o g)[n] = IF n > Len(q) THEN g[n - Len(q)] ELSE q[n]
  BY <1>2, <1>3
<1>7. \A n \in 1 .. Len(q \o g) : IF n > Len(q) THEN n - Len(q) \in 1 .. k
                                                 ELSE n \in 1 .. Len(q)
  BY <1>2, <1>6
<1>8. QED
  BY <1>5, <1>6, <1>7 DEF Extends

LEMMA QueueTail ==
  ASSUME NEW q, IsQueue(q), q # <<>>
  PROVE  /\ IsQueue(Tail(q)) /\ Len(Tail(q)) = Len(q) - 1 /\ Len(q) \in Nat \ {0}
         /\ Head(q) = q[1]
         /\ \A n \in 1 .. Len(Tail(q)) : n + 1 \in 1 .. Len(q) /\ Tail(q)[n] = q[n + 1]
<1>1. PICK S : q \in Seq(S)
  BY DEF IsQueue
<1>2. Tail(q) \in Seq(S)
  BY <1>1
<1>3. IsQueue(Tail(q))
  BY <1>2 DEF IsQueue
<1>4. QED
  BY <1>1, <1>3

LEMMA QueueRemove ==
  ASSUME NEW q, IsQueue(q), NEW k \in 1 .. Len(q)
  PROVE  /\ IsQueue(RemoveAt(q, k)) /\ Len(RemoveAt(q, k)) = Len(q) - 1
         /\ \A n \in 1 .. Len(RemoveAt(q, k)) :
              \E m \in 1 .. Len(q) : RemoveAt(q, k)[n] = q[m]
<1>1. PICK S : q \in Seq(S)
  BY DEF IsQueue
<1> DEFINE a == SubSeq(q, 1, k - 1)
           b == SubSeq(q, k + 1, Len(q))
<1>2. /\ a \in Seq(S) /\ Len(a) = k - 1
      /\ \A n \in 1 .. Len(a) : n \in 1 .. Len(q) /\ a[n] = q[n]
  BY <1>1
<1>3. /\ b \in Seq(S) /\ Len(b) = Len(q) - k
      /\ \A n \in 1 .. Len(b) : n + k \in 1 .. Len(q) /\ b[n] = q[n + k]
  BY <1>1
<1>4. RemoveAt(q, k) = a \o b
  BY DEF RemoveAt
<1> HIDE DEF a, b
<1>5. IsQueue(a \o b)
  <2>1. a \o b \in Seq(S)
    BY <1>2, <1>3
  <2>2. QED
    BY <2>1 DEF IsQueue
<1>6. Len(a \o b) = Len(q) - 1
  BY <1>1, <1>2, <1>3
<1>7. ASSUME NEW n \in 1 .. Len(a \o b)
      PROVE  \E m \in 1 .. Len(q) : (a \o b)[n] = q[m]
  <2>1. CASE n <= k - 1
    BY <2>1, <1>2, <1>3
  <2>2. CASE n > k - 1
    <3>1. (a \o b)[n] = b[n - (k - 1)] /\ n - (k - 1) \in 1 .. Len(b)
      BY <2>2, <1>1, <1>2, <1>3, <1>6
    <3>2. QED
      BY <3>1, <1>3
  <2>3. QED
    BY <2>1, <2>2, <1>1
<1>8. QED
  BY <1>4, <1>5, <1>6, <1>7

------------------------------------------------------------------------------
(* How a step keeps the invariant, table by table *)

LEMMA DownEdit ==
  ASSUME IInv, NEW s \in Slots, NEW q, IsQueue(q), \A n \in 1 .. Len(q) : Honest(q[n]),
         down' = [down EXCEPT ![s] = q]
  PROVE  /\ IsTable(down') /\ ChunksAreHonest'
         /\ down'[s] = q /\ \A t \in Slots : t # s => down'[t] = down[t]
<1>1. IsTable(down)
  BY DEF IInv, Tables
<1>2. /\ IsTable(down') /\ down'[s] = q
      /\ \A t \in Slots : t # s => down'[t] = down[t]
  BY <1>1 DEF IsTable
<1>3. \A t \in Slots : IsQueue(down'[t]) /\ \A n \in 1 .. Len(down'[t]) : Honest(down'[t][n])
  BY <1>2 DEF IInv, ChunksAreHonest
<1>4. QED
  BY <1>2, <1>3 DEF ChunksAreHonest

LEMMA PbEdit ==
  ASSUME IInv, NEW s \in Slots, NEW c, Aimed(c), etag' = etag,
         pb' = [pb EXCEPT ![s] = c]
  PROVE  IsTable(pb') /\ CursorsAreAimed'
<1>1. IsTable(pb)
  BY DEF IInv, Tables
<1>2. IsTable(pb') /\ pb'[s] = c /\ \A t \in Slots : t # s => pb'[t] = pb[t]
  BY <1>1 DEF IsTable
<1>3. \A t \in Slots : Aimed(pb'[t])
  BY <1>2 DEF IInv, CursorsAreAimed
<1>4. QED
  BY <1>2, <1>3 DEF CursorsAreAimed, Aimed

LEMMA ReqEdit ==
  ASSUME IInv, NEW s \in Slots, NEW r, r # NoReq => r.doc \in Docs,
         req' = [req EXCEPT ![s] = r]
  PROVE  IsTable(req') /\ RequestsNameDocs'
<1>1. IsTable(req)
  BY DEF IInv, Tables
<1>2. IsTable(req') /\ req'[s] = r /\ \A t \in Slots : t # s => req'[t] = req[t]
  BY <1>1 DEF IsTable
<1>3. QED
  BY <1>2 DEF IInv, RequestsNameDocs

LEMMA RxEdit ==
  ASSUME IInv, NEW s \in Slots, NEW r, Pure(r), rx' = [rx EXCEPT ![s] = r]
  PROVE  IsTable(rx') /\ AssembliesArePure'
<1>1. IsTable(rx)
  BY DEF IInv, Tables
<1>2. IsTable(rx') /\ rx'[s] = r /\ \A t \in Slots : t # s => rx'[t] = rx[t]
  BY <1>1 DEF IsTable
<1>3. QED
  BY <1>2 DEF IInv, AssembliesArePure

(* What a step leaves alone *)
LEMMA Unmoved ==
  ASSUME IInv
  PROVE  /\ rev' = rev => rev' \in [Docs -> Revisions \cup {0}]
         /\ rev' = rev /\ etag' = etag => EtagIsCurrent'
         /\ pb' = pb => IsTable(pb')
         /\ pb' = pb /\ etag' = etag => CursorsAreAimed'
         /\ req' = req => IsTable(req') /\ RequestsNameDocs'
         /\ down' = down => IsTable(down') /\ ChunksAreHonest'
         /\ rx' = rx => IsTable(rx') /\ AssembliesArePure'
<1>1. pb' = pb /\ etag' = etag => CursorsAreAimed'
  BY DEF IInv, CursorsAreAimed, Aimed
<1>2. QED
  BY <1>1 DEF IInv, Tables, EtagIsCurrent, RequestsNameDocs, ChunksAreHonest, AssembliesArePure

LEMMA Collect ==
  ASSUME rev' \in [Docs -> Revisions \cup {0}], EtagIsCurrent',
         IsTable(pb'), CursorsAreAimed', IsTable(req'), RequestsNameDocs',
         IsTable(down'), ChunksAreHonest', IsTable(rx'), AssembliesArePure'
  PROVE  IInv'
  BY DEF IInv, Tables, IsTable

LEMMA SaidKeeps ==
  ASSUME NEW q, IsQueue(q), \A n \in 1 .. Len(q) : Honest(q[n]), NEW code, NEW seq
  PROVE  /\ IsQueue(Said(q, code, seq)) /\ \A n \in 1 .. Len(Said(q, code, seq)) : Honest(Said(q, code, seq)[n])
         /\ \A n \in 1 .. Len(Said(q, code, seq)) :
              n > Len(q) => Said(q, code, seq)[n].type # "BLOB_CHUNK"
<1>1. Nack(code, seq).type # "BLOB_CHUNK"
  BY DEF Nack
<1>2. Honest(Nack(code, seq))
  BY <1>1 DEF Honest
<1>3. Len(q) \in Nat
  BY QueueLen
<1> DEFINE a == Append(q, Nack(code, seq))
<1>4. /\ IsQueue(a) /\ Len(a) = Len(q) + 1
      /\ \A n \in 1 .. Len(a) : a[n] = IF n > Len(q) THEN Nack(code, seq) ELSE q[n]
  BY QueueAppend
<1> HIDE DEF a
<1>5. \A n \in 1 .. Len(a) : IF n > Len(q) THEN a[n] = Nack(code, seq)
                                            ELSE n \in 1 .. Len(q) /\ a[n] = q[n]
  BY <1>3, <1>4
<1>6. \A n \in 1 .. Len(a) : Honest(a[n]) /\ (n > Len(q) => a[n].type # "BLOB_CHUNK")
  BY <1>1, <1>2, <1>5
<1>7. Said(q, code, seq) = a \/ Said(q, code, seq) = q
  BY DEF Said, a
<1>8. CASE Said(q, code, seq) = a
  BY <1>4, <1>6, <1>8
<1>9. CASE Said(q, code, seq) = q
  BY <1>3, <1>9
<1>10. QED
  BY <1>7, <1>8, <1>9

(* No step that leaves the queues alone, or edits one of them without a    *)
(* chunk, writes one.                                                      *)
NoNewChunk ==
    \A t \in Slots : \A n \in 1 .. Len(down'[t]) :
       n > Len(down[t]) => down'[t][n].type # "BLOB_CHUNK"

LEMMA NoChunkIn ==
  ASSUME IInv,
         \A t \in Slots :
            \/ down'[t] = down[t]
            \/ Len(down'[t]) \in Nat /\ Len(down'[t]) <= Len(down[t])
            \/ \A n \in 1 .. Len(down'[t]) : n > Len(down[t]) => down'[t][n].type # "BLOB_CHUNK"
  PROVE  NoNewChunk
<1>1. \A t \in Slots : Len(down[t]) \in Nat
  BY QueueLen DEF IInv, ChunksAreHonest
<1>2. QED
  BY <1>1 DEF NoNewChunk

LEMMA BlankFacts ==
    /\ DOMAIN NoCursor = CursorFields /\ ~NoCursor.active
    /\ DOMAIN NoRx = RxFields /\ ~NoRx.active
  BY DEF NoCursor, CursorFields, NoRx, RxFields

LEMMA BlankIsGood == Aimed(NoCursor) /\ Pure(NoRx)
  BY BlankFacts DEF Aimed, Pure

------------------------------------------------------------------------------
(* How a step keeps the invariant, action by action *)

LEMMA HandleBlobReqKeeps ==
  ASSUME IInv, NEW s \in Slots, HandleBlobReq(s)
  PROVE  IInv' /\ NoNewChunk
<1> DEFINE r == req[s]
           w == InOrder(IF r.want = {} THEN Indices(Size[rev[r.doc]]) ELSE r.want)
           c == [NoCursor EXCEPT
                   !.active = TRUE, !.doc = r.doc, !.of = rev[r.doc],
                   !.total = Size[rev[r.doc]], !.gen = Generation(r.doc), !.seq = r.seq,
                   !.want = w]
           q == Said(down[s], "CHUNK_UNAVAILABLE", r.seq)
<1>1. /\ r # NoReq /\ req' = [req EXCEPT ![s] = NoReq]
      /\ \/ Acceptable(s, r) /\ pb' = [pb EXCEPT ![s] = c] /\ down' = down
         \/ down' = [down EXCEPT ![s] = q] /\ pb' = pb
      /\ UNCHANGED <<hub, asked, rx, taken>>
  BY Zenon DEF HandleBlobReq
<1>2. r.doc \in Docs
  BY <1>1 DEF IInv, RequestsNameDocs
<1>3. Acceptable(s, r) => Aimed(c)
  <2> SUFFICES ASSUME Acceptable(s, r) PROVE Aimed(c)
    OBVIOUS
  <2> HIDE DEF w
  <2>1. /\ DOMAIN c = CursorFields /\ c.doc = r.doc
        /\ c.of = rev[r.doc] /\ c.gen = Generation(r.doc)
    BY DEF NoCursor, CursorFields
  <2> HIDE DEF c
  <2>2. rev[r.doc] # 0
    BY DEF Acceptable, Resolves
  <2>3. QED
    BY <1>2, <2>1, <2>2 DEF Aimed, Generation, IInv, EtagIsCurrent
<1> HIDE DEF c, q
<1>4. /\ IsQueue(q) /\ \A n \in 1 .. Len(q) : Honest(q[n])
      /\ \A n \in 1 .. Len(q) : n > Len(down[s]) => q[n].type # "BLOB_CHUNK"
  BY SaidKeeps DEF q, IInv, ChunksAreHonest
<1>5. rev' = rev /\ etag' = etag /\ rx' = rx
  BY <1>1 DEF hub
<1>6. IsTable(req') /\ RequestsNameDocs'
  BY <1>1, ReqEdit
<1>7. IsTable(pb') /\ CursorsAreAimed'
  BY <1>1, <1>3, <1>5, PbEdit, Unmoved
<1>8. IsTable(down') /\ ChunksAreHonest'
  BY <1>1, <1>4, DownEdit, Unmoved
<1>9. IInv'
  BY <1>5, <1>6, <1>7, <1>8, Unmoved, Collect
<1>10. NoNewChunk
  BY <1>1, <1>4, DownEdit, NoChunkIn
<1>11. QED
  BY <1>9, <1>10

LEMMA PumpRefusesKeeps ==
  ASSUME IInv, NEW s \in Slots, PumpRefuses(s)
  PROVE  IInv' /\ NoNewChunk
<1> DEFINE q == Said(down[s], "CHUNK_UNAVAILABLE", pb[s].seq)
<1>1. /\ pb' = [pb EXCEPT ![s] = NoCursor] /\ down' = [down EXCEPT ![s] = q]
      /\ UNCHANGED <<hub, req, asked, rx, taken>>
  BY Zenon DEF PumpRefuses
<1> HIDE DEF q
<1>2. /\ IsQueue(q) /\ \A n \in 1 .. Len(q) : Honest(q[n])
      /\ \A n \in 1 .. Len(q) : n > Len(down[s]) => q[n].type # "BLOB_CHUNK"
  BY SaidKeeps DEF q, IInv, ChunksAreHonest
<1>3. rev' = rev /\ etag' = etag /\ rx' = rx /\ req' = req
  BY <1>1 DEF hub
<1>4. IsTable(pb') /\ CursorsAreAimed'
  BY <1>1, <1>3, PbEdit, BlankIsGood
<1>5. /\ IsTable(down') /\ ChunksAreHonest' /\ down'[s] = q
      /\ \A t \in Slots : t # s => down'[t] = down[t]
  BY <1>1, <1>2, DownEdit
<1>6. IInv'
  BY <1>3, <1>4, <1>5, Unmoved, Collect
<1>7. NoNewChunk
  BY <1>2, <1>5, NoChunkIn
<1>8. QED
  BY <1>6, <1>7

(* A cursor that is resumed points into the revision it was armed for *)
LEMMA ResumedIsSame ==
  ASSUME IInv, NEW s \in Slots, pb[s].active, Resolves(s, pb[s].doc), SameDocument(pb[s])
  PROVE  pb[s].doc \in Docs /\ rev[pb[s].doc] \in Revisions /\ rev[pb[s].doc] = pb[s].of
<1>1. Aimed(pb[s]) /\ rev \in [Docs -> Revisions \cup {0}]
  BY DEF IInv, CursorsAreAimed, Tables
<1>2. pb[s].doc \in Docs /\ rev[pb[s].doc] # 0
  BY <1>1 DEF Aimed, Resolves
<1>3. CASE pb[s].doc = "catalog"
  BY <1>1, <1>2, <1>3 DEF Aimed, IInv, EtagIsCurrent
<1>4. CASE pb[s].doc = "store"
  BY <1>1, <1>2, <1>4 DEF Aimed, SameDocument, Generation
<1>5. QED
  BY <1>1, <1>2, <1>3, <1>4 DEF Docs

LEMMA ChunkFacts ==
  ASSUME NEW doc \in Docs, rev[doc] \in Revisions, NEW idx
  PROVE  /\ Honest(Chunk(doc, idx)) /\ Chunk(doc, idx).doc = doc
         /\ Chunk(doc, idx).rev = rev[doc]
<1>1. /\ Chunk(doc, idx).doc = doc /\ Chunk(doc, idx).rev = rev[doc]
      /\ Chunk(doc, idx).gen = Generation(doc) /\ Chunk(doc, idx).total = Size[rev[doc]]
      /\ Chunk(doc, idx).count = ChunkCount(Size[rev[doc]])
  BY DEF Chunk
<1>2. QED
  BY <1>1 DEF Honest, Generation

LEMMA PumpEmitsKeeps ==
  ASSUME IInv, NEW s \in Slots, NEW n \in 0 .. ChunksPerTick, PumpEmits(s, n)
  PROVE  /\ IInv'
         /\ \A t \in Slots : \A k \in 1 .. Len(down'[t]) :
              k > Len(down[t]) /\ down'[t][k].type = "BLOB_CHUNK" =>
                 pb[t].active /\ down'[t][k].doc = pb[t].doc /\ down'[t][k].rev = pb[t].of
<1> DEFINE c    == pb[s]
           sent == [k \in 1 .. n |-> Chunk(c.doc, c.want[k])]
           rest == SubSeq(c.want, n + 1, Len(c.want))
           held == HeldAfter(c, n)
           load == (IF congested[s] THEN c.inFlight ELSE 0) + n
           d    == [c EXCEPT !.want = rest, !.held = held, !.inFlight = load]
           q    == down[s]
           new  == IF rest # <<>> /\ held > HoldTicks THEN Said(q, "BUSY", c.seq) ELSE q \o sent
<1>1. /\ c.active /\ Resolves(s, c.doc) /\ SameDocument(c)
      /\ pb' = [pb EXCEPT ![s] = IF rest = <<>> \/ held > HoldTicks THEN NoCursor ELSE d]
      /\ down' = [down EXCEPT ![s] = new]
      /\ UNCHANGED <<hub, req, asked, rx, taken>>
  BY Zenon DEF PumpEmits
<1>2. c.doc \in Docs /\ rev[c.doc] \in Revisions /\ rev[c.doc] = c.of
  BY <1>1, ResumedIsSame
<1>3. Aimed(c)
  BY DEF IInv, CursorsAreAimed
<1> DEFINE R == {Chunk(c.doc, c.want[k]) : k \in 1 .. n}
<1>4. n \in Nat /\ sent \in [1 .. n -> R]
  BY BlobConstants
<1>5. \A k \in 1 .. n : Honest(sent[k]) /\ sent[k].doc = c.doc /\ sent[k].rev = c.of
  BY <1>2, ChunkFacts
<1>6. Aimed(d)
  <2> HIDE DEF rest, held, load, c
  <2>1. DOMAIN c = CursorFields
    BY <1>3 DEF Aimed
  <2>2. DOMAIN d = CursorFields /\ d.active = c.active /\ d.doc = c.doc /\ d.of = c.of /\ d.gen = c.gen
    BY <2>1 DEF CursorFields
  <2> HIDE DEF d
  <2>3. QED
    BY <2>2, <1>3 DEF Aimed
<1>7. IsQueue(q) /\ \A k \in 1 .. Len(q) : Honest(q[k])
  BY DEF IInv, ChunksAreHonest
<1> HIDE DEF sent, rest, held, d, R
<1>8. /\ IsQueue(new) /\ \A k \in 1 .. Len(new) : Honest(new[k])
      /\ \A k \in 1 .. Len(new) : k > Len(q) /\ new[k].type = "BLOB_CHUNK" =>
            new[k].doc = c.doc /\ new[k].rev = c.of
  <2> HIDE DEF q, c
  <2>1. CASE new = Said(q, "BUSY", c.seq)
    <3> HIDE DEF new
    <3>1. QED
      BY <2>1, <1>7, SaidKeeps
  <2>2. CASE new = q \o sent
    <3> HIDE DEF new
    <3>1. Extends(new, q, n, sent)
      BY <2>2, <1>4, <1>7, QueueConcat
    <3>2. Len(q) \in Nat
      BY <1>7, QueueLen
    <3>3. \A k \in 1 .. Len(new) : k <= Len(q) \/ k > Len(q)
      BY <3>1, <3>2 DEF Extends
    <3>4. QED
      BY <3>1, <3>3, <1>5, <1>7 DEF Extends
  <2>3. QED
    BY <2>1, <2>2
<1> HIDE DEF new
<1>9. rev' = rev /\ etag' = etag /\ rx' = rx /\ req' = req
  BY <1>1 DEF hub
<1>10. IsTable(pb') /\ CursorsAreAimed'
  BY <1>1, <1>6, <1>9, PbEdit, BlankIsGood
<1>11. /\ IsTable(down') /\ ChunksAreHonest' /\ down'[s] = new
       /\ \A t \in Slots : t # s => down'[t] = down[t]
  BY <1>1, <1>8, DownEdit
<1>12. IInv'
  BY <1>9, <1>10, <1>11, Unmoved, Collect
<1>13. \A t \in Slots : Len(down[t]) \in Nat
  BY QueueLen DEF IInv, ChunksAreHonest
<1>14. ASSUME NEW t \in Slots, NEW k \in 1 .. Len(down'[t]), k > Len(down[t]),
              down'[t][k].type = "BLOB_CHUNK"
       PROVE  pb[t].active /\ down'[t][k].doc = pb[t].doc /\ down'[t][k].rev = pb[t].of
  <2>1. t = s
    BY <1>11, <1>13, <1>14
  <2>2. QED
    BY <2>1, <1>1, <1>8, <1>11, <1>14
<1>15. QED
  BY <1>12, <1>14

(* The catalog that is encoded anew ends its transfers; the one that comes *)
(* back under the old etag is the one its cursors were armed for.          *)
LEMMA CatalogChangedKeeps ==
  ASSUME IInv, NEW r \in Revisions, CatalogChanged(r)
  PROVE  IInv' /\ NoNewChunk
<1> DEFINE said(s) == Said(down[s], "CHUNK_UNAVAILABLE", pb[s].seq)
           hit == {s \in Slots : pb[s].active /\ pb[s].doc = "catalog"}
<1>1. /\ rev' = [rev EXCEPT !["catalog"] = r]
      /\ UNCHANGED <<req, rx>>
      /\ \/ etag = r /\ UNCHANGED <<etag, pb, down>>
         \/ /\ etag' = r
            /\ pb' = [s \in Slots |-> IF s \in hit THEN NoCursor ELSE pb[s]]
            /\ down' = [s \in Slots |-> IF s \in hit THEN said(s) ELSE down[s]]
  BY DEF CatalogChanged, AbortCatalogTransfers
<1>2. rev' \in [Docs -> Revisions \cup {0}] /\ rev'["catalog"] = r
  BY <1>1 DEF IInv, Tables, Docs
<1>3. EtagIsCurrent'
  BY <1>1, <1>2 DEF EtagIsCurrent
<1>4. CASE etag = r /\ UNCHANGED <<etag, pb, down>>
  <2>1. IInv'
    BY <1>1, <1>2, <1>3, <1>4, Unmoved, Collect
  <2>2. QED
    BY <1>4, <2>1, NoChunkIn
<1>5. CASE /\ etag' = r
           /\ pb' = [s \in Slots |-> IF s \in hit THEN NoCursor ELSE pb[s]]
           /\ down' = [s \in Slots |-> IF s \in hit THEN said(s) ELSE down[s]]
  <2>1. \A s \in Slots : Aimed(pb[s]) /\ IsQueue(down[s])
                        /\ \A n \in 1 .. Len(down[s]) : Honest(down[s][n])
    BY DEF IInv, CursorsAreAimed, ChunksAreHonest
  <2>2. /\ IsTable(pb') /\ IsTable(down')
        /\ \A s \in Slots : /\ pb'[s] = IF s \in hit THEN NoCursor ELSE pb[s]
                            /\ down'[s] = IF s \in hit THEN said(s) ELSE down[s]
    BY <1>5 DEF IsTable
  <2>3. \A s \in Slots : /\ IsQueue(said(s)) /\ \A n \in 1 .. Len(said(s)) : Honest(said(s)[n])
                        /\ \A n \in 1 .. Len(said(s)) :
                              n > Len(down[s]) => said(s)[n].type # "BLOB_CHUNK"
    BY <2>1, SaidKeeps
  <2> HIDE DEF said
  <2>4. CursorsAreAimed'
    <3> SUFFICES ASSUME NEW s \in Slots
                 PROVE  /\ DOMAIN pb'[s] = CursorFields
                        /\ pb'[s].active => /\ pb'[s].doc \in Docs
                                            /\ pb'[s].doc = "catalog" => pb'[s].of = etag'
                                            /\ pb'[s].doc = "store" => pb'[s].of = pb'[s].gen
      BY DEF CursorsAreAimed, Aimed
    <3>1. CASE s \in hit
      BY <3>1, <2>2, BlankFacts
    <3>2. CASE s \notin hit
      BY <3>2, <2>1, <2>2 DEF Aimed
    <3>3. QED
      BY <3>1, <3>2
  <2>5. ChunksAreHonest'
    BY <2>1, <2>2, <2>3 DEF ChunksAreHonest
  <2>6. IInv'
    BY <1>1, <1>2, <1>3, <2>2, <2>4, <2>5, Unmoved, Collect
  <2>7. NoNewChunk
    BY <2>2, <2>3, NoChunkIn
  <2>8. QED
    BY <2>6, <2>7
<1>6. QED
  BY <1>1, <1>4, <1>5

LEMMA OtherDocumentsKeep ==
  ASSUME IInv, CatalogEncodeFails \/ \E r \in Revisions \cup {0} : StoreMoves(r)
  PROVE  IInv' /\ NoNewChunk
<1>1. /\ rev' \in [Docs -> Revisions \cup {0}] /\ rev'["catalog"] \in {0, rev["catalog"]}
      /\ UNCHANGED <<etag, pb, req, down, rx>>
  BY DEF CatalogEncodeFails, StoreMoves, IInv, Tables, Docs
<1>2. EtagIsCurrent'
  BY <1>1 DEF IInv, EtagIsCurrent
<1>3. IInv'
  BY <1>1, <1>2, Unmoved, Collect
<1>4. QED
  BY <1>1, <1>3, NoChunkIn

(* Demote(), SetCongestionLevel() and stuttering *)
LEMMA BystandersKeep ==
  ASSUME IInv, UNCHANGED <<rev, etag, pb, req, down, rx>>
  PROVE  IInv' /\ NoNewChunk
<1>1. IInv'
  BY Unmoved, Collect
<1>2. QED
  BY <1>1, NoChunkIn

LEMMA EndSessionKeeps ==
  ASSUME IInv, NEW s \in Slots, EndSession(s)
  PROVE  IInv' /\ NoNewChunk
<1>1. /\ pb' = [pb EXCEPT ![s] = NoCursor] /\ req' = [req EXCEPT ![s] = NoReq]
      /\ down' = [down EXCEPT ![s] = <<>>] /\ rx' = [rx EXCEPT ![s] = NoRx]
      /\ rev' = rev /\ etag' = etag
  BY DEF EndSession, hub
<1>2. IsTable(pb') /\ CursorsAreAimed' /\ IsTable(rx') /\ AssembliesArePure'
  BY <1>1, BlankIsGood, PbEdit, RxEdit
<1>3. IsTable(req') /\ RequestsNameDocs'
  BY <1>1, ReqEdit
<1>4. \A n \in 1 .. Len(<<>>) : Honest(<<>>[n])
  BY EmptyQueue
<1>5. /\ IsTable(down') /\ ChunksAreHonest' /\ down'[s] = <<>>
      /\ \A t \in Slots : t # s => down'[t] = down[t]
  BY <1>1, <1>4, EmptyQueue, DownEdit
<1>6. IInv'
  BY <1>1, <1>2, <1>3, <1>5, Unmoved, Collect
<1>7. Len(down'[s]) \in Nat /\ Len(down'[s]) <= Len(down[s])
  BY <1>5, EmptyQueue, QueueLen DEF IInv, ChunksAreHonest
<1>8. NoNewChunk
  BY <1>5, <1>7, NoChunkIn
<1>9. QED
  BY <1>6, <1>8

(* What the client's end of a session holds, after a step *)
ReceiverIsGood ==
    IsTable(req) /\ RequestsNameDocs /\ IsTable(rx) /\ AssembliesArePure

LEMMA RequestKeeps ==
  ASSUME IInv, NEW s \in Slots, NEW doc \in Docs, NEW want, Request(s, doc, want)
  PROVE  IsTable(req') /\ RequestsNameDocs'
<1> DEFINE a == [doc |-> doc, want |-> want,
                 seq |-> IF doc = "store" THEN asked'[s] ELSE 0]
<1>1. req' = [req EXCEPT ![s] = a] /\ a.doc \in Docs
  BY DEF Request
<1> HIDE DEF a
<1> QED
  BY <1>1, ReqEdit

LEMMA AskKeeps ==
  ASSUME IInv, NEW s \in Slots, NEW doc \in Docs, Ask(s, doc)
  PROVE  ReceiverIsGood'
<1>1. IsTable(req') /\ RequestsNameDocs'
  BY RequestKeeps DEF Ask
<1> DEFINE b == Awaiting(s, doc)
<1>2. rx' = [rx EXCEPT ![s] = b]
  BY DEF Ask
<1>3. DOMAIN b = RxFields /\ ~b.active
  BY DEF Awaiting, NoRx, RxFields
<1> HIDE DEF b
<1>4. Pure(b)
  BY <1>3 DEF Pure
<1> QED
  BY <1>1, <1>2, <1>4, RxEdit DEF ReceiverIsGood

LEMMA OverKeeps ==
  ASSUME IInv, NEW s \in Slots, rx' = [rx EXCEPT ![s] = NoRx], req' = req
  PROVE  ReceiverIsGood'
  BY BlankIsGood, RxEdit, Unmoved DEF ReceiverIsGood

LEMMA OverOrAnewKeeps ==
  ASSUME IInv, NEW s \in Slots, OverOrAnew(s)
  PROVE  ReceiverIsGood'
  BY OverKeeps, AskKeeps DEF OverOrAnew, Over, Docs

LEMMA ClientKeeps ==
  ASSUME IInv, NEW s \in Slots, Client(s)
  PROVE  IInv' /\ NoNewChunk
<1>1. UNCHANGED <<rev, etag, pb, down>>
  BY DEF Client, hub
<1>2. CASE AskRepair(s)
  <2>1. rx[s].doc \in Docs
    BY <1>2 DEF AskRepair, IInv, AssembliesArePure, Pure
  <2>2. Request(s, rx[s].doc, Repair(rx[s])) /\ rx' = rx
    BY <1>2 DEF AskRepair
  <2> QED
    BY <1>1, <2>1, <2>2, RequestKeeps, Unmoved, Collect, NoChunkIn
<1>3. CASE GiveUp(s)
  BY <1>1, <1>3, OverKeeps, Unmoved, Collect, NoChunkIn DEF GiveUp, ReceiverIsGood
<1>4. ASSUME NEW doc \in Docs, Ask(s, doc) PROVE IInv' /\ NoNewChunk
  BY <1>1, <1>4, AskKeeps, Unmoved, Collect, NoChunkIn DEF ReceiverIsGood
<1> QED
  BY <1>2, <1>3, <1>4 DEF Client

(* begin() starts with nothing, under the chunk's identity *)
LEMMA BeginIsPure ==
  ASSUME NEW r, NEW f, Pure(r), f.type = "BLOB_CHUNK", Honest(f), f.doc = r.doc
  PROVE  /\ Pure(Begin(r, f)) /\ Begin(r, f).active /\ Begin(r, f).doc = f.doc
         /\ Begin(r, f).gen = f.gen
<1> DEFINE b == Begin(r, f)
<1>1. DOMAIN r = RxFields
  BY DEF Pure
<1>2. /\ DOMAIN b = RxFields /\ b.active = TRUE /\ b.doc = r.doc /\ b.total = f.total
      /\ b.gen = f.gen /\ b.count = f.count /\ b.got = <<>>
  BY <1>1 DEF Begin, RxFields
<1> HIDE DEF b
<1>3. DOMAIN b.got = {} /\ b.got = [i \in DOMAIN b.got |-> b.got[i]]
  BY <1>2
<1>4. Pure(b)
  BY <1>2, <1>3 DEF Pure, Honest
<1> QED
  BY <1>2, <1>4 DEF b

(* insert() writes one more entry, of the same revision *)
LEMMA InsertIsPure ==
  ASSUME NEW r, NEW f, Pure(r), r.active => r.doc = f.doc,
         r.active /\ r.doc = "store" => r.gen = f.rev
  PROVE  Pure(Insert(r, f))
<1> DEFINE g == [i \in DOMAIN r.got \cup {f.idx} |-> IF i = f.idx THEN f.rev ELSE r.got[i]]
           d == [r EXCEPT !.got = g]
<1>1. Insert(r, f) = r \/ (r.active /\ Insert(r, f) = d)
  BY Zenon DEF Insert
<1>2. CASE r.active /\ Insert(r, f) = d
  <2>1. DOMAIN r = RxFields
    BY DEF Pure
  <2>2. /\ \A i \in DOMAIN g : g[i] = f.rev \/ (i \in DOMAIN r.got /\ g[i] = r.got[i])
        /\ g = [i \in DOMAIN g |-> g[i]]
    OBVIOUS
  <2> HIDE DEF g
  <2>3. /\ DOMAIN d = RxFields /\ d.active = r.active /\ d.doc = r.doc /\ d.gen = r.gen
        /\ d.total = r.total /\ d.count = r.count /\ d.got = g
    BY <2>1 DEF RxFields
  <2> HIDE DEF d
  <2>4. Pure(d)
    BY <2>2, <2>3, <1>2 DEF Pure
  <2>5. QED
    BY <1>2, <2>4
<1>3. QED
  BY <1>1, <1>2

LEMMA AssembleIsPure ==
  ASSUME NEW r, NEW f, Pure(r), f.type = "BLOB_CHUNK", Honest(f), f.doc = r.doc
  PROVE  Pure(Assemble(r, f))
<1>1. f.doc = "store" => f.gen = f.rev
  BY DEF Honest
<1>2. CASE Restarts(r, f)
  <2>1. Assemble(r, f) = Insert(Begin(r, f), f)
    BY <1>2 DEF Assemble
  <2>2. Pure(Insert(Begin(r, f), f))
    BY <1>1, BeginIsPure, InsertIsPure
  <2> QED
    BY <2>1, <2>2
<1>3. CASE ~Restarts(r, f)
  <2>1. Assemble(r, f) = Insert(r, f)
    BY <1>3 DEF Assemble
  <2>2. r.gen = f.gen
    BY <1>3 DEF Restarts
  <2> QED
    BY <1>1, <2>1, <2>2, InsertIsPure
<1> QED
  BY <1>2, <1>3

(* A chunk or a refusal that the client takes *)
Takes(s, f) ==
    \/ f.type = "BLOB_CHUNK" /\ HandleBlobChunk(s, f)
    \/ f.type = "NACK" /\ HandleNack(s, f)

LEMMA TakesKeep ==
  ASSUME IInv, NEW s \in Slots, NEW f, Honest(f), Takes(s, f)
  PROVE  ReceiverIsGood'
<1>0. Pure(rx[s])
  BY DEF IInv, AssembliesArePure
<1>1. CASE UNCHANGED <<rx, req>>
  BY <1>1, Unmoved DEF ReceiverIsGood
<1>2. CASE OverOrAnew(s)
  BY <1>2, OverOrAnewKeeps
<1>3. ASSUME f.type = "BLOB_CHUNK", f.doc = rx[s].doc, req' = req,
             rx' = [rx EXCEPT ![s] = Assemble(rx[s], f)]
      PROVE  ReceiverIsGood'
  <2>1. Pure(Assemble(rx[s], f))
    BY <1>0, <1>3, AssembleIsPure
  <2> QED
    BY <1>3, <2>1, RxEdit, Unmoved DEF ReceiverIsGood
<1>4. CASE f.type = "BLOB_CHUNK" /\ HandleBlobChunk(s, f)
  BY <1>1, <1>2, <1>3, <1>4 DEF HandleBlobChunk, HandOver
<1>5. CASE HandleNack(s, f)
  BY <1>1, <1>2, <1>5 DEF HandleNack, OverOrAnew
<1> QED
  BY <1>4, <1>5 DEF Takes

LEMMA ReceiveKeeps ==
  ASSUME IInv, NEW s \in Slots, Receive(s)
  PROVE  IInv' /\ NoNewChunk
<1> DEFINE q == down[s]
           f == Head(q)
<1>0. q # <<>>
  BY DEF Receive
<1>1. IsQueue(q) /\ (\A n \in 1 .. Len(q) : Honest(q[n]))
  BY DEF IInv, ChunksAreHonest
<1>2. \/ EndSession(s)
      \/ /\ down' = [down EXCEPT ![s] = Tail(q)] /\ UNCHANGED <<hub, pb>>
         /\ Takes(s, f) \/ (rx' = [rx EXCEPT ![s] = NoRx] /\ req' = req)
  BY DEF Receive, RefuseBlob, Takes
<1> HIDE DEF q
<1>3. /\ IsQueue(Tail(q)) /\ Len(Tail(q)) = Len(q) - 1 /\ Len(q) \in Nat \ {0}
      /\ f = q[1]
      /\ \A n \in 1 .. Len(Tail(q)) : n + 1 \in 1 .. Len(q) /\ Tail(q)[n] = q[n + 1]
  BY <1>0, <1>1, QueueTail
<1>4. Honest(f) /\ \A n \in 1 .. Len(Tail(q)) : Honest(Tail(q)[n])
  BY <1>1, <1>3
<1> HIDE DEF f
<1>5. ASSUME down' = [down EXCEPT ![s] = Tail(q)], UNCHANGED <<hub, pb>>,
             Takes(s, f) \/ (rx' = [rx EXCEPT ![s] = NoRx] /\ req' = req)
      PROVE  IInv' /\ NoNewChunk
  <2>1. ReceiverIsGood'
    BY <1>4, <1>5, TakesKeep, OverKeeps
  <2>2. /\ IsTable(down') /\ ChunksAreHonest' /\ down'[s] = Tail(q)
        /\ \A t \in Slots : t # s => down'[t] = down[t]
    BY <1>3, <1>4, <1>5, DownEdit
  <2>3. rev' = rev /\ etag' = etag /\ pb' = pb
    BY <1>5 DEF hub
  <2>4. IInv'
    BY <2>1, <2>2, <2>3, Unmoved, Collect DEF ReceiverIsGood
  <2>5. Len(down'[s]) \in Nat /\ Len(down'[s]) <= Len(down[s])
    BY <1>3, <2>2 DEF q
  <2> QED
    BY <2>2, <2>4, <2>5, NoChunkIn
<1> QED
  BY <1>2, <1>5, EndSessionKeeps

LEMMA LoseFrameKeeps ==
  ASSUME IInv, NEW s \in Slots, LoseFrame(s)
  PROVE  IInv' /\ NoNewChunk
<1>1. CASE req' = [req EXCEPT ![s] = NoReq] /\ UNCHANGED <<hub, pb, asked, down, rx, taken>>
  <2>1. IsTable(req') /\ RequestsNameDocs'
    BY <1>1, ReqEdit
  <2>2. IInv'
    BY <1>1, <2>1, Unmoved, Collect DEF hub
  <2>3. QED
    BY <1>1, <2>2, NoChunkIn
<1>2. CASE \E n \in 1 .. Len(down[s]) : /\ down' = [down EXCEPT ![s] = RemoveAt(@, n)]
                                       /\ UNCHANGED <<hub, pb, req, asked, rx, taken>>
  <2> DEFINE q == down[s]
  <2>1. PICK n \in 1 .. Len(q) : /\ down' = [down EXCEPT ![s] = RemoveAt(q, n)]
                                 /\ UNCHANGED <<hub, pb, req, asked, rx, taken>>
    BY <1>2
  <2>2. IsQueue(q) /\ \A k \in 1 .. Len(q) : Honest(q[k])
    BY DEF IInv, ChunksAreHonest
  <2> DEFINE p == RemoveAt(q, n)
  <2>3. /\ IsQueue(p) /\ Len(p) = Len(q) - 1
        /\ \A k \in 1 .. Len(p) : \E m \in 1 .. Len(q) : p[k] = q[m]
    BY <2>2, QueueRemove
  <2>4. Len(q) \in Nat \ {0}
    BY <2>1, <2>2, QueueLen
  <2> HIDE DEF p
  <2>5. \A k \in 1 .. Len(p) : Honest(p[k])
    BY <2>2, <2>3
  <2>6. /\ IsTable(down') /\ ChunksAreHonest' /\ down'[s] = p
        /\ \A t \in Slots : t # s => down'[t] = down[t]
    BY <2>1, <2>3, <2>5, DownEdit DEF p
  <2>7. IInv'
    BY <2>1, <2>6, Unmoved, Collect DEF hub
  <2>8. Len(down'[s]) \in Nat /\ Len(down'[s]) <= Len(down[s])
    BY <2>3, <2>4, <2>6
  <2>9. QED
    BY <2>6, <2>7, <2>8, NoChunkIn
<1>3. QED
  BY <1>1, <1>2 DEF LoseFrame

LEMMA InitHolds == Init => IInv
<1> SUFFICES ASSUME Init PROVE IInv
  OBVIOUS
<1>1. Tables
  BY BlobConstants DEF Init, Tables, IsTable
<1>2. EtagIsCurrent
  BY DEF Init, EtagIsCurrent, Docs
<1>3. CursorsAreAimed /\ AssembliesArePure
  BY BlankIsGood DEF Init, CursorsAreAimed, AssembliesArePure
<1>4. RequestsNameDocs
  BY DEF Init, RequestsNameDocs
<1>5. ChunksAreHonest
  BY EmptyQueue DEF Init, ChunksAreHonest
<1>6. QED
  BY <1>1, <1>2, <1>3, <1>4, <1>5 DEF IInv

(* A step writes chunks only where PumpEmits does *)
OwnChunks ==
    \A s \in Slots : \A n \in 1 .. Len(down'[s]) :
       LET f == down'[s][n]
       IN  n > Len(down[s]) /\ f.type = "BLOB_CHUNK"
             => pb[s].active /\ f.doc = pb[s].doc /\ f.rev = pb[s].of

LEMMA NextKeeps == IInv /\ [Next]_vars => IInv' /\ OwnChunks
<1> SUFFICES ASSUME IInv, [Next]_vars PROVE IInv' /\ OwnChunks
  OBVIOUS
<1>0. NoNewChunk => OwnChunks
  BY DEF NoNewChunk, OwnChunks
<1>1. CASE UNCHANGED vars
  BY <1>0, <1>1, BystandersKeep DEF vars
<1>2. CASE Documents
  BY <1>0, <1>2, CatalogChangedKeeps, OtherDocumentsKeep DEF Documents
<1>3. ASSUME NEW s \in Slots, Session(s) PROVE IInv' /\ OwnChunks
  <2>1. CASE HandleBlobReq(s)
    BY <1>0, <2>1, HandleBlobReqKeeps
  <2>2. CASE PumpRefuses(s)
    BY <1>0, <2>2, PumpRefusesKeeps
  <2>3. ASSUME NEW n \in 0 .. ChunksPerTick, PumpEmits(s, n) PROVE IInv' /\ OwnChunks
    BY <2>3, PumpEmitsKeeps DEF OwnChunks
  <2>4. CASE Demote(s) \/ SetCongestionLevel(s)
    BY <1>0, <2>4, BystandersKeep DEF Demote, SetCongestionLevel
  <2>5. CASE Teardown(s)
    BY <1>0, <2>5, EndSessionKeeps DEF Teardown
  <2>6. QED
    BY <1>3, <2>1, <2>2, <2>3, <2>4, <2>5 DEF Session, Pump
<1>4. ASSUME NEW s \in Slots, Receiver(s) PROVE IInv' /\ OwnChunks
  <2>1. CASE Client(s)
    BY <1>0, <2>1, ClientKeeps
  <2>2. CASE Receive(s)
    BY <1>0, <2>2, ReceiveKeeps
  <2>3. CASE LoseFrame(s)
    BY <1>0, <2>3, LoseFrameKeeps
  <2>4. QED
    BY <1>4, <2>1, <2>2, <2>3 DEF Receiver
<1>5. QED
  BY <1>1, <1>2, <1>3, <1>4 DEF Next

------------------------------------------------------------------------------
(* What a transfer sends *)

(* pumpBlobTransfer() never splices the tail of one revision onto the head *)
(* of another: what it writes is of the revision handleBlobReq() accepted. *)
THEOREM OneRevisionHolds == Spec => OneRevisionPerTransfer
<1>1. IInv /\ [Next]_vars => [OwnChunks]_vars
  BY NextKeeps
<1>2. QED
  BY <1>1, InitHolds, NextKeeps, PTL DEF Spec, OneRevisionPerTransfer, OwnChunks

------------------------------------------------------------------------------
(* Types and budgets                                                       *)

(* How many of S are not above x *)
Rank(S, x) == Cardinality({y \in S : y <= x})

(* Going up by one chunk goes up in rank, within the number of chunks. *)
LEMMA RankRises ==
  ASSUME NEW S \in SUBSET Nat, IsFiniteSet(S)
  PROVE  /\ Cardinality(S) \in Nat
         /\ \A x \in S : Rank(S, x) \in 1 .. Cardinality(S)
         /\ \A x, y \in S : x < y => Rank(S, x) < Rank(S, y)
<1>1. Cardinality(S) \in Nat
  BY FS_CardinalityType
<1>2. ASSUME NEW x \in S
      PROVE  /\ IsFiniteSet({y \in S : y <= x})
             /\ Rank(S, x) \in Nat /\ 1 <= Rank(S, x) /\ Rank(S, x) <= Cardinality(S)
  <2> DEFINE B == {y \in S : y <= x}
  <2>1. B \in SUBSET S /\ x \in B
    OBVIOUS
  <2>2. Rank(S, x) = Cardinality(B)
    BY DEF Rank
  <2> HIDE DEF B
  <2>3. IsFiniteSet(B) /\ Cardinality(B) <= Cardinality(S) /\ Cardinality(B) \in Nat
    BY <2>1, FS_Subset, FS_CardinalityType
  <2>4. Cardinality(B) # 0
    BY <2>1, <2>3, FS_EmptySet
  <2>5. 1 <= Cardinality(B)
    BY <2>3, <2>4
  <2> QED
    BY <2>2, <2>3, <2>5 DEF B
<1>3. ASSUME NEW x \in S, NEW y \in S, x < y
      PROVE  Rank(S, x) < Rank(S, y)
  <2> DEFINE A == {z \in S : z <= x}
             B == {z \in S : z <= y}
  <2>1. A \in SUBSET B /\ y \in B /\ y \notin A
    <3>1. x \in Nat /\ y \in Nat /\ x < y
      BY <1>3
    <3>2. \A z \in S : z \in Nat /\ (z <= x => z <= y)
      BY <3>1
    <3>3. ~(y <= x) /\ y <= y
      BY <3>1
    <3> QED
      BY <3>2, <3>3
  <2>2. IsFiniteSet(B) /\ Rank(S, x) = Cardinality(A) /\ Rank(S, y) = Cardinality(B)
    BY <1>2 DEF Rank
  <2>3. Rank(S, x) \in Nat /\ Rank(S, y) \in Nat
    BY <1>2
  <2> HIDE DEF A, B
  <2>4. Cardinality(A) <= Cardinality(B) /\ (Cardinality(B) = Cardinality(A) => B = A)
    BY <2>1, <2>2, FS_Subset
  <2> QED
    BY <2>1, <2>2, <2>3, <2>4
<1>4. ASSUME NEW x \in S PROVE Rank(S, x) \in 1 .. Cardinality(S)
  <2>1. Rank(S, x) \in Nat /\ 1 <= Rank(S, x) /\ Rank(S, x) <= Cardinality(S)
    BY <1>2
  <2> QED
    BY <1>1, <2>1
<1> QED
  BY <1>1, <1>3, <1>4

(* There is an order for the chunks to go out in: every one of them once,  *)
(* each after the lower ones.                                              *)
LEMMA InOrderIs ==
  ASSUME NEW S \in SUBSET Nat, IsFiniteSet(S)
  PROVE  /\ Cardinality(S) \in Nat
         /\ InOrder(S) \in [1 .. Cardinality(S) -> S]
         /\ \A i, j \in 1 .. Cardinality(S) : i < j => InOrder(S)[i] < InOrder(S)[j]
<1> DEFINE k == Cardinality(S)
           R == [x \in S |-> Rank(S, x)]
           f == [i \in 1 .. k |-> CHOOSE x \in S : R[x] = i]
<1>1. k \in Nat /\ R \in [S -> 1 .. k] /\ \A x, y \in S : x < y => R[x] < R[y]
  BY RankRises
<1>2. IsFiniteSet(1 .. k) /\ Cardinality(1 .. k) = k
  <2>1. IsFiniteSet(1 .. k) /\ Cardinality(1 .. k) = IF 1 > k THEN 0 ELSE k - 1 + 1
    BY <1>1, FS_Interval
  <2> QED
    BY <1>1, <2>1
<1> HIDE DEF R
<1>3. \A x, y \in S : R[x] = R[y] => x = y
  <2> SUFFICES ASSUME NEW x \in S, NEW y \in S, R[x] = R[y] PROVE x = y
    OBVIOUS
  <2>1. x \in Nat /\ y \in Nat /\ R[x] \in Nat /\ R[y] \in Nat
    BY <1>1
  <2> QED
    BY <1>1, <2>1
<1>4. R \in Injection(S, 1 .. k)
  BY <1>1, <1>3 DEF Injection, IsInjective
<1>5. R \in Surjection(S, 1 .. k)
  BY <1>2, <1>4, FS_Injection DEF k
<1>6. \A i \in 1 .. k : \E x \in S : R[x] = i
  BY <1>5 DEF Surjection
<1> HIDE DEF k
<1>7. \A i \in 1 .. k : f[i] \in S /\ R[f[i]] = i
  BY <1>6
<1>8. f \in [1 .. k -> S]
  BY <1>7
<1> HIDE DEF f
<1>9. ASSUME NEW i \in 1 .. k, NEW j \in 1 .. k, i < j
      PROVE  f[i] < f[j]
  <2>1. f[i] \in S /\ f[j] \in S /\ f[i] \in Nat /\ f[j] \in Nat /\ R[f[i]] = i /\ R[f[j]] = j
    BY <1>7
  <2>2. ~(f[j] < f[i]) /\ f[j] # f[i]
    BY <1>1, <1>9, <2>1
  <2> QED
    BY <2>1, <2>2
<1>10. \A i, j \in DOMAIN f : i < j => f[i] < f[j]
  BY <1>8, <1>9
<1>11. /\ InOrder(S) \in [1 .. k -> S]
       /\ \A i, j \in DOMAIN InOrder(S) : i < j => InOrder(S)[i] < InOrder(S)[j]
  <2> DEFINE P(g) == \A i, j \in DOMAIN g : i < j => g[i] < g[j]
  <2>1. \E g \in [1 .. k -> S] : P(g)
    BY <1>8, <1>10
  <2>2. InOrder(S) = CHOOSE g \in [1 .. k -> S] : P(g)
    BY DEF InOrder, k
  <2> HIDE DEF P
  <2>3. InOrder(S) \in [1 .. k -> S] /\ P(InOrder(S))
    BY <2>1, <2>2
  <2> QED
    BY <2>3 DEF P
<1> QED
  BY <1>1, <1>11 DEF k

(* A document has a number of chunks, and the same number of indices *)
LEMMA CountIs ==
  ASSUME NEW t \in Nat \ {0}
  PROVE  /\ ChunkCount(t) \in Nat
         /\ Indices(t) \subseteq Nat /\ IsFiniteSet(Indices(t))
<1>1. ChunkCount(t) \in Nat
  <2>1. PICK p \in Nat \ {0} : p = Payload
    BY BlobConstants
  <2>2. t + p - 1 \in Nat
    OBVIOUS
  <2>3. \A n \in Nat : n \div p \in Nat
    OBVIOUS
  <2> QED
    BY <2>1, <2>2, <2>3 DEF ChunkCount
<1>2. PICK k \in Nat : k = ChunkCount(t)
  BY <1>1
<1>3. Indices(t) = 0 .. (k - 1)
  BY <1>2 DEF Indices
<1>4. IsFiniteSet(0 .. (k - 1)) /\ 0 .. (k - 1) \subseteq Nat
  BY FS_Interval
<1> QED
  BY <1>1, <1>3, <1>4

(* The smallest of three *)
LEMMA MinOfThree ==
  ASSUME NEW a \in Int, NEW b \in Int, NEW c \in Int, NEW m, m = Min({a, b, c})
  PROVE  m \in Int /\ m <= a /\ m <= b /\ m <= c
<1>1. \E x \in {a, b, c} : \A y \in {a, b, c} : x =< y
  <2>1. CASE a <= b /\ a <= c
    BY <2>1
  <2>2. CASE b <= a /\ b <= c
    BY <2>2
  <2>3. CASE c <= a /\ c <= b
    BY <2>3
  <2> QED
    BY <2>1, <2>2, <2>3
<1>2. m \in {a, b, c} /\ \A y \in {a, b, c} : m =< y
  BY <1>1 DEF Min
<1> QED
  BY <1>2

(* The parts of the type invariant, one per table *)
CursorFits(c) ==
    /\ c.doc \in Docs /\ c.want \in Seq(Nat)
    /\ c.inFlight \in 0 .. InFlightMax /\ c.held \in 0 .. HoldTicks

RequestFits(r) == r.doc \in Docs \cup {"none"} /\ r.want \subseteq Nat

(* A chunk says where it belongs in numbers *)
FrameFits(f) ==
    f.type = "BLOB_CHUNK" => f.count \in Nat /\ f.idx \in Nat /\ f.total \in Nat

QueueFits(q) == Len(q) <= LinkRoom /\ \A n \in 1 .. Len(q) : FrameFits(q[n])

AssemblyFits(r) ==
    /\ r.count \in Nat /\ r.total \in 0 .. MaxBytes
    /\ DOMAIN r.got \subseteq 0 .. (r.count - 1)

HubFits ==
    /\ etag \in Revisions
    /\ allowed \in [Slots -> BOOLEAN] /\ congested \in [Slots -> BOOLEAN]

AskedFits == asked \in [Slots -> 0 .. MaxRequests]

CursorsFit    == \A s \in Slots : CursorFits(pb[s])
RequestsFit   == \A s \in Slots : RequestFits(req[s])
QueuesFit     == \A s \in Slots : QueueFits(down[s])
AssembliesFit == \A s \in Slots : AssemblyFits(rx[s])

Fits == HubFits /\ CursorsFit /\ RequestsFit /\ AskedFits /\ QueuesFit /\ AssembliesFit

(* No transfer, no request and no document fit anywhere *)
LEMMA BlanksFit == CursorFits(NoCursor) /\ RequestFits(NoReq) /\ AssemblyFits(NoRx)
<1>1. CursorFits(NoCursor)
  <2>1. /\ NoCursor.doc = "catalog" /\ NoCursor.want = <<>>
        /\ NoCursor.inFlight = 0 /\ NoCursor.held = 0
    BY DEF NoCursor
  <2>2. 0 \in 0 .. InFlightMax /\ 0 \in 0 .. HoldTicks /\ <<>> \in Seq(Nat)
    BY BlobConstants
  <2> QED
    BY <2>1, <2>2 DEF CursorFits, Docs
<1>2. RequestFits(NoReq)
  BY DEF RequestFits, NoReq
<1>3. AssemblyFits(NoRx)
  <2>1. NoRx.count = 0 /\ NoRx.total = 0 /\ DOMAIN NoRx.got = {}
    BY DEF NoRx
  <2>2. 0 \in 0 .. MaxBytes
    BY BlobConstants
  <2> QED
    BY <2>1, <2>2 DEF AssemblyFits
<1> QED
  BY <1>1, <1>2, <1>3

(* A refusal is written where there is room *)
LEMMA SaidFits ==
  ASSUME NEW q, IsQueue(q), QueueFits(q), NEW code, NEW seq
  PROVE  QueueFits(Said(q, code, seq))
<1>1. CASE Len(q) < LinkRoom
  <2> DEFINE a == Append(q, Nack(code, seq))
  <2>1. /\ Len(a) = Len(q) + 1
        /\ \A n \in 1 .. Len(a) : a[n] = IF n > Len(q) THEN Nack(code, seq) ELSE q[n]
    BY QueueAppend
  <2>2. Len(q) \in Nat /\ LinkRoom \in Nat
    BY QueueLen, BlobConstants
  <2>3. FrameFits(Nack(code, seq))
    BY DEF FrameFits, Nack
  <2>4. Said(q, code, seq) = a
    BY <1>1 DEF Said
  <2> HIDE DEF a
  <2>5. Len(a) <= LinkRoom
    BY <1>1, <2>1, <2>2
  <2>6. ASSUME NEW n \in 1 .. Len(a) PROVE FrameFits(a[n])
    <3>1. CASE n > Len(q)
      BY <3>1, <2>1, <2>3
    <3>2. CASE ~(n > Len(q))
      <4>1. n \in 1 .. Len(q) /\ a[n] = q[n]
        BY <3>2, <2>1, <2>2
      <4> QED
        BY <4>1 DEF QueueFits
    <3> QED
      BY <3>1, <3>2
  <2> QED
    BY <2>4, <2>5, <2>6 DEF QueueFits
<1>2. CASE ~(Len(q) < LinkRoom)
  BY <1>2 DEF Said
<1> QED
  BY <1>1, <1>2

(* handleBlobReq(): the cursor is armed for chunks of the document *)
LEMMA HandleBlobReqFits ==
  ASSUME IInv, Fits, NEW s \in Slots, HandleBlobReq(s)
  PROVE  CursorsFit' /\ RequestsFit' /\ QueuesFit'
<1> DEFINE r == req[s]
           S == IF r.want = {} THEN Indices(Size[rev[r.doc]]) ELSE r.want
           w == InOrder(S)
           c == [NoCursor EXCEPT
                   !.active = TRUE, !.doc = r.doc, !.of = rev[r.doc],
                   !.total = Size[rev[r.doc]], !.gen = Generation(r.doc), !.seq = r.seq,
                   !.want = w]
           q == Said(down[s], "CHUNK_UNAVAILABLE", r.seq)
<1>1. /\ r # NoReq /\ req' = [req EXCEPT ![s] = NoReq]
      /\ \/ Acceptable(s, r) /\ pb' = [pb EXCEPT ![s] = c] /\ down' = down
         \/ down' = [down EXCEPT ![s] = q] /\ pb' = pb
  BY Zenon DEF HandleBlobReq
<1>2. IsTable(pb) /\ IsTable(req) /\ IsTable(down) /\ rev \in [Docs -> Revisions \cup {0}]
  BY DEF IInv, Tables
<1>3. r.doc \in Docs
  BY <1>1 DEF IInv, RequestsNameDocs
<1>4. Acceptable(s, r) => CursorFits(c)
  <2> SUFFICES ASSUME Acceptable(s, r) PROVE CursorFits(c)
    OBVIOUS
  <2>1. rev[r.doc] # 0 /\ r.want \subseteq Indices(Size[rev[r.doc]])
    BY DEF Acceptable, Resolves
  <2>2. rev[r.doc] \in Revisions
    BY <1>2, <1>3, <2>1
  <2>3. PICK t \in Nat \ {0} : t = Size[rev[r.doc]]
    BY <2>2, BlobConstants
  <2>4. Indices(t) \subseteq Nat /\ IsFiniteSet(Indices(t))
    BY CountIs
  <2>5. S \subseteq Indices(t)
    BY <2>1, <2>3
  <2> HIDE DEF S
  <2>6. S \in SUBSET Nat /\ IsFiniteSet(S)
    BY <2>4, <2>5, FS_Subset
  <2>7. Cardinality(S) \in Nat /\ w \in [1 .. Cardinality(S) -> S]
    BY <2>6, InOrderIs
  <2> HIDE DEF w
  <2>8. w \in Seq(Nat)
    <3>1. PICK k \in Nat : k = Cardinality(S)
      BY <2>7
    <3>2. w \in [1 .. k -> Nat]
      BY <2>6, <2>7, <3>1
    <3> QED
      BY <3>2
  <2>9. c.doc = r.doc /\ c.want = w /\ c.inFlight = 0 /\ c.held = 0
    BY DEF NoCursor
  <2> HIDE DEF c
  <2>10. 0 \in 0 .. InFlightMax /\ 0 \in 0 .. HoldTicks
    BY BlobConstants
  <2> QED
    BY <1>3, <2>8, <2>9, <2>10 DEF CursorFits
<1> HIDE DEF c, q
<1>5. QueueFits(q)
  BY SaidFits DEF q, IInv, ChunksAreHonest, Fits, QueuesFit
<1>6. RequestsFit'
  <2>1. req'[s] = NoReq /\ \A t \in Slots : t # s => req'[t] = req[t]
    BY <1>1, <1>2 DEF IsTable
  <2> QED
    BY <2>1, BlanksFit DEF Fits, RequestsFit
<1>7. CursorsFit'
  <2>1. CASE pb' = pb
    BY <2>1 DEF Fits, CursorsFit
  <2>2. CASE Acceptable(s, r) /\ pb' = [pb EXCEPT ![s] = c]
    <3>1. pb'[s] = c /\ \A t \in Slots : t # s => pb'[t] = pb[t]
      BY <1>2, <2>2 DEF IsTable
    <3> QED
      BY <1>4, <2>2, <3>1 DEF Fits, CursorsFit
  <2> QED
    BY <1>1, <2>1, <2>2
<1>8. QueuesFit'
  <2>1. CASE down' = down
    BY <2>1 DEF Fits, QueuesFit
  <2>2. CASE down' = [down EXCEPT ![s] = q]
    <3>1. down'[s] = q /\ \A t \in Slots : t # s => down'[t] = down[t]
      BY <1>2, <2>2 DEF IsTable
    <3> QED
      BY <1>5, <3>1 DEF Fits, QueuesFit
  <2> QED
    BY <1>1, <2>1, <2>2
<1> QED
  BY <1>6, <1>7, <1>8

(* The budget of an update, and of a congested link, leaves the chunks in  *)
(* flight within InFlightMax; the stall clock ends the transfer in time.   *)
LEMMA CreditFits ==
  ASSUME NEW s \in Slots, CursorFits(pb[s]), NEW n \in Nat, n <= Credit(s)
  PROVE  /\ n <= Len(pb[s].want)
         /\ (IF congested[s] THEN pb[s].inFlight ELSE 0) + n \in 0 .. InFlightMax
<1>1. PICK f \in Int : f = pb[s].inFlight /\ 0 <= f /\ f <= InFlightMax
  BY DEF CursorFits
<1>2. PICK k \in Nat : k = Len(pb[s].want)
  BY DEF CursorFits
<1>3. ChunksPerTick \in Nat /\ InFlightMax \in Nat /\ ChunksPerTick <= InFlightMax
  BY BlobConstants
<1>4. CASE congested[s]
  <2> DEFINE l == IF f >= InFlightMax THEN 0 ELSE InFlightMax - f
  <2>1. l \in Int /\ f + l <= InFlightMax
    BY <1>1, <1>3
  <2>2. Credit(s) = Min({ChunksPerTick, l, k})
    BY <1>1, <1>2, <1>4 DEF Credit
  <2> HIDE DEF l
  <2>3. ChunksPerTick \in Int /\ l \in Int /\ k \in Int
    BY <1>3, <2>1
  <2>4. Credit(s) \in Int /\ Credit(s) <= l /\ Credit(s) <= k
    BY <2>2, <2>3, MinOfThree
  <2>5. n <= l /\ n <= k
    BY <2>1, <2>4
  <2>6. f + n \in 0 .. InFlightMax
    BY <1>1, <1>3, <2>1, <2>5
  <2> QED
    BY <1>1, <1>2, <1>4, <2>5, <2>6
<1>5. CASE ~congested[s]
  <2>1. Credit(s) = Min({ChunksPerTick, ChunksPerTick, k})
    BY <1>2, <1>5 DEF Credit
  <2>2. ChunksPerTick \in Int /\ k \in Int
    BY <1>3
  <2>3. Credit(s) \in Int /\ Credit(s) <= ChunksPerTick /\ Credit(s) <= k
    BY <2>1, <2>2, MinOfThree
  <2>4. n <= ChunksPerTick /\ n <= k
    BY <1>3, <2>3
  <2>5. 0 + n \in 0 .. InFlightMax
    BY <1>3, <2>4
  <2> QED
    BY <1>2, <1>5, <2>4, <2>5
<1> QED
  BY <1>4, <1>5

(* pumpBlobTransfer(): what goes out has numbers and room, and what is     *)
(* left of the cursor is within the budgets.                               *)
LEMMA PumpEmitsFits ==
  ASSUME IInv, Fits, NEW s \in Slots, NEW n \in 0 .. ChunksPerTick, PumpEmits(s, n)
  PROVE  CursorsFit' /\ QueuesFit'
<1> DEFINE c    == pb[s]
           sent == [k \in 1 .. n |-> Chunk(c.doc, c.want[k])]
           rest == SubSeq(c.want, n + 1, Len(c.want))
           held == HeldAfter(c, n)
           load == (IF congested[s] THEN c.inFlight ELSE 0) + n
           d    == [c EXCEPT !.want = rest, !.held = held, !.inFlight = load]
           q    == down[s]
           new  == IF rest # <<>> /\ held > HoldTicks THEN Said(q, "BUSY", c.seq) ELSE q \o sent
           e    == IF rest = <<>> \/ held > HoldTicks THEN NoCursor ELSE d
<1>1. /\ c.active /\ Resolves(s, c.doc) /\ SameDocument(c)
      /\ n <= Credit(s) /\ Len(q) + n <= LinkRoom
      /\ pb' = [pb EXCEPT ![s] = e]
      /\ down' = [down EXCEPT ![s] = new]
  BY Zenon DEF PumpEmits
<1>2. /\ IsTable(pb) /\ IsTable(down) /\ CursorFits(c) /\ IsQueue(q) /\ QueueFits(q)
      /\ DOMAIN c = CursorFields
  BY DEF IInv, Tables, Fits, CursorsFit, QueuesFit, ChunksAreHonest, CursorsAreAimed, Aimed
<1>3. n \in Nat
  BY BlobConstants
<1>4. n <= Len(c.want) /\ load \in 0 .. InFlightMax /\ c.want \in Seq(Nat)
  BY <1>1, <1>2, <1>3, CreditFits DEF CursorFits
<1>5. CursorFits(e)
  <2>1. CASE e = NoCursor
    <3> HIDE DEF e
    <3> QED
      BY <2>1, BlanksFit
  <2>2. CASE ~(rest = <<>> \/ held > HoldTicks)
    <3>1. rest \in Seq(Nat)
      BY <1>3, <1>4
    <3>2. held \in 0 .. HoldTicks
      <4>1. c.held \in 0 .. HoldTicks /\ HoldTicks \in Nat
        BY <1>2, BlobConstants DEF CursorFits
      <4>2. held \in Nat
        BY <4>1 DEF HeldAfter
      <4> HIDE DEF held
      <4> QED
        BY <2>2, <4>1, <4>2
    <3> HIDE DEF rest, held, load
    <3>3. d.doc = c.doc /\ d.want = rest /\ d.held = held /\ d.inFlight = load
      <4> HIDE DEF c
      <4> QED
        BY <1>2 DEF CursorFields
    <3>4. e = d
      BY <2>2
    <3> HIDE DEF d, e
    <3>5. CursorFits(d)
      BY <1>2, <1>4, <3>1, <3>2, <3>3 DEF CursorFits
    <3> QED
      BY <3>4, <3>5
  <2> QED
    BY <2>1, <2>2
<1>6. QueueFits(new)
  <2>1. CASE rest # <<>> /\ held > HoldTicks
    <3>1. new = Said(q, "BUSY", c.seq)
      BY <2>1
    <3> HIDE DEF new
    <3> QED
      BY <1>2, <3>1, SaidFits
  <2>2. CASE ~(rest # <<>> /\ held > HoldTicks)
    <3> DEFINE R == {Chunk(c.doc, c.want[k]) : k \in 1 .. n}
    <3>1. sent \in [1 .. n -> R]
      OBVIOUS
    <3>2. PICK z \in Nat \ {0} : z = Size[rev[c.doc]]
      BY <1>1, ResumedIsSame, BlobConstants
    <3>3. \A k \in 1 .. n : FrameFits(sent[k])
      <4> SUFFICES ASSUME NEW k \in 1 .. n PROVE FrameFits(sent[k])
        OBVIOUS
      <4>1. c.want[k] \in Nat
        BY <1>3, <1>4
      <4>2. ChunkCount(z) \in Nat
        BY CountIs
      <4>3. sent[k].count = ChunkCount(z) /\ sent[k].idx = c.want[k] /\ sent[k].total = z
        BY <3>2 DEF Chunk
      <4> QED
        BY <4>1, <4>2, <4>3 DEF FrameFits
    <3>4. new = q \o sent
      BY <2>2
    <3> HIDE DEF new, sent, R, q
    <3>5. Extends(new, q, n, sent)
      BY <1>2, <1>3, <3>1, <3>4, QueueConcat
    <3>6. Len(q) \in Nat
      BY <1>2, QueueLen
    <3>7. \A k \in 1 .. Len(new) : k <= Len(q) \/ k > Len(q)
      BY <3>5, <3>6 DEF Extends
    <3>8. \A k \in 1 .. Len(new) : FrameFits(new[k])
      BY <1>2, <3>3, <3>5, <3>7 DEF Extends, QueueFits
    <3>9. Len(new) <= LinkRoom
      BY <1>1, <3>5 DEF Extends
    <3> QED
      BY <3>8, <3>9 DEF QueueFits
  <2> QED
    BY <2>1, <2>2
<1> HIDE DEF e, new
<1>7. CursorsFit'
  <2>1. pb'[s] = e /\ \A t \in Slots : t # s => pb'[t] = pb[t]
    BY <1>1, <1>2 DEF IsTable
  <2> QED
    BY <1>5, <2>1 DEF Fits, CursorsFit
<1>8. QueuesFit'
  <2>1. down'[s] = new /\ \A t \in Slots : t # s => down'[t] = down[t]
    BY <1>1, <1>2 DEF IsTable
  <2> QED
    BY <1>6, <2>1 DEF Fits, QueuesFit
<1> QED
  BY <1>7, <1>8

(* The steps that end transfers without a chunk *)
LEMMA RefusalsFit ==
  ASSUME IInv, Fits, AbortCatalogTransfers \/ \E s \in Slots : PumpRefuses(s)
  PROVE  CursorsFit' /\ QueuesFit'
<1>0. IsTable(pb) /\ IsTable(down)
  BY DEF IInv, Tables
<1>1. \A t \in Slots : /\ CursorFits(pb[t]) /\ QueueFits(down[t])
                       /\ QueueFits(Said(down[t], "CHUNK_UNAVAILABLE", pb[t].seq))
  BY SaidFits DEF IInv, ChunksAreHonest, Fits, CursorsFit, QueuesFit
<1>2. ASSUME NEW t \in Slots
      PROVE  /\ pb'[t] = pb[t] \/ pb'[t] = NoCursor
             /\ down'[t] = down[t] \/ down'[t] = Said(down[t], "CHUNK_UNAVAILABLE", pb[t].seq)
  <2>1. CASE AbortCatalogTransfers
    BY <2>1 DEF AbortCatalogTransfers
  <2>2. ASSUME NEW s \in Slots, PumpRefuses(s)
        PROVE  /\ pb'[t] = pb[t] \/ pb'[t] = NoCursor
               /\ down'[t] = down[t] \/ down'[t] = Said(down[t], "CHUNK_UNAVAILABLE", pb[t].seq)
    <3> DEFINE q == Said(down[s], "CHUNK_UNAVAILABLE", pb[s].seq)
    <3>1. pb' = [pb EXCEPT ![s] = NoCursor] /\ down' = [down EXCEPT ![s] = q]
      BY <2>2, Zenon DEF PumpRefuses
    <3> HIDE DEF q
    <3>2. pb'[t] = (IF t = s THEN NoCursor ELSE pb[t]) /\ down'[t] = (IF t = s THEN q ELSE down[t])
      BY <1>0, <3>1 DEF IsTable
    <3> QED
      BY <3>2 DEF q
  <2> QED
    BY <2>1, <2>2
<1>3. \A t \in Slots : CursorFits(pb'[t])
  BY <1>1, <1>2, BlanksFit
<1>4. \A t \in Slots : QueueFits(down'[t])
  BY <1>1, <1>2
<1> QED
  BY <1>3, <1>4 DEF CursorsFit, QueuesFit

(* begin() keeps to the budget, insert() to the count *)
LEMMA BeginFits ==
  ASSUME NEW r, NEW f, Pure(r), f.type = "BLOB_CHUNK", FrameFits(f), f.total <= MaxBytes
  PROVE  DOMAIN Begin(r, f) = RxFields /\ AssemblyFits(Begin(r, f))
<1> DEFINE b == Begin(r, f)
<1>1. DOMAIN r = RxFields
  BY DEF Pure
<1>2. DOMAIN b = RxFields /\ b.count = f.count /\ b.total = f.total /\ DOMAIN b.got = {}
  BY <1>1 DEF Begin, RxFields
<1> HIDE DEF b
<1>3. b.count \in Nat /\ b.total \in 0 .. MaxBytes
  BY <1>2, BlobConstants DEF FrameFits
<1>4. AssemblyFits(b)
  BY <1>2, <1>3 DEF AssemblyFits
<1> QED
  BY <1>2, <1>4 DEF b

LEMMA InsertFits ==
  ASSUME NEW a, NEW f, DOMAIN a = RxFields, AssemblyFits(a), f.idx \in Nat
  PROVE  AssemblyFits(Insert(a, f))
<1> DEFINE g == [i \in DOMAIN a.got \cup {f.idx} |-> IF i = f.idx THEN f.rev ELSE a.got[i]]
           d == [a EXCEPT !.got = g]
<1>1. CASE a.active /\ f.idx < a.count
  <2>1. Insert(a, f) = d
    BY <1>1, Zenon DEF Insert
  <2>2. DOMAIN g = DOMAIN a.got \cup {f.idx}
    OBVIOUS
  <2> HIDE DEF g
  <2>3. d.count = a.count /\ d.total = a.total /\ d.got = g
    BY DEF RxFields
  <2> HIDE DEF d
  <2>4. PICK k \in Nat : k = a.count
    BY DEF AssemblyFits
  <2>5. f.idx \in 0 .. (k - 1) /\ DOMAIN a.got \subseteq 0 .. (k - 1)
    BY <1>1, <2>4 DEF AssemblyFits
  <2>6. DOMAIN d.got \subseteq 0 .. (d.count - 1)
    BY <2>2, <2>3, <2>4, <2>5
  <2> QED
    BY <2>1, <2>3, <2>6 DEF AssemblyFits
<1>2. CASE ~(a.active /\ f.idx < a.count)
  BY <1>2 DEF Insert
<1> QED
  BY <1>1, <1>2

LEMMA AssembleFits ==
  ASSUME NEW r, NEW f, Pure(r), AssemblyFits(r), f.type = "BLOB_CHUNK", FrameFits(f),
         ~OverBudget(r, f)
  PROVE  AssemblyFits(Assemble(r, f))
<1>1. f.idx \in Nat /\ f.total \in Nat /\ MaxBytes \in Nat
  BY BlobConstants DEF FrameFits
<1>2. CASE Restarts(r, f)
  <2>1. f.total <= MaxBytes
    BY <1>1, <1>2 DEF OverBudget
  <2>2. AssemblyFits(Insert(Begin(r, f), f))
    BY <1>1, <2>1, BeginFits, InsertFits
  <2> QED
    BY <1>2, <2>2 DEF Assemble
<1>3. CASE ~Restarts(r, f)
  BY <1>1, <1>3, InsertFits DEF Assemble, Pure
<1> QED
  BY <1>2, <1>3

(* What is not written fits as it did *)
LEMMA UnmovedFits ==
  ASSUME Fits
  PROVE  /\ UNCHANGED <<etag, allowed, congested>> => HubFits'
         /\ pb' = pb => CursorsFit'
         /\ req' = req => RequestsFit'
         /\ asked' = asked => AskedFits'
         /\ down' = down => QueuesFit'
         /\ rx' = rx => AssembliesFit'
  BY DEF Fits, HubFits, CursorsFit, RequestsFit, AskedFits, QueuesFit, AssembliesFit

(* The client's end of a session *)
ReceiverFits == RequestsFit /\ AskedFits /\ AssembliesFit

(* One table entry is replaced by one that fits *)
LEMMA ReqFits ==
  ASSUME IInv, Fits, NEW s \in Slots, NEW a, RequestFits(a), req' = [req EXCEPT ![s] = a]
  PROVE  RequestsFit'
<1>1. \A t \in Slots : req'[t] = req[t] \/ req'[t] = a
  BY DEF IInv, Tables, IsTable
<1> QED
  BY <1>1 DEF Fits, RequestsFit

LEMMA RxFits ==
  ASSUME IInv, Fits, NEW s \in Slots, NEW r, AssemblyFits(r), rx' = [rx EXCEPT ![s] = r]
  PROVE  AssembliesFit'
<1>1. \A t \in Slots : rx'[t] = rx[t] \/ rx'[t] = r
  BY DEF IInv, Tables, IsTable
<1> QED
  BY <1>1 DEF Fits, AssembliesFit

LEMMA DownFits ==
  ASSUME IInv, Fits, NEW s \in Slots, NEW q, QueueFits(q), down' = [down EXCEPT ![s] = q]
  PROVE  QueuesFit'
<1>1. \A t \in Slots : down'[t] = down[t] \/ down'[t] = q
  BY DEF IInv, Tables, IsTable
<1> QED
  BY <1>1 DEF Fits, QueuesFit

LEMMA RequestIsFit ==
  ASSUME IInv, Fits, NEW s \in Slots, NEW doc \in Docs, NEW want \in SUBSET Nat,
         Request(s, doc, want)
  PROVE  RequestsFit' /\ AskedFits'
<1> DEFINE a == [doc |-> doc, want |-> want,
                 seq |-> IF doc = "store" THEN asked'[s] ELSE 0]
<1>1. req' = [req EXCEPT ![s] = a] /\ RequestFits(a)
  BY DEF Request, RequestFits
<1> HIDE DEF a
<1>2. asked[s] < MaxRequests /\ asked' = [asked EXCEPT ![s] = @ + 1]
  BY DEF Request
<1>3. asked \in [Slots -> 0 .. MaxRequests] /\ MaxRequests \in Nat
  BY BlobConstants DEF Fits, AskedFits
<1>4. asked[s] + 1 \in 0 .. MaxRequests
  BY <1>2, <1>3
<1>5. AskedFits'
  BY <1>2, <1>3, <1>4 DEF AskedFits
<1> QED
  BY <1>1, <1>5, ReqFits

LEMMA AskFits ==
  ASSUME IInv, Fits, NEW s \in Slots, NEW doc \in Docs, Ask(s, doc)
  PROVE  ReceiverFits'
<1>1. RequestsFit' /\ AskedFits'
  BY RequestIsFit DEF Ask
<1> DEFINE b == Awaiting(s, doc)
<1>2. rx' = [rx EXCEPT ![s] = b]
  BY DEF Ask
<1>3. b.count = NoRx.count /\ b.total = NoRx.total /\ b.got = NoRx.got
  BY DEF Awaiting, NoRx
<1> HIDE DEF b
<1>4. AssemblyFits(b)
  BY <1>3, BlanksFit DEF AssemblyFits
<1> QED
  BY <1>1, <1>2, <1>4, RxFits DEF ReceiverFits

LEMMA OverFits ==
  ASSUME IInv, Fits, NEW s \in Slots, rx' = [rx EXCEPT ![s] = NoRx], UNCHANGED <<req, asked>>
  PROVE  ReceiverFits'
  BY BlanksFit, RxFits, UnmovedFits DEF ReceiverFits

LEMMA OverOrAnewFits ==
  ASSUME IInv, Fits, NEW s \in Slots, OverOrAnew(s)
  PROVE  ReceiverFits'
  BY OverFits, AskFits DEF OverOrAnew, Over, Docs

LEMMA ClientFits ==
  ASSUME IInv, Fits, NEW s \in Slots, Client(s)
  PROVE  Fits'
<1>1. UNCHANGED <<etag, allowed, congested, pb, down>>
  BY DEF Client, hub
<1>2. CASE AskRepair(s)
  <2>1. /\ rx[s].doc \in Docs /\ Request(s, rx[s].doc, Repair(rx[s])) /\ rx' = rx
    BY <1>2 DEF AskRepair, IInv, AssembliesArePure, Pure
  <2>2. Repair(rx[s]) \in SUBSET Nat
    BY DEF Fits, AssembliesFit, AssemblyFits, Repair, Missing
  <2> QED
    BY <1>1, <2>1, <2>2, RequestIsFit, UnmovedFits DEF Fits
<1>3. CASE GiveUp(s)
  BY <1>1, <1>3, OverFits, UnmovedFits DEF GiveUp, Fits, ReceiverFits
<1>4. ASSUME NEW doc \in Docs, Ask(s, doc) PROVE Fits'
  BY <1>1, <1>4, AskFits, UnmovedFits DEF Fits, ReceiverFits
<1> QED
  BY <1>2, <1>3, <1>4 DEF Client

LEMMA EndSessionFits ==
  ASSUME IInv, Fits, NEW s \in Slots, EndSession(s)
  PROVE  Fits'
<1>1. /\ pb' = [pb EXCEPT ![s] = NoCursor] /\ req' = [req EXCEPT ![s] = NoReq]
      /\ down' = [down EXCEPT ![s] = <<>>] /\ rx' = [rx EXCEPT ![s] = NoRx]
      /\ UNCHANGED <<etag, allowed, congested, asked>>
  BY DEF EndSession, hub
<1>2. \A t \in Slots : pb'[t] = pb[t] \/ pb'[t] = NoCursor
  BY <1>1 DEF IInv, Tables, IsTable
<1>3. CursorsFit'
  BY <1>2, BlanksFit DEF Fits, CursorsFit
<1>4. QueueFits(<<>>)
  BY EmptyQueue, BlobConstants DEF QueueFits
<1>5. QueuesFit'
  BY <1>1, <1>4, DownFits
<1>6. RequestsFit' /\ AssembliesFit'
  BY <1>1, BlanksFit, ReqFits, RxFits
<1> QED
  BY <1>1, <1>3, <1>5, <1>6, UnmovedFits DEF Fits

LEMMA TakesFit ==
  ASSUME IInv, Fits, NEW s \in Slots, NEW f, FrameFits(f), Takes(s, f)
  PROVE  ReceiverFits'
<1>0. Pure(rx[s]) /\ AssemblyFits(rx[s])
  BY DEF IInv, AssembliesArePure, Fits, AssembliesFit
<1>1. CASE UNCHANGED <<rx, req, asked>>
  BY <1>1, UnmovedFits DEF ReceiverFits
<1>2. CASE OverOrAnew(s)
  BY <1>2, OverOrAnewFits
<1>3. ASSUME f.type = "BLOB_CHUNK", ~OverBudget(rx[s], f), UNCHANGED <<req, asked>>,
             rx' = [rx EXCEPT ![s] = Assemble(rx[s], f)]
      PROVE  ReceiverFits'
  <2>1. AssemblyFits(Assemble(rx[s], f))
    BY <1>0, <1>3, AssembleFits
  <2> QED
    BY <1>3, <2>1, RxFits, UnmovedFits DEF ReceiverFits
<1>4. CASE f.type = "BLOB_CHUNK" /\ HandleBlobChunk(s, f)
  BY <1>1, <1>2, <1>3, <1>4 DEF HandleBlobChunk, HandOver
<1>5. CASE HandleNack(s, f)
  BY <1>1, <1>2, <1>5 DEF HandleNack, OverOrAnew
<1> QED
  BY <1>4, <1>5 DEF Takes

LEMMA ReceiveFits ==
  ASSUME IInv, Fits, NEW s \in Slots, Receive(s)
  PROVE  Fits'
<1> DEFINE q == down[s]
           f == Head(q)
<1>0. q # <<>>
  BY DEF Receive
<1>1. IsQueue(q) /\ QueueFits(q) /\ LinkRoom \in Nat
  BY BlobConstants DEF IInv, ChunksAreHonest, Fits, QueuesFit
<1>2. \/ EndSession(s)
      \/ /\ down' = [down EXCEPT ![s] = Tail(q)] /\ UNCHANGED <<hub, pb>>
         /\ \/ Takes(s, f)
            \/ rx' = [rx EXCEPT ![s] = NoRx] /\ UNCHANGED <<req, asked>>
  BY DEF Receive, RefuseBlob, Takes
<1> HIDE DEF q
<1>3. /\ Len(Tail(q)) = Len(q) - 1 /\ Len(q) \in Nat \ {0} /\ f = q[1]
      /\ \A n \in 1 .. Len(Tail(q)) : n + 1 \in 1 .. Len(q) /\ Tail(q)[n] = q[n + 1]
  BY <1>0, <1>1, QueueTail
<1>4. FrameFits(f) /\ \A n \in 1 .. Len(Tail(q)) : FrameFits(Tail(q)[n])
  BY <1>1, <1>3 DEF QueueFits
<1>5. Len(Tail(q)) <= LinkRoom
  BY <1>1, <1>3 DEF QueueFits
<1> HIDE DEF f
<1>6. ASSUME down' = [down EXCEPT ![s] = Tail(q)], UNCHANGED <<hub, pb>>,
             \/ Takes(s, f)
             \/ rx' = [rx EXCEPT ![s] = NoRx] /\ UNCHANGED <<req, asked>>
      PROVE  Fits'
  <2>1. ReceiverFits'
    BY <1>4, <1>6, TakesFit, OverFits
  <2>2. QueuesFit'
    BY <1>4, <1>5, <1>6, DownFits DEF QueueFits
  <2> QED
    BY <1>6, <2>1, <2>2, UnmovedFits DEF Fits, ReceiverFits, hub
<1> QED
  BY <1>2, <1>6, EndSessionFits

LEMMA LoseFrameFits ==
  ASSUME IInv, Fits, NEW s \in Slots, LoseFrame(s)
  PROVE  Fits'
<1>1. UNCHANGED <<etag, allowed, congested, pb, asked, rx>>
  BY DEF LoseFrame, hub
<1>2. CASE req' = [req EXCEPT ![s] = NoReq] /\ down' = down
  BY <1>1, <1>2, BlanksFit, ReqFits, UnmovedFits DEF Fits
<1>3. ASSUME NEW n \in 1 .. Len(down[s]), down' = [down EXCEPT ![s] = RemoveAt(@, n)],
             req' = req
      PROVE  Fits'
  <2> DEFINE q == down[s]
             p == RemoveAt(q, n)
  <2>1. IsQueue(q) /\ QueueFits(q) /\ Len(q) \in Nat /\ LinkRoom \in Nat
    BY QueueLen, BlobConstants DEF IInv, ChunksAreHonest, Fits, QueuesFit
  <2>2. /\ Len(p) = Len(q) - 1
        /\ \A k \in 1 .. Len(p) : \E m \in 1 .. Len(q) : p[k] = q[m]
    BY <2>1, QueueRemove
  <2>3. down' = [down EXCEPT ![s] = p]
    BY <1>3
  <2> HIDE DEF p
  <2>4. QueueFits(p)
    BY <2>1, <2>2 DEF QueueFits
  <2> QED
    BY <1>1, <1>3, <2>3, <2>4, DownFits, UnmovedFits DEF Fits
<1> QED
  BY <1>2, <1>3 DEF LoseFrame

LEMMA FitsKeep ==
  ASSUME IInv, Fits, [Next]_vars
  PROVE  Fits'
<1>1. CASE UNCHANGED vars
  BY <1>1, UnmovedFits DEF vars, Fits
<1>2. ASSUME NEW r \in Revisions, CatalogChanged(r) PROVE Fits'
  <2>1. UNCHANGED <<allowed, congested, req, asked, rx>> /\ etag' \in {etag, r}
        /\ (UNCHANGED <<pb, down>> \/ AbortCatalogTransfers)
    BY <1>2 DEF CatalogChanged
  <2>2. HubFits'
    BY <2>1 DEF Fits, HubFits
  <2>3. CursorsFit' /\ QueuesFit'
    BY <2>1, RefusalsFit, UnmovedFits
  <2> QED
    BY <2>1, <2>2, <2>3, UnmovedFits DEF Fits
<1>3. CASE CatalogEncodeFails \/ \E r \in Revisions \cup {0} : StoreMoves(r)
  BY <1>3, UnmovedFits DEF CatalogEncodeFails, StoreMoves, Fits
<1>4. ASSUME NEW s \in Slots, HandleBlobReq(s) PROVE Fits'
  <2>1. UNCHANGED <<etag, allowed, congested, asked, rx>>
    BY <1>4 DEF HandleBlobReq, hub
  <2> QED
    BY <1>4, <2>1, HandleBlobReqFits, UnmovedFits DEF Fits
<1>5. ASSUME NEW s \in Slots, Pump(s) PROVE Fits'
  <2>1. UNCHANGED <<etag, allowed, congested, req, asked, rx>>
    BY <1>5 DEF Pump, PumpRefuses, PumpEmits, hub
  <2>2. CursorsFit' /\ QueuesFit'
    BY <1>5, RefusalsFit, PumpEmitsFits DEF Pump
  <2> QED
    BY <2>1, <2>2, UnmovedFits DEF Fits
<1>6. ASSUME NEW s \in Slots, Demote(s) \/ SetCongestionLevel(s) PROVE Fits'
  <2>1. UNCHANGED <<etag, pb, req, asked, down, rx>>
    BY <1>6 DEF Demote, SetCongestionLevel
  <2>2. /\ allowed' = allowed \/ allowed' = [allowed EXCEPT ![s] = FALSE]
        /\ congested' = congested \/ congested' = [congested EXCEPT ![s] = ~congested[s]]
    BY <1>6 DEF Demote, SetCongestionLevel
  <2>3. allowed' \in [Slots -> BOOLEAN] /\ congested' \in [Slots -> BOOLEAN]
    BY <2>2 DEF Fits, HubFits
  <2>4. HubFits'
    BY <2>1, <2>3 DEF Fits, HubFits
  <2> QED
    BY <2>1, <2>4, UnmovedFits DEF Fits
<1>7. CASE Documents
  BY <1>2, <1>3, <1>7 DEF Documents
<1>8. ASSUME NEW s \in Slots, Session(s) PROVE Fits'
  BY <1>4, <1>5, <1>6, <1>8, EndSessionFits DEF Session, Teardown
<1>9. ASSUME NEW s \in Slots, Receiver(s) PROVE Fits'
  BY <1>9, ClientFits, ReceiveFits, LoseFrameFits DEF Receiver
<1> QED
  BY <1>1, <1>7, <1>8, <1>9 DEF Next

LEMMA InitFits == Init => Fits
<1> SUFFICES ASSUME Init PROVE Fits
  OBVIOUS
<1>1. HubFits /\ AskedFits
  BY BlobConstants DEF Init, HubFits, AskedFits
<1>2. CursorsFit /\ RequestsFit /\ AssembliesFit
  BY BlanksFit DEF Init, CursorsFit, RequestsFit, AssembliesFit
<1>3. QueueFits(<<>>)
  BY EmptyQueue, BlobConstants DEF QueueFits
<1>4. QueuesFit
  BY <1>3 DEF Init, QueuesFit
<1> QED
  BY <1>1, <1>2, <1>4 DEF Fits

(* Every variable keeps its type: on a congested link no more chunks are   *)
(* in flight than blob_chunks_in_flight, no stall outlives                 *)
(* kBlobHoldAbortMs, no link is written past its room, and no receiver     *)
(* assembles more bytes than its budget or past its chunk count, whatever  *)
(* chunks arrive.                                                          *)
THEOREM BlobTypesHold == Spec => []TypeOK
<1>1. IInv /\ Fits => TypeOK
  <2> SUFFICES ASSUME IInv, Fits PROVE TypeOK
    OBVIOUS
  <2>1. rev \in [Docs -> Revisions \cup {0}] /\ HubFits /\ AskedFits
    BY DEF IInv, Tables, Fits
  <2>2. ASSUME NEW s \in Slots
        PROVE  /\ CursorFits(pb[s]) /\ RequestFits(req[s])
               /\ QueueFits(down[s]) /\ AssemblyFits(rx[s])
    BY DEF Fits, CursorsFit, RequestsFit, QueuesFit, AssembliesFit
  <2> QED
    BY <2>1, <2>2
    DEF HubFits, AskedFits, CursorFits, RequestFits, QueueFits, AssemblyFits, TypeOK
<1> QED
  BY <1>1, InitFits, FitsKeep, InitHolds, NextKeeps, PTL DEF Spec

------------------------------------------------------------------------------
(* What a fetch resolves with                                              *)

(* A store item with no chunk missing is one revision, whole *)
IsWhole(x) ==
    \E r \in Revisions : x = [total |-> Size[r], gen |-> r,
                              got |-> [i \in Indices(Size[r]) |-> r]]

LEMMA CompleteIsWhole ==
  ASSUME NEW r, Pure(r), AssemblyFits(r), r.doc = "store", Complete(r)
  PROVE  IsWhole([total |-> r.total, gen |-> r.gen, got |-> r.got])
<1>1. /\ r.gen \in Revisions /\ r.total = Size[r.gen] /\ r.count = ChunkCount(r.total)
      /\ r.got = [i \in DOMAIN r.got |-> r.got[i]]
      /\ \A i \in DOMAIN r.got : r.got[i] = r.gen
  BY DEF Pure, Complete
<1>2. DOMAIN r.got = Indices(Size[r.gen])
  BY <1>1 DEF Complete, Missing, AssemblyFits, Indices
<1>3. r.got = [i \in Indices(Size[r.gen]) |-> r.gen]
  BY <1>1, <1>2, Zenon
<1> QED
  BY <1>1, <1>3 DEF IsWhole

(* What each session's last fetch resolved with *)
TakenWhole == IsTable(taken) /\ ItemIsWhole

LEMMA TakenKeeps ==
  ASSUME IInv, Fits, TakenWhole, [Next]_vars
  PROVE  TakenWhole'
<1>1. CASE taken' = taken
  BY <1>1 DEF TakenWhole, IsTable, ItemIsWhole
<1>2. ASSUME NEW s \in Slots, NEW f, NEW r, HandOver(s, r), Complete(r),
             r = Assemble(rx[s], f), f.type = "BLOB_CHUNK", f.doc = rx[s].doc,
             Honest(f), FrameFits(f), ~OverBudget(rx[s], f), taken' # taken
      PROVE  TakenWhole'
  <2> DEFINE x == [total |-> r.total, gen |-> r.gen, got |-> r.got]
  <2>1. r.doc = "store" /\ taken' = [taken EXCEPT ![s] = x]
    BY <1>2 DEF HandOver
  <2>2. Pure(r) /\ AssemblyFits(r)
    BY <1>2, AssembleIsPure, AssembleFits DEF IInv, AssembliesArePure, Fits, AssembliesFit
  <2>3. IsWhole(x)
    BY <1>2, <2>1, <2>2, CompleteIsWhole
  <2> HIDE DEF x
  <2>4. /\ IsTable(taken')
        /\ \A t \in Slots : taken'[t] = taken[t] \/ taken'[t] = x
    BY <2>1 DEF TakenWhole, IsTable
  <2> QED
    BY <2>3, <2>4 DEF TakenWhole, ItemIsWhole, IsWhole
<1>3. ASSUME NEW s \in Slots, Receive(s) PROVE TakenWhole'
  <2> DEFINE q == down[s]
             f == Head(q)
  <2>1. q # <<>> /\ IsQueue(q)
        /\ (\A n \in 1 .. Len(q) : Honest(q[n]) /\ FrameFits(q[n]))
    BY <1>3 DEF Receive, IInv, ChunksAreHonest, Fits, QueuesFit, QueueFits
  <2>2. Honest(f) /\ FrameFits(f)
    <3> HIDE DEF q
    <3>1. Len(q) \in Nat \ {0} /\ f = q[1]
      BY <2>1, QueueTail
    <3> QED
      BY <2>1, <3>1
  <2>3. \/ taken' = taken
        \/ f.type = "BLOB_CHUNK" /\ HandleBlobChunk(s, f)
    BY <1>3 DEF Receive, RefuseBlob, EndSession, HandleNack
  <2> HIDE DEF f
  <2>4. CASE f.type = "BLOB_CHUNK" /\ HandleBlobChunk(s, f)
    BY <1>1, <1>2, <2>2, <2>4 DEF HandleBlobChunk
  <2> QED
    BY <1>1, <2>3, <2>4
<1>4. CASE Documents
  BY <1>1, <1>4 DEF Documents, CatalogChanged, CatalogEncodeFails, StoreMoves
<1>5. ASSUME NEW s \in Slots, Session(s) PROVE TakenWhole'
  BY <1>1, <1>5 DEF Session, HandleBlobReq, Pump, PumpRefuses, PumpEmits, Demote,
       SetCongestionLevel, Teardown, EndSession
<1>6. ASSUME NEW s \in Slots, Receiver(s) PROVE TakenWhole'
  BY <1>1, <1>3, <1>6 DEF Receiver, Client, LoseFrame
<1> QED
  BY <1>1, <1>4, <1>5, <1>6 DEF Next, vars

(* However transfers are resumed, repaired and torn down while the item    *)
(* changes, a fetch of the JavaScript client resolves with one revision of *)
(* the item, whole, under its own generation.                              *)
THEOREM ItemIsWholeHolds == Spec => []ItemIsWhole
<1>1. Init => TakenWhole
  BY DEF Init, TakenWhole, IsTable, ItemIsWhole
<1>2. TakenWhole => ItemIsWhole
  BY DEF TakenWhole
<1> QED
  BY <1>1, <1>2, TakenKeeps, InitFits, FitsKeep, InitHolds, NextKeeps, PTL DEF Spec
=============================================================================
