------------------------- MODULE HubSigning_proofs -------------------------
(***************************************************************************)
(* Proofs about HubSigning, for every number of slots and clients, every   *)
(* order of the worker's answers and every loss on the links.              *)
(***************************************************************************)
EXTENDS HubSigning, TLAPS

(* The signatures on a link *)
Sigs(w) == {w[n].sig : n \in 1 .. Len(w)}

Frames == [type : {"WELCOME", "HUB_SIG"}, sid : Sids \cup {None}, sig : Pairs]

Hellos == [asks : BOOLEAN, sent : BOOLEAN, nonce : Nonces \cup {None}]

Sessions == [sid : Sids \cup {None}, who : Clients \cup {None}, stale : BOOLEAN,
             nonce : Nonces \cup {None}, pending : BOOLEAN, delivered : BOOLEAN]

Views == [nonce : Nonces \cup {None}, sid : Sids \cup {None}, greeted : BOOLEAN,
          auth : Verdicts]

(* TypeOK with the fields it leaves out *)
Types ==
    /\ peer \in [Slots -> Clients \cup {None}]
    /\ hello \in [Slots -> Hellos]
    /\ wire \in [Slots -> Seq(Frames)]
    /\ sess \in [Slots -> Sessions]
    /\ jobs \subseteq Pairs
    /\ inline \in BOOLEAN
    /\ at \in [Clients -> Slots \cup {None}]
    /\ client \in [Clients -> Views]
    /\ owner \in [Nonces \cup Sids -> Clients \cup {None}]

(* A HELLO waits, and frames are underway, on a transport only; the HELLO  *)
(* brings a nonce that was drawn for the client at the other end.          *)
HelloIsOwn ==
    \A s \in Slots :
       /\ hello[s].sent \/ hello[s].nonce # None => peer[s] # None
       /\ hello[s].asks => hello[s].nonce # None
       /\ hello[s].nonce # None => owner[hello[s].nonce] = peer[s]
       /\ Sigs(wire[s]) # {} => peer[s] # None

(* A session id and a session's nonce were drawn for the client it names,  *)
(* who is at the other end whenever somebody is.                           *)
SessionIsOwn ==
    \A s \in Slots :
       /\ sess[s].sid # None =>
            /\ sess[s].who # None /\ owner[sess[s].sid] = sess[s].who
            /\ peer[s] \in {None, sess[s].who}
            /\ sess[s].pending => sess[s].nonce # None
       /\ sess[s].nonce # None =>
            sess[s].sid # None /\ owner[sess[s].nonce] = sess[s].who

(* A job was made for one client *)
JobIsOwn ==
    \A j \in jobs :
       /\ j.sid # None => /\ j.nonce # None /\ owner[j.sid] # None
                          /\ owner[j.nonce] = owner[j.sid]
       /\ j.nonce # None => j.sid # None

WireIsOwn ==
    \A s \in Slots : \A g \in Sigs(wire[s]) : g # NoSignature =>
       /\ g.sid # None /\ g.nonce # None
       /\ owner[g.sid] = peer[s] /\ owner[g.nonce] = peer[s]

(* A nonce is in one place of its way: a HELLO, an armed session, a job, a *)
(* link.  (A session keeps it when the job was taken.)                     *)
HelloIsFirst ==
    \A s \in Slots : hello[s].nonce # None =>
       /\ \A t \in Slots : t # s => hello[t].nonce # hello[s].nonce
       /\ \A t \in Slots : sess[t].nonce # hello[s].nonce
       /\ \A j \in jobs : j.nonce # hello[s].nonce
       /\ \A t \in Slots : \A g \in Sigs(wire[t]) : g.nonce # hello[s].nonce

ArmedIsUnsigned ==
    \A s \in Slots : sess[s].nonce # None =>
       /\ \A t \in Slots : t # s => sess[t].nonce # sess[s].nonce
       /\ sess[s].pending =>
            /\ \A j \in jobs : j.nonce # sess[s].nonce
            /\ \A t \in Slots : \A g \in Sigs(wire[t]) : g.nonce # sess[s].nonce

JobIsUnsent ==
    \A j \in jobs : j.nonce # None =>
       /\ \A k \in jobs : k.nonce = j.nonce => k = j
       /\ \A t \in Slots : \A g \in Sigs(wire[t]) : g.nonce # j.nonce

(* SignatureReachesItsClient needs the whole way of a nonce: what is       *)
(* signed is what a session holds, which is what HELLO brought, which the  *)
(* client drew; and a slot's session belongs to whoever is at its link.    *)
(* SignedOnce needs that no two places of that way hold the same nonce.    *)
IInv ==
    /\ Types
    /\ HelloIsOwn
    /\ SessionIsOwn
    /\ JobIsOwn
    /\ WireIsOwn
    /\ HelloIsFirst
    /\ ArmedIsUnsigned
    /\ JobIsUnsent

------------------------------------------------------------------------------
(* The signatures on a link, as frames are written and read *)

LEMMA SigsEmpty == Sigs(<<>>) = {}
  BY DEF Sigs

LEMMA SigsAppend ==
  ASSUME NEW w \in Seq(Frames), NEW f \in Frames
  PROVE  /\ Append(w, f) \in Seq(Frames)
         /\ \A g \in Sigs(Append(w, f)) : g \in Sigs(w) \/ g = f.sig
<1>1. \A n \in 1 .. Len(Append(w, f)) :
        \/ n \in 1 .. Len(w) /\ Append(w, f)[n] = w[n]
        \/ Append(w, f)[n] = f
  OBVIOUS
<1>2. QED
  BY <1>1 DEF Sigs

LEMMA SigsTail ==
  ASSUME NEW w \in Seq(Frames), w # <<>>
  PROVE  /\ Tail(w) \in Seq(Frames) /\ Head(w) \in Frames
         /\ Sigs(Tail(w)) \subseteq Sigs(w)
<1>1. \A n \in 1 .. Len(Tail(w)) : n + 1 \in 1 .. Len(w) /\ Tail(w)[n] = w[n + 1]
  OBVIOUS
<1>2. QED
  BY <1>1 DEF Sigs

LEMMA SigsArePairs ==
  ASSUME NEW w \in Seq(Frames)
  PROVE  Sigs(w) \subseteq Pairs
<1>1. \A n \in 1 .. Len(w) : w[n] \in Frames
  OBVIOUS
<1>2. \A f \in Frames : f.sig \in Pairs
  BY DEF Frames
<1>3. QED
  BY <1>1, <1>2 DEF Sigs

LEMMA BlankFacts ==
    NoSession \in Sessions /\ NoHello \in Hellos /\ NoSignature \in Pairs
  BY DEF NoSession, Sessions, NoHello, Hellos, NoSignature, Pairs

(* Writing a session's pending flag leaves the rest of it *)
LEMMA PendingEdit ==
  ASSUME NEW e \in Sessions, NEW b \in BOOLEAN
  PROVE  LET d == [e EXCEPT !.pending = b]
         IN  /\ d \in Sessions /\ d.sid = e.sid /\ d.who = e.who
             /\ d.nonce = e.nonce /\ d.pending = b
<1>1. [e EXCEPT !.pending = b] \in Sessions
  BY DEF Sessions
<1>2. LET d == [e EXCEPT !.pending = b]
      IN  d.sid = e.sid /\ d.who = e.who /\ d.nonce = e.nonce /\ d.pending = b
  BY DEF Sessions
<1>3. QED
  BY <1>1, <1>2

------------------------------------------------------------------------------
(* How a step keeps the invariant *)

(* Nothing new is said: sessions end, are parked or lose a flag, links go  *)
(* with what is on them, frames are read, jobs are dropped.                *)
LEMMA LessStep ==
  ASSUME IInv, Types', owner' = owner, jobs' \subseteq jobs,
         \A s \in Slots :
            /\ \/ peer'[s] = peer[s] /\ hello'[s] = hello[s]
                  /\ Sigs(wire'[s]) \subseteq Sigs(wire[s])
               \/ peer'[s] = None /\ hello'[s] = NoHello /\ Sigs(wire'[s]) = {}
            /\ \/ sess'[s] = NoSession
               \/ /\ sess'[s].sid = sess[s].sid /\ sess'[s].who = sess[s].who
                  /\ sess'[s].nonce \in {sess[s].nonce, None}
                  /\ sess'[s].pending => sess[s].pending /\ sess'[s].nonce = sess[s].nonce
  PROVE  IInv'
<1>1. HelloIsOwn'
  BY DEF IInv, HelloIsOwn, NoHello
<1>2. SessionIsOwn'
  BY DEF IInv, SessionIsOwn, NoSession
<1>3. JobIsOwn'
  BY DEF IInv, JobIsOwn
<1>4. WireIsOwn'
  BY DEF IInv, WireIsOwn
<1>a. \A s \in Slots : /\ hello'[s].nonce \in {None, hello[s].nonce}
                       /\ sess'[s].nonce \in {None, sess[s].nonce}
                       /\ Sigs(wire'[s]) \subseteq Sigs(wire[s])
                       /\ sess'[s].pending /\ sess'[s].nonce # None => sess[s].pending
  <2>1. NoHello.nonce = None
    BY DEF NoHello
  <2>2. NoSession.nonce = None
    BY DEF NoSession
  <2> SUFFICES ASSUME NEW s \in Slots
               PROVE  /\ hello'[s].nonce \in {None, hello[s].nonce}
                      /\ sess'[s].nonce \in {None, sess[s].nonce}
                      /\ Sigs(wire'[s]) \subseteq Sigs(wire[s])
                      /\ sess'[s].pending /\ sess'[s].nonce # None => sess[s].pending
    OBVIOUS
  <2>3. hello'[s].nonce \in {None, hello[s].nonce} /\ Sigs(wire'[s]) \subseteq Sigs(wire[s])
    BY <2>1
  <2>4. /\ sess'[s].nonce \in {None, sess[s].nonce}
        /\ sess'[s].pending /\ sess'[s].nonce # None => sess[s].pending
    BY <2>2
  <2>5. QED
    BY <2>3, <2>4
<1>5. HelloIsFirst'
  <2> SUFFICES ASSUME NEW s \in Slots, hello'[s].nonce # None
               PROVE  /\ \A t \in Slots : t # s => hello'[t].nonce # hello'[s].nonce
                      /\ \A t \in Slots : sess'[t].nonce # hello'[s].nonce
                      /\ \A j \in jobs' : j.nonce # hello'[s].nonce
                      /\ \A t \in Slots : \A g \in Sigs(wire'[t]) : g.nonce # hello'[s].nonce
    BY DEF HelloIsFirst
  <2>1. hello'[s].nonce = hello[s].nonce
    BY <1>a
  <2>2. \A t \in Slots : t # s => hello'[t].nonce # hello'[s].nonce
    BY <2>1, <1>a DEF IInv, HelloIsFirst
  <2>3. \A t \in Slots : sess'[t].nonce # hello'[s].nonce
    BY <2>1, <1>a DEF IInv, HelloIsFirst
  <2>4. \A j \in jobs' : j.nonce # hello'[s].nonce
    BY <2>1 DEF IInv, HelloIsFirst
  <2>5. \A t \in Slots : \A g \in Sigs(wire'[t]) : g.nonce # hello'[s].nonce
    BY <2>1, <1>a DEF IInv, HelloIsFirst
  <2>6. QED
    BY <2>2, <2>3, <2>4, <2>5
<1>6. ArmedIsUnsigned'
  <2> SUFFICES ASSUME NEW s \in Slots, sess'[s].nonce # None
               PROVE  /\ \A t \in Slots : t # s => sess'[t].nonce # sess'[s].nonce
                      /\ sess'[s].pending =>
                           /\ \A j \in jobs' : j.nonce # sess'[s].nonce
                           /\ \A t \in Slots : \A g \in Sigs(wire'[t]) : g.nonce # sess'[s].nonce
    BY DEF ArmedIsUnsigned
  <2>1. sess'[s].nonce = sess[s].nonce
    BY <1>a
  <2>2. QED
    BY <2>1, <1>a DEF IInv, ArmedIsUnsigned
<1>7. JobIsUnsent'
  BY DEF IInv, JobIsUnsent
<1>8. QED
  BY <1>1, <1>2, <1>3, <1>4, <1>5, <1>6, <1>7 DEF IInv

LEMMA LinksKeep ==
  ASSUME IInv, NEW s \in Slots,
         LoseLink(s) \/ FallSilent(s) \/ Revive(s) \/ EndSession(s)
  PROVE  IInv'
<1>0. Types
  BY DEF IInv
<1>1. CASE LoseLink(s)
  <2> DEFINE e == [sess[s] EXCEPT !.stale = TRUE, !.nonce = None,
                                  !.pending = FALSE, !.delivered = FALSE]
  <2>1. e \in Sessions /\ e.sid = sess[s].sid /\ e.who = sess[s].who /\ e.nonce = None
        /\ e.pending = FALSE
    BY <1>0 DEF Types, Sessions
  <2>2. \/ sess' = [sess EXCEPT ![s] = e]
        \/ sess' = sess
    <3>1. sess' = [sess EXCEPT ![s] = IF s \in Occupied /\ ~sess[s].stale THEN e ELSE sess[s]]
      BY <1>1 DEF LoseLink
    <3> HIDE DEF e
    <3>2. QED
      BY <3>1, <1>0 DEF Types
  <2> HIDE DEF e
  <2>3. /\ peer' = [peer EXCEPT ![s] = None] /\ hello' = [hello EXCEPT ![s] = NoHello]
        /\ wire' = [wire EXCEPT ![s] = <<>>]
        /\ at' = [c \in Clients |-> IF at[c] = s THEN None ELSE at[c]]
        /\ UNCHANGED <<jobs, inline, client, owner>>
    BY <1>1 DEF LoseLink
  <2>4. Types'
    BY <2>1, <2>2, <2>3, <1>0, BlankFacts DEF Types
  <2>5. /\ \A t \in Slots \ {s} : peer'[t] = peer[t] /\ hello'[t] = hello[t] /\ wire'[t] = wire[t]
        /\ peer'[s] = None /\ hello'[s] = NoHello /\ wire'[s] = <<>>
    BY <2>3, <1>0 DEF Types
  <2>6. \A t \in Slots : sess'[t] = sess[t] \/ (sess'[t] = e /\ t = s)
    BY <2>2, <1>0 DEF Types
  <2>7. QED
    BY <2>1, <2>3, <2>4, <2>5, <2>6, LessStep, SigsEmpty
<1>2. CASE FallSilent(s) \/ Revive(s)
  <2>1. PICK b \in BOOLEAN : sess' = [sess EXCEPT ![s].stale = b]
    BY <1>2 DEF FallSilent, Revive
  <2>2. UNCHANGED <<peer, hello, wire, jobs, inline, at, client, owner>>
    BY <1>2 DEF FallSilent, Revive
  <2>3. /\ sess' \in [Slots -> Sessions]
        /\ \A t \in Slots : /\ sess'[t].sid = sess[t].sid /\ sess'[t].who = sess[t].who
                            /\ sess'[t].nonce = sess[t].nonce
                            /\ sess'[t].pending = sess[t].pending
    <3>1. sess \in [Slots -> Sessions]
      BY <1>0 DEF Types
    <3> DEFINE e == [sess[s] EXCEPT !.stale = b]
    <3>2. sess' = [sess EXCEPT ![s] = e]
      BY <2>1, Zenon
    <3>3. /\ e \in Sessions /\ e.sid = sess[s].sid /\ e.who = sess[s].who
          /\ e.nonce = sess[s].nonce /\ e.pending = sess[s].pending
      <4>1. sess[s] \in Sessions
        BY <3>1
      <4>2. e \in Sessions
        BY <4>1 DEF Sessions
      <4>3. e.sid = sess[s].sid /\ e.who = sess[s].who /\ e.nonce = sess[s].nonce
        BY <4>1 DEF Sessions
      <4>4. e.pending = sess[s].pending
        BY <4>1 DEF Sessions
      <4>5. QED
        BY <4>2, <4>3, <4>4
    <3> HIDE DEF e
    <3>4. QED
      BY <3>1, <3>2, <3>3
  <2>4. Types'
    BY <2>2, <2>3, <1>0 DEF Types
  <2>5. QED
    BY <2>2, <2>3, <2>4, LessStep
<1>3. CASE EndSession(s)
  <2>1. /\ sess' = [sess EXCEPT ![s] = NoSession]
        /\ UNCHANGED <<peer, hello, wire, jobs, inline, at, client, owner>>
    BY <1>3 DEF EndSession
  <2>2. Types' /\ \A t \in Slots : sess'[t] \in {sess[t], NoSession}
    BY <2>1, <1>0, BlankFacts DEF Types
  <2>3. QED
    BY <2>1, <2>2, LessStep
<1>4. QED
  BY <1>1, <1>2, <1>3

LEMMA DroppingKeeps ==
  ASSUME IInv,
         \/ \E on \in BOOLEAN : SetInlineSigning(on)
         \/ \E j \in jobs : AbandonJob(j) \/ SubmitRefused(j)
  PROVE  IInv'
<1>1. /\ UNCHANGED <<peer, hello, wire, sess, at, client, owner>>
      /\ jobs' \subseteq jobs /\ inline' \in BOOLEAN
  BY DEF SetInlineSigning, AbandonJob, SubmitRefused, IInv, Types
<1>2. Types'
  BY <1>1 DEF IInv, Types
<1>3. QED
  BY <1>1, <1>2, LessStep

LEMMA JudgeFacts ==
  ASSUME NEW k \in Views, NEW sig
  PROVE  Judge(k, sig) \in Verdicts
  BY DEF Judge, Views, Verdicts

LEMMA ReceiveKeeps ==
  ASSUME IInv, NEW c \in Clients, Receive(c)
  PROVE  IInv'
<1> DEFINE s == at[c]
           f == Head(wire[s])
           k == client[c]
           w == [k EXCEPT !.sid = f.sid, !.greeted = TRUE]
           v == IF f.type = "HUB_SIG" THEN [k EXCEPT !.auth = Judge(k, f.sig)]
                ELSE IF k.greeted THEN k
                ELSE IF f.sig = NoSignature THEN w
                ELSE [w EXCEPT !.auth = Judge(w, f.sig)]
<1>1. /\ s # None /\ wire[s] # <<>> /\ wire' = [wire EXCEPT ![s] = Tail(wire[s])]
      /\ client' = [client EXCEPT ![c] = v]
      /\ UNCHANGED <<peer, hello, sess, jobs, inline, at, owner>>
  BY Zenon DEF Receive
<1>2. Types /\ s \in Slots
  BY <1>1 DEF IInv, Types
<1>3. /\ Tail(wire[s]) \in Seq(Frames) /\ f \in Frames
      /\ Sigs(Tail(wire[s])) \subseteq Sigs(wire[s])
  BY <1>1, <1>2, SigsTail DEF Types
<1>4. v \in Views
  <2>1. k \in Views /\ f.sid \in Sids \cup {None}
    BY <1>2, <1>3 DEF Types, Frames
  <2>2. w \in Views
    <3> HIDE DEF k, f
    <3>1. QED
      BY <2>1 DEF Views
  <2>3. Judge(k, f.sig) \in Verdicts /\ Judge(w, f.sig) \in Verdicts
    BY <2>1, <2>2, JudgeFacts
  <2> HIDE DEF k, f, w
  <2>4. [k EXCEPT !.auth = Judge(k, f.sig)] \in Views
    BY <2>1, <2>3 DEF Views
  <2>5. [w EXCEPT !.auth = Judge(w, f.sig)] \in Views
    BY <2>2, <2>3 DEF Views
  <2>6. QED
    BY <2>1, <2>2, <2>4, <2>5
<1> HIDE DEF v, f, k, w
<1>5. Types'
  BY <1>1, <1>2, <1>3, <1>4 DEF Types
<1>6. \A t \in Slots : Sigs(wire'[t]) \subseteq Sigs(wire[t])
  BY <1>1, <1>2, <1>3 DEF Types
<1>7. QED
  BY <1>1, <1>5, <1>6, LessStep

LEMMA TimeoutKeeps ==
  ASSUME IInv, NEW c \in Clients, PumpHubSigTimeout(c)
  PROVE  IInv'
<1>1. /\ client' = [client EXCEPT ![c].auth = "Timeout"]
      /\ UNCHANGED <<peer, hello, wire, sess, jobs, inline, at, owner>>
  BY DEF PumpHubSigTimeout
<1>2. client' \in [Clients -> Views]
  <2>1. client \in [Clients -> Views]
    BY DEF IInv, Types
  <2>2. [client[c] EXCEPT !.auth = "Timeout"] \in Views
    BY <2>1 DEF Views, Verdicts
  <2>3. QED
    BY <1>1, <2>1, <2>2
<1>3. Types'
  BY <1>1, <1>2 DEF IInv, Types
<1>4. QED
  BY <1>1, <1>3, LessStep

(* What has been drawn stays its client's *)
OwnerGrows == \A x \in Nonces \cup Sids : owner[x] # None => owner'[x] = owner[x]

(* A nonce nobody has drawn is nowhere *)
LEMMA UndrawnIsNowhere ==
  ASSUME IInv, NEW n \in Nonces, owner[n] = None
  PROVE  /\ \A t \in Slots : hello[t].nonce # n /\ sess[t].nonce # n
         /\ \A j \in jobs : j.nonce # n
         /\ \A t \in Slots : \A g \in Sigs(wire[t]) : g.nonce # n
<1>0. n # None
  BY SigningConstants
<1>1. \A t \in Slots : hello[t].nonce # n /\ sess[t].nonce # n
  BY <1>0 DEF IInv, HelloIsOwn, SessionIsOwn
<1>2. \A j \in jobs : j.nonce # n
  BY <1>0 DEF IInv, JobIsOwn
<1>3. \A t \in Slots : \A g \in Sigs(wire[t]) : g.nonce # n
  BY <1>0 DEF IInv, HelloIsOwn, WireIsOwn, NoSignature
<1>4. QED
  BY <1>1, <1>2, <1>3

LEMMA ConnectKeeps ==
  ASSUME IInv, NEW c \in Clients, NEW s \in Slots, NEW n, Connect(c, s, n)
  PROVE  IInv'
<1>0. Types /\ None \notin Clients \cup Nonces \cup Sids /\ c # None
  BY SigningConstants DEF IInv
<1>1. /\ peer[s] = None /\ sess[s].sid = None /\ n \in FreshNonce(c)
      /\ peer' = [peer EXCEPT ![s] = c]
      /\ at' = [at EXCEPT ![c] = s]
      /\ owner' = [x \in DOMAIN owner |-> IF x = n THEN c ELSE owner[x]]
      /\ UNCHANGED <<wire, sess, jobs, inline>>
  BY DEF Connect, Occupied
<1> DEFINE h == [asks |-> c \in Askers, sent |-> TRUE, nonce |-> n]
           v == [nonce |-> n, sid |-> None, greeted |-> FALSE,
                 auth |-> IF c \notin Askers THEN "NotRequested"
                          ELSE IF c \in Pinned THEN "Pending" ELSE "Unverifiable"]
<1>2. hello' = [hello EXCEPT ![s] = h] /\ client' = [client EXCEPT ![c] = v]
  BY Zenon DEF Connect
<1>3. /\ n \in Nonces \cup {None}
      /\ n # None => n \in Nonces /\ owner[n] = None
      /\ c \in Askers => n # None
  BY <1>0, <1>1 DEF FreshNonce, Undrawn
<1>4. h \in Hellos /\ h.nonce = n /\ (h.asks <=> c \in Askers) /\ v \in Views
  <2>1. \A b \in BOOLEAN : LET g == [asks |-> b, sent |-> TRUE, nonce |-> n]
                           IN  g \in Hellos /\ g.nonce = n /\ g.asks = b
    BY <1>3 DEF Hellos
  <2>3. \A a \in Verdicts : [nonce |-> n, sid |-> None, greeted |-> FALSE, auth |-> a] \in Views
    BY <1>3 DEF Views
  <2>4. (IF c \notin Askers THEN "NotRequested"
         ELSE IF c \in Pinned THEN "Pending" ELSE "Unverifiable") \in Verdicts
    BY DEF Verdicts
  <2>5. v \in Views
    BY <2>3, <2>4
  <2>a. CASE c \in Askers
    <3>1. h = [asks |-> TRUE, sent |-> TRUE, nonce |-> n]
      BY <2>a
    <3>2. QED
      BY <2>1, <2>a, <3>1, <2>5
  <2>b. CASE c \notin Askers
    <3>0. (c \in Askers) = FALSE
      BY <2>b
    <3>1. h = [asks |-> FALSE, sent |-> TRUE, nonce |-> n]
      BY <3>0, Zenon
    <3>2. QED
      BY <2>1, <2>b, <3>1, <2>5
  <2>6. QED
    BY <2>a, <2>b
<1> HIDE DEF h, v
<1>5. /\ OwnerGrows /\ owner' \in [Nonces \cup Sids -> Clients \cup {None}]
      /\ n # None => owner'[n] = c
  BY <1>0, <1>1, <1>3 DEF OwnerGrows, Types
<1>6. Types'
  BY <1>0, <1>1, <1>2, <1>4, <1>5 DEF Types
<1>7. /\ peer'[s] = c /\ hello'[s] = h
      /\ \A t \in Slots \ {s} : peer'[t] = peer[t] /\ hello'[t] = hello[t]
  BY <1>0, <1>1, <1>2 DEF Types
<1>8. sess[s].nonce = None /\ Sigs(wire[s]) = {}
  BY <1>1 DEF IInv, SessionIsOwn, HelloIsOwn
<1>9. \A t \in Slots : /\ hello[t].nonce \in Nonces \cup {None}
                       /\ sess[t].nonce \in Nonces \cup {None}
                       /\ sess[t].sid \in Sids \cup {None}
                       /\ Sigs(wire[t]) \subseteq Pairs
  BY <1>0, SigsArePairs DEF Types, Hellos, Sessions
<1>10. HelloIsOwn'
  <2> SUFFICES ASSUME NEW t \in Slots
               PROVE  /\ hello'[t].sent \/ hello'[t].nonce # None => peer'[t] # None
                      /\ hello'[t].asks => hello'[t].nonce # None
                      /\ hello'[t].nonce # None => owner'[hello'[t].nonce] = peer'[t]
                      /\ Sigs(wire'[t]) # {} => peer'[t] # None
    BY DEF HelloIsOwn
  <2>1. CASE t = s
    BY <2>1, <1>0, <1>3, <1>4, <1>5, <1>7
  <2>2. CASE t # s
    <3>1. /\ hello[t].sent \/ hello[t].nonce # None => peer[t] # None
          /\ hello[t].asks => hello[t].nonce # None
          /\ hello[t].nonce # None => owner[hello[t].nonce] = peer[t]
          /\ Sigs(wire[t]) # {} => peer[t] # None
      BY DEF IInv, HelloIsOwn
    <3>2. hello[t].nonce # None => owner'[hello[t].nonce] = peer[t]
      BY <3>1, <1>5, <1>9 DEF OwnerGrows
    <3>3. QED
      BY <3>1, <3>2, <2>2, <1>1, <1>7
  <2>3. QED
    BY <2>1, <2>2
<1>11. SessionIsOwn'
  <2> SUFFICES ASSUME NEW t \in Slots
               PROVE  /\ sess[t].sid # None =>
                           /\ sess[t].who # None /\ owner'[sess[t].sid] = sess[t].who
                           /\ peer'[t] \in {None, sess[t].who}
                           /\ sess[t].pending => sess[t].nonce # None
                      /\ sess[t].nonce # None =>
                           sess[t].sid # None /\ owner'[sess[t].nonce] = sess[t].who
    BY <1>1 DEF SessionIsOwn
  <2>1. CASE t = s
    BY <2>1, <1>1, <1>8
  <2>2. CASE t # s
    BY <2>2, <1>5, <1>7, <1>9 DEF IInv, SessionIsOwn, OwnerGrows
  <2>3. QED
    BY <2>1, <2>2
<1>12. JobIsOwn'
  <2>1. \A j \in jobs : j.sid \in Sids \cup {None} /\ j.nonce \in Nonces \cup {None}
    BY <1>0 DEF Types, Pairs
  <2>2. QED
    BY <2>1, <1>1, <1>5 DEF IInv, JobIsOwn, OwnerGrows
<1>13. WireIsOwn'
  <2> SUFFICES ASSUME NEW t \in Slots, NEW g \in Sigs(wire[t]), g # NoSignature
               PROVE  /\ g.sid # None /\ g.nonce # None
                      /\ owner'[g.sid] = peer'[t] /\ owner'[g.nonce] = peer'[t]
    BY <1>1 DEF WireIsOwn
  <2>1. t # s
    BY <1>8
  <2>2. g.sid \in Sids \cup {None} /\ g.nonce \in Nonces \cup {None}
    BY <1>9 DEF Pairs
  <2>3. peer[t] # None
    BY DEF IInv, HelloIsOwn
  <2>4. QED
    BY <2>1, <2>2, <2>3, <1>5, <1>7 DEF IInv, WireIsOwn, OwnerGrows
<1>14. HelloIsFirst'
  <2> SUFFICES ASSUME NEW t \in Slots, hello'[t].nonce # None
               PROVE  /\ \A u \in Slots : u # t => hello'[u].nonce # hello'[t].nonce
                      /\ \A u \in Slots : sess[u].nonce # hello'[t].nonce
                      /\ \A j \in jobs : j.nonce # hello'[t].nonce
                      /\ \A u \in Slots : \A g \in Sigs(wire[u]) : g.nonce # hello'[t].nonce
    BY <1>1 DEF HelloIsFirst
  <2>1. CASE t = s
    BY <2>1, <1>3, <1>4, <1>7, UndrawnIsNowhere
  <2>2. CASE t # s
    <3>1. hello[t].nonce # n
      BY <2>2, <1>3, <1>7, UndrawnIsNowhere
    <3>2. QED
      BY <3>1, <2>2, <1>4, <1>7 DEF IInv, HelloIsFirst
  <2>3. QED
    BY <2>1, <2>2
<1>15. ArmedIsUnsigned' /\ JobIsUnsent'
  BY <1>1 DEF IInv, ArmedIsUnsigned, JobIsUnsent
<1>16. QED
  BY <1>6, <1>10, <1>11, <1>12, <1>13, <1>14, <1>15 DEF IInv

LEMMA TakeKeeps ==
  ASSUME IInv, NEW s \in Slots, TakePendingSignJob(s)
  PROVE  IInv'
<1> DEFINE j == Signature(sess[s])
<1>0. Types
  BY DEF IInv
<1>1. /\ sess[s].pending /\ jobs' = jobs \cup {j}
      /\ sess' = [sess EXCEPT ![s].pending = FALSE]
      /\ UNCHANGED <<peer, hello, wire, inline, at, client, owner>>
  BY DEF TakePendingSignJob
<1>2. j \in Pairs /\ j.sid = sess[s].sid /\ j.nonce = sess[s].nonce
  BY <1>0 DEF Signature, Pairs, Types, Sessions
<1>3. /\ sess' \in [Slots -> Sessions]
      /\ \A t \in Slots : /\ sess'[t].sid = sess[t].sid /\ sess'[t].who = sess[t].who
                          /\ sess'[t].nonce = sess[t].nonce
      /\ \A t \in Slots \ {s} : sess'[t] = sess[t]
      /\ sess'[s].pending = FALSE
  <2> DEFINE e == [sess[s] EXCEPT !.pending = FALSE]
  <2>1. sess \in [Slots -> Sessions]
    BY <1>0 DEF Types
  <2>2. sess' = [sess EXCEPT ![s] = e]
    BY <1>1, Zenon
  <2>3. /\ e \in Sessions /\ e.sid = sess[s].sid /\ e.who = sess[s].who
        /\ e.nonce = sess[s].nonce /\ e.pending = FALSE
    BY <2>1, PendingEdit
  <2> HIDE DEF e
  <2>4. QED
    BY <2>1, <2>2, <2>3
<1> HIDE DEF j
<1>4. Types'
  BY <1>0, <1>1, <1>2, <1>3 DEF Types
<1>5. HelloIsOwn' /\ WireIsOwn'
  BY <1>1 DEF IInv, HelloIsOwn, WireIsOwn
<1>6. SessionIsOwn'
  BY <1>1, <1>3 DEF IInv, SessionIsOwn
<1>7. JobIsOwn'
  BY <1>1, <1>2 DEF IInv, JobIsOwn, SessionIsOwn
<1>8. HelloIsFirst'
  BY <1>1, <1>2, <1>3 DEF IInv, HelloIsFirst
<1>9. ArmedIsUnsigned'
  <2> SUFFICES ASSUME NEW t \in Slots, sess[t].nonce # None
               PROVE  /\ \A u \in Slots : u # t => sess[u].nonce # sess[t].nonce
                      /\ sess'[t].pending =>
                           /\ \A k \in jobs' : k.nonce # sess[t].nonce
                           /\ \A u \in Slots : \A g \in Sigs(wire[u]) : g.nonce # sess[t].nonce
    BY <1>1, <1>3 DEF ArmedIsUnsigned
  <2>1. \A u \in Slots : u # t => sess[u].nonce # sess[t].nonce
    BY DEF IInv, ArmedIsUnsigned
  <2>2. ASSUME sess'[t].pending
        PROVE  /\ \A k \in jobs' : k.nonce # sess[t].nonce
               /\ \A u \in Slots : \A g \in Sigs(wire[u]) : g.nonce # sess[t].nonce
    <3>1. t # s /\ sess[t].pending
      BY <2>2, <1>3
    <3>2. QED
      BY <3>1, <2>1, <1>1, <1>2 DEF IInv, ArmedIsUnsigned
  <2>3. QED
    BY <2>1, <2>2
<1>10. JobIsUnsent'
  <2>1. j.nonce # None => /\ \A k \in jobs : k.nonce # j.nonce
                          /\ \A t \in Slots : \A g \in Sigs(wire[t]) : g.nonce # j.nonce
    BY <1>1, <1>2 DEF IInv, ArmedIsUnsigned
  <2>2. QED
    BY <2>1, <1>1 DEF IInv, JobIsUnsent
<1>11. QED
  BY <1>4, <1>5, <1>6, <1>7, <1>8, <1>9, <1>10 DEF IInv

LEMMA SubmitKeeps ==
  ASSUME IInv, NEW j \in jobs, NEW s \in Slots, NEW sent \in BOOLEAN,
         SubmitSignature(j, s, sent)
  PROVE  IInv'
<1> DEFINE f == [type |-> "HUB_SIG", sid |-> None, sig |-> j]
<1>0. Types
  BY DEF IInv
<1>1. /\ sess[s].sid = j.sid /\ sess[s].sid # None /\ peer[s] # None
      /\ jobs' = jobs \ {j}
      /\ sess' = [sess EXCEPT ![s].delivered = TRUE]
      /\ wire' = [wire EXCEPT ![s] = IF sent THEN Append(wire[s], f) ELSE wire[s]]
      /\ UNCHANGED <<peer, hello, inline, at, client, owner>>
  BY DEF SubmitSignature, Recipient, Occupied
<1>2. f \in Frames /\ f.sig = j
  BY <1>0 DEF Frames, Types
<1> HIDE DEF f
<1>3. /\ Append(wire[s], f) \in Seq(Frames)
      /\ \A g \in Sigs(Append(wire[s], f)) : g \in Sigs(wire[s]) \/ g = j
  BY <1>0, <1>2, SigsAppend DEF Types
<1>4. /\ wire' \in [Slots -> Seq(Frames)]
      /\ \A t \in Slots : \A g \in Sigs(wire'[t]) : g \in Sigs(wire[t]) \/ (t = s /\ g = j)
  BY <1>0, <1>1, <1>3 DEF Types
<1>5. /\ sess' \in [Slots -> Sessions]
      /\ \A t \in Slots : /\ sess'[t].sid = sess[t].sid /\ sess'[t].who = sess[t].who
                          /\ sess'[t].nonce = sess[t].nonce
                          /\ sess'[t].pending = sess[t].pending
  BY <1>0, <1>1 DEF Types, Sessions
<1>6. Types'
  BY <1>0, <1>1, <1>4, <1>5 DEF Types
<1>7. /\ j.nonce # None /\ owner[j.sid] = peer[s] /\ owner[j.nonce] = peer[s]
  BY <1>1 DEF IInv, JobIsOwn, SessionIsOwn
<1>8. HelloIsOwn'
  BY <1>1, <1>4 DEF IInv, HelloIsOwn
<1>9. SessionIsOwn'
  BY <1>1, <1>5 DEF IInv, SessionIsOwn
<1>10. JobIsOwn'
  BY <1>1 DEF IInv, JobIsOwn
<1>11. WireIsOwn'
  BY <1>1, <1>4, <1>7 DEF IInv, WireIsOwn
<1>12. HelloIsFirst'
  BY <1>1, <1>4, <1>5 DEF IInv, HelloIsFirst
<1>13. ArmedIsUnsigned'
  BY <1>1, <1>4, <1>5 DEF IInv, ArmedIsUnsigned
<1>14. JobIsUnsent'
  BY <1>1, <1>4, <1>7 DEF IInv, JobIsUnsent
<1>15. QED
  BY <1>6, <1>8, <1>9, <1>10, <1>11, <1>12, <1>13, <1>14 DEF IInv

(* armWelcomeSignature() moves the nonce of HELLO into the session, and    *)
(* from there, when it signs inline, straight onto the link.               *)
LEMMA WelcomeKeeps ==
  ASSUME IInv, Types', NEW s \in Slots, NEW base \in Sessions, NEW gone \in SUBSET (Slots \ {s}),
         NEW after \in [Slots -> Sessions], NEW sent \in BOOLEAN,
         hello[s].sent, Welcome(s, base, gone, after, sent),
         base.sid # None, base.who = peer[s], owner'[base.sid] = peer[s],
         OwnerGrows, jobs' = jobs,
         \A x \in Slots \ {s} : \/ after[x] = sess[x]
                                \/ after[x].sid = None /\ after[x].nonce = None
  PROVE  IInv'
<1> DEFINE signs == hello[s].asks
           p     == signs /\ ~inline /\ sent
           d     == signs /\ inline
           n     == hello[s].nonce
           new   == [base EXCEPT !.nonce = n, !.stale = FALSE,
                                 !.pending = p, !.delivered = d]
           sig   == IF signs /\ inline THEN Signature(new) ELSE NoSignature
           f     == [type |-> "WELCOME", sid |-> new.sid, sig |-> sig]
<1>0. /\ Types /\ peer[s] # None
      /\ hello[s].asks => hello[s].nonce # None
      /\ hello[s].nonce # None => owner[hello[s].nonce] = peer[s]
  BY DEF IInv, HelloIsOwn
<1>1. /\ sess' = [after EXCEPT ![s] = new]
      /\ peer' = [x \in Slots |-> IF x \in gone THEN None ELSE peer[x]]
      /\ hello' = [x \in Slots |-> IF x \in gone \cup {s} THEN NoHello ELSE hello[x]]
      /\ wire' = [x \in Slots |-> IF x \in gone THEN <<>>
                                  ELSE IF x = s /\ sent THEN Append(wire[s], f) ELSE wire[x]]
  BY Zenon DEF Welcome
<1>2. /\ n \in Nonces \cup {None} /\ hello[s].asks \in BOOLEAN /\ inline \in BOOLEAN
      /\ wire[s] \in Seq(Frames)
  BY <1>0 DEF Types, Hellos
<1>3. p \in BOOLEAN /\ d \in BOOLEAN /\ (p => signs /\ ~inline)
  BY <1>2
<1> DEFINE E(m, a, b) == [base EXCEPT !.nonce = m, !.stale = FALSE,
                                      !.pending = a, !.delivered = b]
<1>4. \A m \in Nonces \cup {None} : \A a, b \in BOOLEAN :
         /\ E(m, a, b) \in Sessions /\ E(m, a, b).sid = base.sid
         /\ E(m, a, b).who = base.who /\ E(m, a, b).nonce = m /\ E(m, a, b).pending = a
  <2> SUFFICES ASSUME NEW m \in Nonces \cup {None}, NEW a \in BOOLEAN, NEW b \in BOOLEAN
               PROVE  /\ E(m, a, b) \in Sessions /\ E(m, a, b).sid = base.sid
                      /\ E(m, a, b).who = base.who /\ E(m, a, b).nonce = m
                      /\ E(m, a, b).pending = a
    OBVIOUS
  <2>1. E(m, a, b) \in Sessions
    BY DEF Sessions
  <2>2. /\ E(m, a, b).sid = base.sid /\ E(m, a, b).who = base.who
        /\ E(m, a, b).nonce = m /\ E(m, a, b).pending = a
    BY DEF Sessions
  <2>3. QED
    BY <2>1, <2>2
<1>5. new \in Sessions /\ new.sid = base.sid /\ new.who = base.who /\ new.nonce = n
      /\ new.pending = p
  <2>1. n \in Nonces \cup {None}
    BY <1>2
  <2>2. new = E(n, p, d)
    OBVIOUS
  <2> HIDE DEF p, d, n, E, new
  <2>3. QED
    BY <2>1, <2>2, <1>3, <1>4
<1> HIDE DEF new
<1>6. /\ sig \in Pairs
      /\ sig # NoSignature => signs /\ inline /\ sig.sid = base.sid /\ sig.nonce = n
      /\ sig.nonce \in {None, n}
  <2>1. Signature(new).sid = base.sid /\ Signature(new).nonce = n /\ Signature(new) \in Pairs
    BY <1>5 DEF Signature, Pairs, Sessions
  <2>2. NoSignature \in Pairs /\ NoSignature.nonce = None
    BY BlankFacts DEF NoSignature
  <2>3. QED
    BY <2>1, <2>2
<1>7. f \in Frames /\ f.sig = sig
  <2> HIDE DEF sig
  <2>1. new.sid \in Sids \cup {None}
    BY <1>5 DEF Sessions
  <2>2. QED
    BY <2>1, <1>6 DEF Frames
<1> HIDE DEF f, sig
<1>8. \A g \in Sigs(Append(wire[s], f)) : g \in Sigs(wire[s]) \/ g = sig
  BY <1>2, <1>7, SigsAppend
<1>9. /\ \A x \in gone : peer'[x] = None /\ Sigs(wire'[x]) = {}
      /\ \A x \in Slots \ gone : peer'[x] = peer[x]
      /\ \A x \in Slots : \A g \in Sigs(wire'[x]) : g \in Sigs(wire[x]) \/ (x = s /\ g = sig)
      /\ \A x \in gone \cup {s} : hello'[x] = NoHello
      /\ \A x \in Slots \ (gone \cup {s}) : hello'[x] = hello[x]
  BY <1>0, <1>1, <1>8, SigsEmpty
<1>10. /\ sess'[s] = new
       /\ \A x \in Slots \ {s} : sess'[x] = after[x]
  BY <1>1
<1>11. \A t \in Slots : /\ hello[t].nonce \in Nonces \cup {None}
                        /\ sess[t].nonce \in Nonces \cup {None}
                        /\ sess[t].sid \in Sids \cup {None}
                        /\ Sigs(wire[t]) \subseteq Pairs
  BY <1>0, SigsArePairs DEF Types, Hellos, Sessions
<1>12. owner'[n] = peer[s] \/ n = None
  BY <1>0, <1>2 DEF OwnerGrows
<1> HIDE DEF new, p, d
<1>13. HelloIsOwn'
  <2> SUFFICES ASSUME NEW t \in Slots
               PROVE  /\ hello'[t].sent \/ hello'[t].nonce # None => peer'[t] # None
                      /\ hello'[t].asks => hello'[t].nonce # None
                      /\ hello'[t].nonce # None => owner'[hello'[t].nonce] = peer'[t]
                      /\ Sigs(wire'[t]) # {} => peer'[t] # None
    BY DEF HelloIsOwn
  <2>1. CASE t \in gone
    BY <2>1, <1>9 DEF NoHello
  <2>2. CASE t = s
    BY <2>2, <1>0, <1>9 DEF NoHello
  <2>3. CASE t \notin gone /\ t # s
    <3>1. /\ hello[t].sent \/ hello[t].nonce # None => peer[t] # None
          /\ hello[t].asks => hello[t].nonce # None
          /\ hello[t].nonce # None => owner[hello[t].nonce] = peer[t]
          /\ Sigs(wire[t]) # {} => peer[t] # None
      BY DEF IInv, HelloIsOwn
    <3>2. hello[t].nonce # None => owner'[hello[t].nonce] = peer[t]
      BY <3>1, <1>11 DEF OwnerGrows
    <3>3. QED
      BY <3>1, <3>2, <2>3, <1>9
  <2>4. QED
    BY <2>1, <2>2, <2>3
<1>14. SessionIsOwn'
  <2> SUFFICES ASSUME NEW t \in Slots
               PROVE  /\ sess'[t].sid # None =>
                           /\ sess'[t].who # None /\ owner'[sess'[t].sid] = sess'[t].who
                           /\ peer'[t] \in {None, sess'[t].who}
                           /\ sess'[t].pending => sess'[t].nonce # None
                      /\ sess'[t].nonce # None =>
                           sess'[t].sid # None /\ owner'[sess'[t].nonce] = sess'[t].who
    BY DEF SessionIsOwn
  <2>1. CASE t = s
    BY <2>1, <1>0, <1>3, <1>5, <1>9, <1>10, <1>12
  <2>2. CASE t # s
    <3>1. CASE sess'[t] = sess[t]
      BY <3>1, <2>2, <1>9, <1>11 DEF IInv, SessionIsOwn, OwnerGrows
    <3>2. CASE sess'[t].sid = None /\ sess'[t].nonce = None
      BY <3>2
    <3>3. QED
      BY <3>1, <3>2, <2>2, <1>10
  <2>3. QED
    BY <2>1, <2>2
<1>15. JobIsOwn'
  <2>1. \A j \in jobs : j.sid \in Sids \cup {None} /\ j.nonce \in Nonces \cup {None}
    BY <1>0 DEF Types, Pairs
  <2>2. QED
    BY <2>1 DEF IInv, JobIsOwn, OwnerGrows
<1>16. WireIsOwn'
  <2> SUFFICES ASSUME NEW t \in Slots, NEW g \in Sigs(wire'[t]), g # NoSignature
               PROVE  /\ g.sid # None /\ g.nonce # None
                      /\ owner'[g.sid] = peer'[t] /\ owner'[g.nonce] = peer'[t]
    BY DEF WireIsOwn
  <2>1. t \notin gone /\ peer'[t] = peer[t]
    BY <1>9
  <2>2. CASE t = s /\ g = sig
    BY <2>1, <2>2, <1>0, <1>6, <1>12
  <2>3. CASE g \in Sigs(wire[t])
    <3>1. g.sid \in Sids \cup {None} /\ g.nonce \in Nonces \cup {None}
      BY <2>3, <1>11 DEF Pairs
    <3>2. peer[t] # None
      BY <2>3 DEF IInv, HelloIsOwn
    <3>3. QED
      BY <2>1, <2>3, <3>1, <3>2 DEF IInv, WireIsOwn, OwnerGrows
  <2>4. QED
    BY <2>2, <2>3, <1>9
<1>a. \A t \in Slots \ {s} : sess'[t].nonce # None => sess'[t] = sess[t]
  BY <1>10
<1>b. n # None => /\ \A t \in Slots : t # s => hello[t].nonce # n
                  /\ \A t \in Slots : sess[t].nonce # n
                  /\ \A j \in jobs : j.nonce # n
                  /\ \A t \in Slots : \A g \in Sigs(wire[t]) : g.nonce # n
  BY DEF IInv, HelloIsFirst
<1> HIDE DEF n, signs
<1>17. HelloIsFirst'
  <2> SUFFICES ASSUME NEW t \in Slots, hello'[t].nonce # None
               PROVE  /\ \A u \in Slots : u # t => hello'[u].nonce # hello'[t].nonce
                      /\ \A u \in Slots : sess'[u].nonce # hello'[t].nonce
                      /\ \A j \in jobs : j.nonce # hello'[t].nonce
                      /\ \A u \in Slots : \A g \in Sigs(wire'[u]) : g.nonce # hello'[t].nonce
    BY DEF HelloIsFirst
  <2>1. t # s /\ t \notin gone /\ hello'[t] = hello[t] /\ hello[t].nonce # n
    BY <1>9, <1>b DEF NoHello
  <2>2. /\ \A u \in Slots : u # t => hello[u].nonce # hello[t].nonce
        /\ \A u \in Slots : sess[u].nonce # hello[t].nonce
        /\ \A j \in jobs : j.nonce # hello[t].nonce
        /\ \A u \in Slots : \A g \in Sigs(wire[u]) : g.nonce # hello[t].nonce
    BY <2>1 DEF IInv, HelloIsFirst
  <2>3. \A u \in Slots : u # t => hello'[u].nonce # hello'[t].nonce
    BY <2>1, <2>2, <1>9 DEF NoHello
  <2>4. \A u \in Slots : sess'[u].nonce # hello'[t].nonce
    BY <2>1, <2>2, <1>a, <1>5, <1>10
  <2>5. \A u \in Slots : \A g \in Sigs(wire'[u]) : g.nonce # hello'[t].nonce
    <3>1. sig.nonce \in {None, n}
      BY <1>6
    <3>2. sig.nonce # hello[t].nonce
      BY <2>1, <3>1
    <3>3. QED
      <4>1. \A u \in Slots : Sigs(wire'[u]) \subseteq Sigs(wire[u]) \cup {sig}
        BY <1>9
      <4>2. \A u \in Slots : \A g \in Sigs(wire[u]) \cup {sig} : g.nonce # hello[t].nonce
        BY <2>2, <3>2
      <4>3. QED
        BY <2>1, <4>1, <4>2
  <2>6. QED
    BY <2>1, <2>2, <2>3, <2>4, <2>5
<1>18. ArmedIsUnsigned'
  <2> SUFFICES ASSUME NEW t \in Slots, sess'[t].nonce # None
               PROVE  /\ \A u \in Slots : u # t => sess'[u].nonce # sess'[t].nonce
                      /\ sess'[t].pending =>
                           /\ \A j \in jobs : j.nonce # sess'[t].nonce
                           /\ \A u \in Slots : \A g \in Sigs(wire'[u]) : g.nonce # sess'[t].nonce
    BY DEF ArmedIsUnsigned
  <2>1. CASE t = s
    <3>1. sess'[t].nonce = n /\ (sess'[t].pending => ~inline)
      BY <2>1, <1>3, <1>5, <1>10
    <3>2. \A u \in Slots : u # t => sess'[u].nonce # sess'[t].nonce
      BY <3>1, <2>1, <1>a, <1>b
    <3>3. ASSUME sess'[t].pending
          PROVE  \A u \in Slots : \A g \in Sigs(wire'[u]) : g.nonce # n
      <4>1. sig.nonce = None
        BY <3>1, <3>3, <1>6 DEF NoSignature
      <4>2. QED
        BY <4>1, <3>1, <1>9, <1>b
    <3>4. QED
      BY <3>1, <3>2, <3>3, <1>b
  <2>2. CASE t # s
    <3>1. sess'[t] = sess[t]
      BY <2>2, <1>a
    <3>2. /\ \A u \in Slots : u # t => sess[u].nonce # sess[t].nonce
          /\ sess[t].pending =>
               /\ \A j \in jobs : j.nonce # sess[t].nonce
               /\ \A u \in Slots : \A g \in Sigs(wire[u]) : g.nonce # sess[t].nonce
      BY <3>1 DEF IInv, ArmedIsUnsigned
    <3>3. sess[t].nonce # n
      BY <3>1, <1>b
    <3>4. \A u \in Slots : u # t => sess'[u].nonce # sess'[t].nonce
      BY <3>1, <3>2, <3>3, <1>a, <1>5, <1>10
    <3>5. sess[t].pending => \A u \in Slots : \A g \in Sigs(wire'[u]) : g.nonce # sess[t].nonce
      BY <3>1, <3>2, <3>3, <1>6, <1>9
    <3>6. QED
      BY <3>1, <3>2, <3>4, <3>5
  <2>3. QED
    BY <2>1, <2>2
<1>19. JobIsUnsent'
  <2>1. \A j \in jobs : j.nonce # None => j.nonce # sig.nonce
    BY <1>6, <1>b
  <2>2. \A j \in jobs : j.nonce # None =>
           \A t \in Slots : \A g \in Sigs(wire[t]) \cup {sig} : g.nonce # j.nonce
    BY <2>1 DEF IInv, JobIsUnsent
  <2>3. \A t \in Slots : Sigs(wire'[t]) \subseteq Sigs(wire[t]) \cup {sig}
    BY <1>9
  <2>4. QED
    BY <2>2, <2>3 DEF IInv, JobIsUnsent
<1>20. QED
  BY <1>13, <1>14, <1>15, <1>16, <1>17, <1>18, <1>19 DEF IInv

(* The types after WELCOME *)
LEMMA WelcomeTypes ==
  ASSUME Types, NEW s \in Slots, NEW base \in Sessions, NEW gone \in SUBSET Slots,
         NEW after \in [Slots -> Sessions], NEW sent \in BOOLEAN,
         Welcome(s, base, gone, after, sent),
         owner' \in [Nonces \cup Sids -> Clients \cup {None}],
         UNCHANGED <<jobs, inline, client>>
  PROVE  Types'
<1> DEFINE signs == hello[s].asks
           p     == signs /\ ~inline /\ sent
           d     == signs /\ inline
           n     == hello[s].nonce
           new   == [base EXCEPT !.nonce = n, !.stale = FALSE,
                                 !.pending = p, !.delivered = d]
           sig   == IF signs /\ inline THEN Signature(new) ELSE NoSignature
           f     == [type |-> "WELCOME", sid |-> new.sid, sig |-> sig]
<1>1. /\ sess' = [after EXCEPT ![s] = new]
      /\ peer' = [x \in Slots |-> IF x \in gone THEN None ELSE peer[x]]
      /\ hello' = [x \in Slots |-> IF x \in gone \cup {s} THEN NoHello ELSE hello[x]]
      /\ wire' = [x \in Slots |-> IF x \in gone THEN <<>>
                                  ELSE IF x = s /\ sent THEN Append(wire[s], f) ELSE wire[x]]
      /\ at' = [c \in Clients |-> IF at[c] \in gone THEN None ELSE at[c]]
  BY Zenon DEF Welcome
<1>2. n \in Nonces \cup {None} /\ p \in BOOLEAN /\ d \in BOOLEAN
  BY DEF Types, Hellos
<1>3. new \in Sessions
  <2> HIDE DEF n, p, d
  <2>1. QED
    BY <1>2 DEF Sessions
<1> HIDE DEF new
<1>4. Signature(new) \in Pairs /\ new.sid \in Sids \cup {None}
  BY <1>3 DEF Signature, Pairs, Sessions
<1>5. sig \in Pairs
  BY <1>4, BlankFacts
<1> HIDE DEF sig
<1>6. f \in Frames
  BY <1>4, <1>5 DEF Frames
<1> HIDE DEF f
<1>7. Append(wire[s], f) \in Seq(Frames) /\ <<>> \in Seq(Frames)
  BY <1>6, SigsAppend DEF Types
<1>8. wire' \in [Slots -> Seq(Frames)]
  BY <1>1, <1>7 DEF Types
<1>9. sess' \in [Slots -> Sessions] /\ peer' \in [Slots -> Clients \cup {None}]
      /\ hello' \in [Slots -> Hellos] /\ at' \in [Clients -> Slots \cup {None}]
  BY <1>1, <1>3, BlankFacts DEF Types
<1>10. QED
  BY <1>8, <1>9 DEF Types

LEMMA HelloFreshKeeps ==
  ASSUME IInv, NEW s \in Slots, NEW sid \in Sids, NEW sent \in BOOLEAN,
         HelloFresh(s, sid, sent)
  PROVE  IInv'
<1> DEFINE base  == [NoSession EXCEPT !.sid = sid, !.who = peer[s]]
           after == [x \in Slots |-> IF x \in Naming(peer[s], s) THEN NoSession ELSE sess[x]]
<1>0. Types /\ peer[s] \in Clients \cup {None} /\ sid # None
  BY SigningConstants DEF IInv, Types
<1>1. /\ hello[s].sent /\ owner[sid] = None /\ Welcome(s, base, {}, after, sent)
      /\ owner' = [owner EXCEPT ![sid] = peer[s]]
      /\ UNCHANGED <<jobs, inline, client>>
  BY DEF HelloFresh, Undrawn
<1>2. base \in Sessions /\ base.sid = sid /\ base.who = peer[s]
  BY <1>0 DEF NoSession, Sessions
<1>3. /\ after \in [Slots -> Sessions]
      /\ \A x \in Slots : after[x] = sess[x] \/ after[x] = NoSession
  BY <1>0, BlankFacts DEF Types
<1> HIDE DEF base, after
<1>4. /\ owner' \in [Nonces \cup Sids -> Clients \cup {None}]
      /\ OwnerGrows /\ owner'[sid] = peer[s]
  BY <1>0, <1>1 DEF Types, OwnerGrows
<1>5. Types'
  BY <1>0, <1>1, <1>2, <1>3, <1>4, WelcomeTypes
<1>6. QED
  BY <1>0, <1>1, <1>2, <1>3, <1>4, <1>5, WelcomeKeeps DEF NoSession

LEMMA HelloReattachKeeps ==
  ASSUME IInv, NEW s \in Slots, NEW x \in Slots, NEW sent \in BOOLEAN,
         HelloReattach(s, x, sent)
  PROVE  IInv'
<1> DEFINE base  == [NoSession EXCEPT !.sid = sess[x].sid, !.who = sess[x].who]
           left  == [NoSession EXCEPT !.pending = sess[x].pending,
                                      !.delivered = sess[x].delivered]
           after == [sess EXCEPT ![x] = left]
<1>0. Types /\ sess[x] \in Sessions
  BY DEF IInv, Types
<1>1. /\ hello[s].sent /\ x # s /\ sess[x].sid # None /\ sess[x].who = peer[s]
      /\ Welcome(s, base, {x}, after, sent)
      /\ UNCHANGED <<jobs, inline, client, owner>>
  BY DEF HelloReattach, Naming, Occupied
<1>2. base \in Sessions /\ base.sid = sess[x].sid /\ base.who = peer[s]
  BY <1>0, <1>1 DEF NoSession, Sessions
<1>3. left \in Sessions /\ left.sid = None /\ left.nonce = None
  BY <1>0 DEF NoSession, Sessions
<1> HIDE DEF base, left
<1>4. /\ after \in [Slots -> Sessions]
      /\ \A y \in Slots : after[y] = sess[y] \/ (after[y].sid = None /\ after[y].nonce = None)
  BY <1>0, <1>3 DEF Types
<1> HIDE DEF after
<1>5. OwnerGrows /\ owner'[base.sid] = peer[s]
  BY <1>1, <1>2 DEF IInv, SessionIsOwn, OwnerGrows
<1>6. Types'
  <2>1. owner' \in [Nonces \cup Sids -> Clients \cup {None}]
    BY <1>0, <1>1 DEF Types
  <2>2. {x} \in SUBSET Slots
    OBVIOUS
  <2>3. QED
    BY <1>0, <1>1, <1>2, <1>4, <2>1, <2>2, WelcomeTypes
<1>7. QED
  BY <1>1, <1>2, <1>4, <1>5, <1>6, WelcomeKeeps

LEMMA InitHolds == Init => IInv
<1> SUFFICES ASSUME Init PROVE IInv
  OBVIOUS
<1>1. Types
  <2> DEFINE v == [nonce |-> None, sid |-> None, greeted |-> FALSE, auth |-> "NotRequested"]
  <2>1. v \in Views /\ client = [c \in Clients |-> v]
    BY DEF Init, Views, Verdicts
  <2> HIDE DEF v
  <2>2. client \in [Clients -> Views]
    BY <2>1
  <2>3. <<>> \in Seq(Frames)
    OBVIOUS
  <2>4. wire \in [Slots -> Seq(Frames)]
    BY <2>3 DEF Init
  <2>5. sess \in [Slots -> Sessions] /\ hello \in [Slots -> Hellos]
    BY BlankFacts DEF Init
  <2>6. /\ peer \in [Slots -> Clients \cup {None}] /\ at \in [Clients -> Slots \cup {None}]
        /\ owner \in [Nonces \cup Sids -> Clients \cup {None}]
        /\ jobs \subseteq Pairs /\ inline \in BOOLEAN
    BY DEF Init
  <2>7. QED
    BY <2>2, <2>4, <2>5, <2>6 DEF Types
<1>2. /\ \A s \in Slots : Sigs(wire[s]) = {} /\ hello[s] = NoHello /\ sess[s] = NoSession
      /\ jobs = {}
  BY SigsEmpty DEF Init
<1>3. QED
  BY <1>1, <1>2 DEF IInv, HelloIsOwn, SessionIsOwn, JobIsOwn, WireIsOwn, HelloIsFirst,
     ArmedIsUnsigned, JobIsUnsent, NoHello, NoSession

LEMMA NextKeeps == IInv /\ [Next]_vars => IInv'
<1> SUFFICES ASSUME IInv, [Next]_vars PROVE IInv'
  OBVIOUS
<1>1. CASE UNCHANGED vars
  <2>1. Types'
    BY <1>1 DEF vars, IInv, Types
  <2>2. QED
    BY <1>1, <2>1, LessStep DEF vars
<1>2. CASE Greet
  <2>1. Writes \subseteq BOOLEAN
    BY SigningConstants
  <2>2. QED
    BY <1>2, <2>1, HelloFreshKeeps, HelloReattachKeeps DEF Greet
<1>3. CASE Links
  BY <1>3, LinksKeep DEF Links
<1>4. CASE Signer
  <2>1. Writes \subseteq BOOLEAN
    BY SigningConstants
  <2>2. QED
    BY <1>4, <2>1, DroppingKeeps, TakeKeeps, SubmitKeeps DEF Signer
<1>5. CASE ClientSteps
  BY <1>5, ConnectKeeps, ReceiveKeeps, TimeoutKeeps DEF ClientSteps
<1>6. QED
  BY <1>1, <1>2, <1>3, <1>4, <1>5 DEF Next

------------------------------------------------------------------------------
(* The results *)

(* Every field of the signing state, of the links and of the clients keeps *)
(* its type.                                                               *)
THEOREM SigningTypesHold == Spec => []TypeOK
<1>1. IInv => TypeOK
  BY DEF IInv, Types, TypeOK, Hellos, Sessions, Views, Frames
<1>2. QED
  BY <1>1, InitHolds, NextKeeps, PTL DEF Spec

(* submitSignature() and WELCOME never deliver one client's signature into *)
(* another client's session, however late the worker answers.              *)
THEOREM DeliveryHolds == Spec => []SignatureReachesItsClient
<1>1. IInv => SignatureReachesItsClient
  BY DEF IInv, WireIsOwn, Sigs, SignatureReachesItsClient
<1>2. QED
  BY <1>1, InitHolds, NextKeeps, PTL DEF Spec

(* takePendingSignJob() hands a nonce out once: while the worker has the   *)
(* job it is neither armed again nor on its way.                           *)
THEOREM SignedOnceHolds == Spec => []SignedOnce
<1>1. ASSUME IInv PROVE SignedOnce
  <2> SUFFICES ASSUME NEW j \in jobs, j.sid # None, NEW s \in Slots
               PROVE  /\ ~(sess[s].pending /\ Signature(sess[s]) = j)
                      /\ \A n \in 1 .. Len(wire[s]) : wire[s][n].sig # j
    BY DEF SignedOnce
  <2>1. j.nonce # None
    BY <1>1 DEF IInv, JobIsOwn
  <2>2. Signature(sess[s]).nonce = sess[s].nonce
    BY DEF Signature
  <2>3. ~(sess[s].pending /\ Signature(sess[s]) = j)
    BY <1>1, <2>1, <2>2 DEF IInv, ArmedIsUnsigned
  <2>4. \A g \in Sigs(wire[s]) : g # j
    BY <1>1, <2>1 DEF IInv, JobIsUnsent
  <2>5. QED
    BY <2>3, <2>4 DEF Sigs
<1>2. QED
  BY <1>1, InitHolds, NextKeeps, PTL DEF Spec
=============================================================================
