----------------------------- MODULE HubSigning -----------------------------
(***************************************************************************)
(* The hub proves which machine it is: a client that asks sends a nonce in *)
(* HELLO, and the hub signs nonce, session id and boot id, either inside   *)
(* WELCOME or later in HUB_SIG, when a worker of the application took the  *)
(* job, computed for tens of milliseconds and handed the result back       *)
(* (hub/hub_impl.hpp, the deferred-signing queue).  The client compares    *)
(* with the key it pinned when it was paired (client/client_impl.hpp).     *)
(*                                                                         *)
(* The hub is the honest one: it signs with the pinned key.  A signature   *)
(* is therefore the pair it was made for, and verifies when that pair is   *)
(* the client's own nonce and session (the boot id never changes while the *)
(* worker and the sessions live).  Links keep the order of their frames;   *)
(* any frame may fail to be written.                                       *)
(***************************************************************************)
EXTENDS Integers, Sequences, FiniteSets

CONSTANTS
    Slots,              \* the hub's slots
    Clients,            \* devices, each with its instance id
    Nonces,             \* the nonces clients draw, never twice
    Sids,               \* the session ids the hub draws, never twice
    None,               \* no client, nonce or session
    Askers,             \* the clients that request a signature
    Pinned,             \* the clients that hold the hub's public key
    Writes              \* whether a write may succeed, and whether it may fail

ASSUME SigningConstants ==
    /\ None \notin Clients \cup Nonces \cup Sids
    /\ Askers \subseteq Clients /\ Pinned \subseteq Clients
    /\ Writes \subseteq BOOLEAN

VARIABLES
    peer,      \* the client at the other end of each slot's transport
    hello,     \* the HELLO underway on that transport: its nonce
    wire,      \* the frames underway to that client
    sess,      \* the session in each slot, with its signing state
    jobs,      \* the sign jobs the worker has taken
    inline,    \* _inlineSigning
    at,        \* the slot of the transport each client reads
    client,    \* each client's nonce, session and verdict
    owner      \* for which client each nonce and session id was drawn

vars == <<peer, hello, wire, sess, jobs, inline, at, client, owner>>

(* HELLO as it waits: who sends it, with which nonce.                      *)
NoHello == [asks |-> FALSE, sent |-> FALSE, nonce |-> None]
(* Slot::clientNonce, signPending, signDelivered; None for hasClientNonce  *)
(* or sigRequested unset, which a client sets together.                    *)
NoSession == [sid |-> None, who |-> None, stale |-> FALSE, nonce |-> None,
              pending |-> FALSE, delivered |-> FALSE]
(* HubAuthState.                                                           *)
Verdicts == {"NotRequested", "Pending", "Unverifiable", "Verified",
             "Mismatch", "Timeout"}

Occupied == {s \in Slots : sess[s].sid # None}
Undrawn(S) == {x \in S : owner[x] = None}

Init ==
    /\ peer = [s \in Slots |-> None]
    /\ hello = [s \in Slots |-> NoHello]
    /\ wire = [s \in Slots |-> <<>>]
    /\ sess = [s \in Slots |-> NoSession]
    /\ jobs = {}
    /\ inline = FALSE
    /\ at = [c \in Clients |-> None]
    /\ client = [c \in Clients |->
                   [nonce |-> None, sid |-> None, greeted |-> FALSE,
                    auth |-> "NotRequested"]]
    /\ owner = [x \in Nonces \cup Sids |-> None]

-----------------------------------------------------------------------------
(* Client::connect(): the old verdict is forgotten, a fresh nonce is drawn *)
(* and HELLO leaves on a new transport, which the hub puts in a free slot. *)
(* The old transport, if any, stays attached until the hub notices.        *)
FreshNonce(c) == IF c \in Askers THEN Undrawn(Nonces) ELSE {None}

Connect(c, s, n) ==
    /\ peer[s] = None /\ s \notin Occupied
    /\ n \in FreshNonce(c)
    /\ at' = [at EXCEPT ![c] = s]
    /\ peer' = [peer EXCEPT ![s] = c]
    /\ hello' = [hello EXCEPT ![s] = [asks |-> c \in Askers, sent |-> TRUE, nonce |-> n]]
    /\ client' = [client EXCEPT ![c] =
                    [nonce |-> n, sid |-> None, greeted |-> FALSE,
                     auth |-> IF c \notin Askers THEN "NotRequested"
                              ELSE IF c \in Pinned THEN "Pending" ELSE "Unverifiable"]]
    /\ owner' = [x \in DOMAIN owner |-> IF x = n THEN c ELSE owner[x]]
    /\ UNCHANGED <<wire, sess, jobs, inline>>

-----------------------------------------------------------------------------
(* armWelcomeSignature() and the end of handleHello and handleReattach:    *)
(* `base' is the session that slot s now holds, `after' the other slots;   *)
(* those in gone lose their transports.  WELCOME carries the signature     *)
(* when signing is inline, else the job is armed once WELCOME was written. *)
Signature(b) == [sid |-> b.sid, nonce |-> b.nonce]
NoSignature  == [sid |-> None, nonce |-> None]

Welcome(s, base, gone, after, sent) ==
    LET signs == hello[s].asks
        new   == [base EXCEPT !.nonce = hello[s].nonce, !.stale = FALSE,
                              !.pending = signs /\ ~inline /\ sent,
                              !.delivered = signs /\ inline]
    IN  /\ sess' = [after EXCEPT ![s] = new]
        /\ peer' = [x \in Slots |-> IF x \in gone THEN None ELSE peer[x]]
        /\ hello' = [x \in Slots |-> IF x \in gone \cup {s} THEN NoHello ELSE hello[x]]
        /\ wire' = [x \in Slots |->
              IF x \in gone THEN <<>>
              ELSE IF x = s /\ sent
              THEN Append(wire[s], [type |-> "WELCOME", sid |-> new.sid,
                     sig |-> IF signs /\ inline THEN Signature(new) ELSE NoSignature])
              ELSE wire[x]]
        /\ at' = [c \in Clients |-> IF at[c] \in gone THEN None ELSE at[c]]

Naming(c, s) == {x \in Occupied \ {s} : sess[x].who = c}

(* handleHello(): every other session of the device is torn down, and the  *)
(* slot's own; the session is new.                                         *)
HelloFresh(s, sid, sent) ==
    /\ hello[s].sent /\ sid \in Undrawn(Sids)
    /\ Welcome(s, [NoSession EXCEPT !.sid = sid, !.who = peer[s]], {},
               [x \in Slots |-> IF x \in Naming(peer[s], s) THEN NoSession ELSE sess[x]],
               sent)
    /\ owner' = [owner EXCEPT ![sid] = peer[s]]
    /\ UNCHANGED <<jobs, inline, client>>

(* handleReattach(): the device's parked session moves to this slot with   *)
(* its id; its signing state does not.  The slot it leaves is closed and   *)
(* emptied, but for the two signing flags.                                 *)
HelloReattach(s, x, sent) ==
    /\ hello[s].sent /\ x \in Naming(peer[s], s) /\ sess[x].stale
    /\ Welcome(s, [NoSession EXCEPT !.sid = sess[x].sid, !.who = sess[x].who], {x},
               [sess EXCEPT ![x] = [NoSession EXCEPT !.pending = sess[x].pending,
                                                     !.delivered = sess[x].delivered]],
               sent)
    /\ UNCHANGED <<jobs, inline, client, owner>>

-----------------------------------------------------------------------------
(* What happens to sessions and links.                                     *)

(* parkAndDetach(): the transport is gone.  A session that was not parked  *)
(* yet loses its signing state with it.                                    *)
LoseLink(s) ==
    /\ peer[s] # None
    /\ peer' = [peer EXCEPT ![s] = None]
    /\ hello' = [hello EXCEPT ![s] = NoHello]
    /\ wire' = [wire EXCEPT ![s] = <<>>]
    /\ sess' = [sess EXCEPT ![s] =
                  IF s \in Occupied /\ ~@.stale
                  THEN [@ EXCEPT !.stale = TRUE, !.nonce = None,
                                 !.pending = FALSE, !.delivered = FALSE]
                  ELSE @]
    /\ at' = [c \in Clients |-> IF at[c] = s THEN None ELSE at[c]]
    /\ UNCHANGED <<jobs, inline, client, owner>>

(* pumpDeadman(), pumpIdleReap(): silence parks the session on its link.   *)
FallSilent(s) ==
    /\ s \in Occupied /\ ~sess[s].stale /\ peer[s] # None
    /\ sess' = [sess EXCEPT ![s].stale = TRUE]
    /\ UNCHANGED <<peer, hello, wire, jobs, inline, at, client, owner>>

(* reviveIfStale(): a frame of the client that still reads this link.      *)
Revive(s) ==
    /\ s \in Occupied /\ sess[s].stale
    /\ \E c \in Clients : at[c] = s
    /\ sess' = [sess EXCEPT ![s].stale = FALSE]
    /\ UNCHANGED <<peer, hello, wire, jobs, inline, at, client, owner>>

(* teardownSession().                                                      *)
EndSession(s) ==
    /\ s \in Occupied
    /\ sess' = [sess EXCEPT ![s] = NoSession]
    /\ UNCHANGED <<peer, hello, wire, jobs, inline, at, client, owner>>

-----------------------------------------------------------------------------
(* The queue: the application's worker and the hub.                        *)

SetInlineSigning(on) ==
    /\ inline # on
    /\ inline' = on
    /\ UNCHANGED <<peer, hello, wire, sess, jobs, at, client, owner>>

(* Mutant: the job stays armed while the worker has it.                    *)
TakePendingSignJobAgain(s) ==
    /\ sess[s].pending
    /\ jobs' = jobs \cup {Signature(sess[s])}
    /\ UNCHANGED <<peer, hello, wire, sess, inline, at, client, owner>>

(* takePendingSignJob(): the job names what the slot holds now; a slot     *)
(* that a reattach emptied hands out a job of no session.                  *)
TakePendingSignJob(s) ==
    /\ sess[s].pending
    /\ jobs' = jobs \cup {Signature(sess[s])}
    /\ sess' = [sess EXCEPT ![s].pending = FALSE]
    /\ UNCHANGED <<peer, hello, wire, inline, at, client, owner>>

(* The worker gives up, or the hub has no key pair.                        *)
AbandonJob(j) ==
    /\ jobs' = jobs \ {j}
    /\ UNCHANGED <<peer, hello, wire, sess, inline, at, client, owner>>

(* Mutant: the slot is not asked whose session it holds now.               *)
RecipientUnchecked(j) ==
    {s \in Occupied : ~sess[s].delivered /\ peer[s] # None}

(* submitSignature(): the slots that take signature j, at most one.        *)
Recipient(j) ==
    {s \in Occupied : sess[s].sid = j.sid /\ ~sess[s].delivered /\ peer[s] # None}

(* emitHubSig() may fail to write; the session counts as served.           *)
SubmitSignature(j, s, sent) ==
    /\ s \in Recipient(j)
    /\ jobs' = jobs \ {j}
    /\ sess' = [sess EXCEPT ![s].delivered = TRUE]
    /\ wire' = [wire EXCEPT ![s] = IF sent
          THEN Append(@, [type |-> "HUB_SIG", sid |-> None, sig |-> j]) ELSE @]
    /\ UNCHANGED <<peer, hello, inline, at, client, owner>>

SubmitRefused(j) ==
    /\ Recipient(j) = {}
    /\ jobs' = jobs \ {j}
    /\ UNCHANGED <<peer, hello, wire, sess, inline, at, client, owner>>

-----------------------------------------------------------------------------
(* The client.                                                             *)

(* adoptHubSignature(): the first verdict stands, a late one after the     *)
(* timeout still counts.                                                   *)
Judge(k, sig) ==
    IF k.auth \in {"Verified", "Mismatch", "NotRequested", "Unverifiable"} THEN k.auth
    ELSE IF sig = [sid |-> k.sid, nonce |-> k.nonce] THEN "Verified"
    ELSE "Mismatch"

(* handleWelcome() once per connection, handleHubSig() always.             *)
Receive(c) ==
    LET s == at[c] IN
    /\ s # None /\ wire[s] # <<>>
    /\ wire' = [wire EXCEPT ![s] = Tail(@)]
    /\ LET f == Head(wire[s])
           k == client[c]
           w == [k EXCEPT !.sid = f.sid, !.greeted = TRUE]
       IN client' = [client EXCEPT ![c] =
             IF f.type = "HUB_SIG" THEN [k EXCEPT !.auth = Judge(k, f.sig)]
             ELSE IF k.greeted THEN k
             ELSE IF f.sig = NoSignature THEN w
             ELSE [w EXCEPT !.auth = Judge(w, f.sig)]]
    /\ UNCHANGED <<peer, hello, sess, jobs, inline, at, owner>>

(* pumpHubSigTimeout().                                                    *)
PumpHubSigTimeout(c) ==
    /\ client[c].auth = "Pending"
    /\ client' = [client EXCEPT ![c].auth = "Timeout"]
    /\ UNCHANGED <<peer, hello, wire, sess, jobs, inline, at, owner>>

-----------------------------------------------------------------------------
Greet ==
    \E s \in Slots, sent \in Writes :
       \/ \E sid \in Sids : HelloFresh(s, sid, sent)
       \/ \E x \in Slots : HelloReattach(s, x, sent)

Links ==
    \E s \in Slots :
       \/ LoseLink(s)
       \/ FallSilent(s)
       \/ Revive(s)
       \/ EndSession(s)

Signer ==
    \/ \E on \in BOOLEAN : SetInlineSigning(on)
    \/ \E s \in Slots : TakePendingSignJob(s)
    \/ \E j \in jobs :
         \/ AbandonJob(j)
         \/ \E s \in Slots, sent \in Writes : SubmitSignature(j, s, sent)
         \/ SubmitRefused(j)

ClientSteps ==
    \E c \in Clients :
       \/ \E s \in Slots, n \in Nonces \cup {None} : Connect(c, s, n)
       \/ Receive(c)
       \/ PumpHubSigTimeout(c)

Next == Greet \/ Links \/ Signer \/ ClientSteps

Spec == Init /\ [][Next]_vars

-----------------------------------------------------------------------------
Pairs == [sid : Sids \cup {None}, nonce : Nonces \cup {None}]

(* Type correctness.                                                       *)
TypeOK ==
    /\ peer \in [Slots -> Clients \cup {None}]
    /\ \A s \in Slots : hello[s].nonce \in Nonces \cup {None}
    /\ \A s \in Slots : wire[s] \in Seq([type : {"WELCOME", "HUB_SIG"},
                                         sid : Sids \cup {None}, sig : Pairs])
    /\ \A s \in Slots : sess[s].sid \in Sids \cup {None}
    /\ jobs \subseteq Pairs
    /\ inline \in BOOLEAN
    /\ at \in [Clients -> Slots \cup {None}]
    /\ \A c \in Clients : client[c].auth \in Verdicts
    /\ owner \in [Nonces \cup Sids -> Clients \cup {None}]

(* Nobody receives what was signed for somebody else, however long the     *)
(* worker takes and whoever has the slot by then (hub_impl.hpp,            *)
(* submitSignature(): "delivering one client's signature into another      *)
(* client's session").                                                     *)
SignatureReachesItsClient ==
    \A s \in Slots : \A n \in 1 .. Len(wire[s]) :
       LET f == wire[s][n] IN
       f.sig # NoSignature => /\ owner[f.sig.sid] = peer[s]
                              /\ owner[f.sig.nonce] = peer[s]

(* No nonce is signed twice: a job the worker has is neither armed again   *)
(* nor on its way (takePendingSignJob(): at most once).                    *)
SignedOnce ==
    \A j \in jobs : j.sid # None =>
       \A s \in Slots :
          /\ ~(sess[s].pending /\ Signature(sess[s]) = j)
          /\ \A n \in 1 .. Len(wire[s]) : wire[s][n].sig # j

(* "The session-id re-check is the whole safety of the async contract": a  *)
(* client never takes its own hub, which signs with the pinned key, for    *)
(* another machine.                                                        *)
HonestHubIsNeverDisowned ==
    \A c \in Clients : client[c].auth # "Mismatch"
=============================================================================
