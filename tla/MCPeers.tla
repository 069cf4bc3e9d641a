------------------------------- MODULE MCPeers ------------------------------
(***************************************************************************)
(* Parts that share no state, checked in one run: a behaviour is one of    *)
(* exactly one of them, and its first state says of which.  The task store *)
(* of a node; the shared memory of a team and the scan of its events; the  *)
(* commands that write the trust files; the transports of a task; the      *)
(* drain of the mailbox; the bridge to raven-node; and of the reference    *)
(* protocol the pairing of devices, the store of revoked devices, the      *)
(* double ratchet, the braid session and its anchor.                       *)
(***************************************************************************)
EXTENDS TaskStore, TeamBoard, TrustFiles, Delivery, MeshDrain, SealIpc, Pairing,
        DeviceRevocation, Ratchet, Braid, ProtectedAnchor, EventLog

CONSTANTS o1, o2, o3, o4, k1, k2, r1, r2, r3, h1, h2, h3, d1, cA, cB,
          x, y, u, v, s1, s2

VARIABLE part   \* the part that runs

\* Agents 1 and 2 share clone cA, whose clock is ahead of that of cB; a task of
\* agent 3 is in the remote branch, and cA has yet to pull it.
MCCloneOf   == (1 :> cA) @@ (2 :> cA) @@ (3 :> cB)
MCAhead     == (cA :> 1) @@ (cB :> 0)
MCPublished == {[w |-> 3, at |-> 0, n |-> 0, kind |-> "task", id |-> 1]}
MCCalls     == (1 :> {"task", "claim"}) @@ (2 :> {"task", "claim", "release", "goal"})
                 @@ (3 :> {"post"})

\* Two objects with one task, one with another, one without any, in the order
\* in which they are listed.
MCCarries  == (o1 :> k1) @@ (o2 :> k1) @@ (o3 :> k2) @@ (o4 :> Garbage)
MCPosition == (o1 :> 1) @@ (o2 :> 2) @@ (o3 :> 3) @@ (o4 :> 4)

\* Two devices that share a handle; one id for all; the first and the last
\* claim at one place of their issuer.
MCHandles      == (r1 :> {h1}) @@ (r2 :> {h1, h2}) @@ (r3 :> {h3})
MCRevocationId == [r \in RevokeClaims |-> 1]
MCIssuer       == [r \in RevokeClaims |-> d1]
MCIssuerSeq    == (r1 :> 1) @@ (r2 :> 2) @@ (r3 :> 1)

\* One side sends four messages, the other three.
MCMaxSent == (Alice :> 4) @@ (Bob :> 3)

\* The clock of y is ahead; a seal over a socket and one over a pipe; a session
\* that may be deleted, and one that is only begun.
MCPairAhead    == (x :> 0) @@ (y :> 1)
MCTransport    == (u :> "unix") @@ (v :> "pipe")
MCMaxAnchorSeq == (s1 :> 4) @@ (s2 :> 1)

\* One name for each of two directories, and one of another delta.
MCLogDir == <<1, 2, 2>>

Parts == {"store", "board", "trust", "delivery", "mesh", "seal", "pairing", "revoke",
          "ratchet", "braid", "anchor", "events"}

PeersInit ==
    /\ part \in Parts
    /\ Init /\ BoardInit /\ TrustInit /\ DeliveryInit /\ MeshInit /\ RevokeInit
    /\ RatchetInit /\ BraidInit /\ SealInit /\ PairInitially /\ AnchorInit
    /\ EventInit
    /\ part # "trust" => home.settings = {}
    /\ part # "delivery" => /\ options.kind = "do" /\ ~options.mailbox
                            /\ known = [m \in Teammates |-> {}]

\* The parts other than p stand still.
OthersRest(p) ==
    /\ UNCHANGED part
    /\ IF p = "store" THEN TRUE ELSE UNCHANGED vars
    /\ IF p = "board" THEN TRUE ELSE UNCHANGED boardVars
    /\ IF p = "trust" THEN TRUE ELSE UNCHANGED trustVars
    /\ IF p = "delivery" THEN TRUE ELSE UNCHANGED deliveryVars
    /\ IF p = "mesh" THEN TRUE ELSE UNCHANGED meshVars
    /\ IF p = "seal" THEN TRUE ELSE UNCHANGED sealVars
    /\ IF p = "pairing" THEN TRUE ELSE UNCHANGED pairVars
    /\ IF p = "revoke" THEN TRUE ELSE UNCHANGED revokeVars
    /\ IF p = "ratchet" THEN TRUE ELSE UNCHANGED ratchetVars
    /\ IF p = "braid" THEN TRUE ELSE UNCHANGED braidVars
    /\ IF p = "anchor" THEN TRUE ELSE UNCHANGED anchorVars
    /\ IF p = "events" THEN TRUE ELSE UNCHANGED eventVars

PeersNext ==
    \/ part = "store" /\ OthersRest("store") /\ Next
    \/ part = "board" /\ OthersRest("board") /\ BoardNext
    \/ part = "trust" /\ OthersRest("trust") /\ TrustNext
    \/ part = "delivery" /\ OthersRest("delivery") /\ DeliveryNext
    \/ part = "mesh" /\ OthersRest("mesh") /\ MeshNext
    \/ part = "seal" /\ OthersRest("seal") /\ SealNext
    \/ part = "pairing" /\ OthersRest("pairing") /\ PairNext
    \/ part = "revoke" /\ OthersRest("revoke") /\ RevokeNext
    \/ part = "ratchet" /\ OthersRest("ratchet") /\ RatchetNext
    \/ part = "braid" /\ OthersRest("braid") /\ BraidNext
    \/ part = "anchor" /\ OthersRest("anchor") /\ AnchorNext
    \/ part = "events" /\ OthersRest("events") /\ EventNext

\* Every variable of the part that runs has its type, and the list of handled
\* objects on disk keeps its length; the other parts keep their first states.
PeersTypeOK ==
    CASE part = "store" -> TypeOK
      [] part = "board" -> BoardTypeOK
      [] part = "trust" -> TrustTypeOK
      [] part = "delivery" -> DeliveryTypeOK
      [] part = "mesh" -> MeshTypeOK
      [] part = "seal" -> SealTypeOK
      [] part = "pairing" -> PairTypeOK
      [] part = "revoke" -> RevokeTypeOK
      [] part = "ratchet" -> RatchetTypeOK
      [] part = "braid" -> BraidTypeOK
      [] part = "anchor" -> AnchorTypeOK
      [] part = "events" -> EventTypeOK
=============================================================================
