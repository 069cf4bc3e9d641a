------------------------------- MODULE Braid --------------------------------
(***************************************************************************)
(* One reference braid session: the four steps of the agent that           *)
(* full_braid_transition.py takes, with the reassembly of sources, the     *)
(* authenticator, the sealed message that confirms an epoch's output key   *)
(* and the chains that come of it; the pipeline each step is prepared for  *)
(* (prepared, promoted, cleared); and crashes.  The other steps of the     *)
(* agent and the driver of the pipeline belong to the production runtime   *)
(* and are modelled only as far as these steps need them.  Key material is *)
(* a term made of its owner, the generation and the attempt that sampled   *)
(* it; the double ratchet's own keys are in Ratchet, here are its counters.*)
(***************************************************************************)
EXTENDS Naturals, Sequences, FiniteSets, FiniteSetsExt, SequencesExt

CONSTANTS
    FirstSender,     \* the side that starts in KeysUnsampled
    FirstReceiver,   \* the side that starts in NoHeaderReceived
    HdrChunks,       \* systematic chunks of a header source
    Ct2Chunks,       \* systematic chunks of a CT2 source
    MaxChain,        \* MAX_SCKA_CHAIN
    MaxReplays,      \* MAX_REPLAYS
    MaxEpoch,        \* bound: epochs
    MaxBraidCrashes  \* bound: crashes

ASSUME BraidConstants ==
    /\ FirstSender # FirstReceiver
    /\ HdrChunks \in Nat \ {0} /\ Ct2Chunks \in Nat \ {0} /\ MaxChain \in Nat \ {0}
    /\ MaxReplays \in Nat /\ MaxEpoch \in Nat \ {0} /\ MaxBraidCrashes \in Nat

Sides == {FirstSender, FirstReceiver}
Facing(p) == IF p = FirstSender THEN FirstReceiver ELSE FirstSender
Needed == [HDR |-> HdrChunks, CT1 |-> 1, CT2 |-> Ct2Chunks]

VARIABLES
    braid,    \* [Sides -> RVFB1 state]
    intent,   \* [Sides -> what is being prepared, or NoIntent]
    frames,   \* frames released to the network, which keeps and repeats them
    crashes

braidVars == <<braid, intent, frames, crashes>>

NoIntent == [kind |-> "none"]
NoSend   == [kind |-> "none"]
NoSeal   == [dh |-> 0]

EmptySet(kind, epoch) == [kind |-> kind, epoch |-> epoch, chunks |-> {}]

BraidInit ==
    /\ braid = [p \in Sides |->
         [agent |-> IF p = FirstSender THEN "KeysUnsampled" ELSE "NoHeaderReceived",
          epoch |-> 1, sendEpoch |-> 0, recvEpoch |-> 0,
          generation |-> 0, phase |-> 0, replays |-> {},
          sets   |-> IF p = FirstSender THEN {} ELSE {EmptySet("HDR", 1)},
          active |-> NoSend,
          tlvs   |-> <<>>,                                 \* [tags -> terms]
          auth   |-> <<>>,                                 \* output keys mixed into it
          scka   |-> [root |-> <<>>, send |-> {}, recv |-> {}],
          ec     |-> [dh |-> IF p = FirstSender THEN 1 ELSE 2, dhr |-> 1,
                      ns |-> 0, nr |-> 0, pn |-> 0]]]
    /\ intent = [p \in Sides |-> NoIntent]
    /\ frames = {}
    /\ crashes = 0

\* Randomness of this attempt.
Sampled(p) == <<p, braid[p].generation, crashes>>

-----------------------------------------------------------------------------
\* The authenticator: its root has every output key mixed in, in order.

OutputKey(secret, epoch) == <<secret, epoch>>
AuthUpdated(s, key)      == [s EXCEPT !.auth = Append(@, key)]
Mac(s, body)             == <<s.auth, s.epoch, body>>

-----------------------------------------------------------------------------
\* Sources travel as frames, one for each chunk.

\* The next chunk of the active source, with the message it seals, if any.
Emitted(p, s, seal) ==
    [from |-> p, kind |-> s.active.kind, epoch |-> s.epoch, index |-> s.active.next,
     payload |-> <<s.active.source, s.active.next>>, seal |-> seal]

\* Frames whose binding is that of the other side's direction, and of the kind
\* and the epoch that p waits for.
Bound(p, kind) ==
    {f \in frames : f.from = Facing(p) /\ f.kind = kind /\ f.epoch = braid[p].epoch}

\* The inbound set of a frame, which may have to be begun.
SetOf(s, f) ==
    IF \E i \in s.sets : i.kind = f.kind /\ i.epoch = f.epoch
    THEN CHOOSE i \in s.sets : i.kind = f.kind /\ i.epoch = f.epoch
    ELSE EmptySet(f.kind, f.epoch)

Conflicts(s, f) ==
    \E c \in SetOf(s, f).chunks : c.index = f.index /\ c.payload # f.payload

Inserted(s, f) ==
    LET old == SetOf(s, f) IN
    [s EXCEPT !.sets = (@ \ {old}) \cup
         {[old EXCEPT !.chunks = @ \cup {[index |-> f.index, payload |-> f.payload]}]}]

Complete(s, f) ==
    {c.index : c \in SetOf(Inserted(s, f), f).chunks} = 0 .. Needed[f.kind] - 1

\* What the chunks spell: one source, or a mixture that no authenticator takes.
Spells(s, f, source) ==
    \A c \in SetOf(Inserted(s, f), f).chunks : c.payload = <<source, c.index>>

-----------------------------------------------------------------------------
\* The chains of the epochs, of which the newest MaxChain are kept.

Linked(chain, epoch) ==
    LET all == (chain \ {epoch}) \cup {epoch} IN
    IF Cardinality(all) > MaxChain THEN all \ {Min(all)} ELSE all

MixedSend(s, key) ==
    [s EXCEPT !.scka = [root |-> Append(@.root, key), send |-> Linked(@.send, s.epoch),
                        recv |-> @.recv]]

MixedReceive(s, key) ==
    [s EXCEPT !.scka = [root |-> Append(@.root, key), send |-> @.send,
                        recv |-> Linked(@.recv, s.epoch)]]

\* A message is sealed with the next key of the double ratchet and the output
\* key of the epoch.
Sealed(s, key) == [dh |-> s.ec.dh, pn |-> s.ec.pn, n |-> s.ec.ns, key |-> key]
Confirmed(s)   == [s EXCEPT !.ec.ns = @ + 1]

\* It opens with the same output key, under the ratchet key known, unless the
\* counter goes back, or under a new one, unless that leaves behind messages
\* already passed.
Opens(s, seal, key) ==
    /\ seal.key = key
    /\ IF seal.dh = s.ec.dhr THEN seal.n >= s.ec.nr ELSE seal.pn >= s.ec.nr

Opened(s, seal) ==
    IF seal.dh = s.ec.dhr THEN [s EXCEPT !.ec.nr = seal.n + 1]
    ELSE [s EXCEPT !.ec = [dh |-> @.dh + 2, dhr |-> seal.dh, ns |-> 0,
                           nr |-> seal.n + 1, pn |-> @.ns]]

-----------------------------------------------------------------------------
\* encode_rvfb1 takes a state only with what its agent must have, and may.

Tags(agent) ==
    CASE agent \in {"KeysUnsampled", "NoHeaderReceived"} -> {}
      [] agent = "KeysSampled"       -> {1, 2, 3, 4, 8}
      [] agent = "EkSentCt1Received" -> {1, 6}
      [] agent = "HeaderReceived"    -> {2, 3}
      [] agent = "Ct1Sampled"        -> {2, 3, 5, 6}
      [] agent = "Ct2Sampled"        -> {7}

ChainsFit(s) ==
    Cardinality(s.scka.send) <= MaxChain /\ Cardinality(s.scka.recv) <= MaxChain

Encodable(s) ==
    /\ DOMAIN s.tlvs = Tags(s.agent)
    /\ Cardinality(s.replays) <= MaxReplays
    /\ \A i, j \in s.sets : i.kind = j.kind /\ i.epoch = j.epoch => i = j
    /\ \A i \in s.sets : \A c, d \in i.chunks : c.index = d.index => c = d
    /\ ChainsFit(s)

\* transition_prepare: a candidate is computed, with a replay record, and is
\* not the state yet.
Prepare(p, next, out) ==
    LET recorded == [next EXCEPT !.replays = @ \cup {braid[p].generation}, !.phase = 1] IN
    /\ braid[p].phase = 0 /\ intent[p] = NoIntent
    /\ Encodable(recorded)
    /\ intent' = [intent EXCEPT ![p] = [kind |-> "prepared", next |-> recorded, out |-> out]]
    /\ UNCHANGED <<braid, frames, crashes>>

\* Keys are sampled, and the first chunk of their header is sent.
KeysUnsampledSend(p) ==
    LET keys == Sampled(p)
        s == [braid[p] EXCEPT !.agent = "KeysSampled", !.sendEpoch = braid[p].epoch - 1,
                 !.tlvs = [t \in Tags("KeysSampled") |-> keys],
                 !.active = [kind |-> "HDR", source |-> <<keys, Mac(braid[p], keys)>>, next |-> 0]]
    IN  /\ braid[p].agent = "KeysUnsampled"
        /\ Prepare(p, [s EXCEPT !.active.next = 1], {Emitted(p, s, NoSeal)})

\* A chunk of the header, into an inbound set that is still empty.
HdrReceive(p) ==
    \E f \in Bound(p, "HDR") :
       /\ braid[p].agent = "NoHeaderReceived"
       /\ \E i \in braid[p].sets : braid[p].sets = {i} /\ i.kind = "HDR" /\ i.chunks = {}
       /\ Prepare(p, [Inserted(braid[p], f) EXCEPT !.recvEpoch = braid[p].epoch - 1], {})

\* A secret is encapsulated to the header; the output key it gives goes into the
\* authenticator, seals a message with the first chunk of CT1, and is mixed into
\* the root.
HeaderReceivedSend(p) ==
    LET keys   == braid[p].tlvs[2]
        secret == <<keys, Sampled(p)>>
        key    == OutputKey(secret, braid[p].epoch)
        s == [AuthUpdated(braid[p], key) EXCEPT !.agent = "Ct1Sampled",
                 !.tlvs = [t \in Tags("Ct1Sampled") |-> IF t \in {2, 3} THEN keys ELSE secret],
                 !.active = [kind |-> "CT1", source |-> secret, next |-> 0]]
    IN  /\ braid[p].agent = "HeaderReceived"
        /\ Prepare(p, [MixedSend(Confirmed(s), key) EXCEPT !.active.next = 1,
                                                          !.sendEpoch = braid[p].epoch - 1],
                   {Emitted(p, s, Sealed(s, key))})

\* The chunk that completes CT2, whose authenticator must agree, opens the
\* message sealed with it; the output key is mixed into the root, and the next
\* epoch starts with the sides swapped.  Any other chunk is refused here.
Ct2Receive(p) ==
    \E f \in Bound(p, "CT2") :
       LET now    == braid[p]
           secret == now.tlvs[6]
           key    == OutputKey(secret, now.epoch)
           s      == AuthUpdated(now, key)
       IN  /\ now.agent = "EkSentCt1Received"
           /\ ~Conflicts(now, f) /\ Complete(now, f)
           /\ Spells(now, f, <<secret, Mac(s, secret)>>)
           /\ Opens(s, f.seal, key)
           /\ Prepare(p,
                [MixedReceive(Opened(s, f.seal), key) EXCEPT
                     !.agent = "NoHeaderReceived", !.epoch = @ + 1,
                     !.recvEpoch = now.epoch - 1, !.tlvs = <<>>, !.active = NoSend,
                     !.sets = {EmptySet("HDR", now.epoch + 1)}], {})

-----------------------------------------------------------------------------
\* The driver of the pipeline: the candidate becomes the state, its outputs are
\* released, and the transition is closed.

Persist(p) ==
    /\ intent[p].kind = "prepared"
    /\ braid' = [braid EXCEPT ![p] = intent[p].next]
    /\ intent' = [intent EXCEPT ![p].kind = "persisted"]
    /\ UNCHANGED <<frames, crashes>>

Promote(p) ==
    /\ intent[p].kind = "persisted" /\ braid[p].phase = 1
    /\ braid' = [braid EXCEPT ![p].phase = 2]
    /\ frames' = frames \cup intent[p].out
    /\ UNCHANGED <<intent, crashes>>

\* Mutant: the transition is closed in the generation it was prepared in.
ClearInPlace(p) ==
    /\ braid[p].phase = 2
    /\ braid' = [braid EXCEPT ![p].phase = 0]
    /\ intent' = [intent EXCEPT ![p] = NoIntent]
    /\ UNCHANGED <<frames, crashes>>

Clear(p) ==
    /\ braid[p].phase = 2
    /\ braid' = [braid EXCEPT ![p].phase = 0, ![p].generation = @ + 1]
    /\ intent' = [intent EXCEPT ![p] = NoIntent]
    /\ UNCHANGED <<frames, crashes>>

\* What was prepared and not persisted is lost.
BraidCrash(p) ==
    /\ crashes < MaxBraidCrashes /\ crashes' = crashes + 1
    /\ intent[p].kind = "prepared"
    /\ intent' = [intent EXCEPT ![p] = NoIntent]
    /\ UNCHANGED <<braid, frames>>

-----------------------------------------------------------------------------
\* Steps of the agent outside this code, each taken and released in one.

Idle(p) == braid[p].phase = 0 /\ intent[p] = NoIntent

\* Chunks of the header after the first are sent, and the one that completes it is received.
HdrElsewhere(p) ==
    \/ /\ braid[p].agent = "KeysSampled" /\ braid[p].active.next < HdrChunks
       /\ frames' = frames \cup {Emitted(p, braid[p], NoSeal)}
       /\ braid' = [braid EXCEPT ![p].active.next = @ + 1]
    \/ \E f \in Bound(p, "HDR") :
          /\ braid[p].agent = "NoHeaderReceived" /\ SetOf(braid[p], f).chunks # {}
          /\ ~Conflicts(braid[p], f) /\ Complete(braid[p], f)
          /\ LET keys == f.payload[1][1] IN
             /\ Spells(braid[p], f, <<keys, Mac(braid[p], keys)>>)
             /\ braid' = [braid EXCEPT ![p].agent = "HeaderReceived", ![p].sets = {},
                                       ![p].tlvs = [t \in {2, 3} |-> keys]]
          /\ UNCHANGED frames

\* EK is sent and CT1 is complete, or EK is complete and CT2 is sent.
Ct1Elsewhere(p) ==
    \/ \E f \in Bound(p, "CT1") :
          /\ braid[p].agent = "KeysSampled" /\ f.payload[1][1] = braid[p].tlvs[1]
          /\ braid' = [braid EXCEPT ![p].agent = "EkSentCt1Received", ![p].active = NoSend,
                 ![p].tlvs = [t \in {1, 6} |-> IF t = 1 THEN @[1] ELSE f.payload[1]]]
          /\ UNCHANGED frames
    \/ LET s      == braid[p]
           secret == s.tlvs[6]
           source == <<secret, Mac(s, secret)>>
       IN  /\ s.agent = "Ct1Sampled"
           /\ braid' = [braid EXCEPT ![p].agent = "Ct2Sampled", ![p].ec.ns = @ + Ct2Chunks,
                            ![p].tlvs = [t \in {7} |-> source], ![p].active = NoSend]
           /\ frames' = frames \cup
                {[from |-> p, kind |-> "CT2", epoch |-> s.epoch, index |-> i,
                  payload |-> <<source, i>>,
                  seal |-> [Sealed(s, OutputKey(secret, s.epoch)) EXCEPT !.n = @ + i]] :
                    i \in 0 .. Ct2Chunks - 1}

\* Chunks that do not complete their source: of a header after its first, of CT2.
ChunkElsewhere(p) ==
    \E f \in Bound(p, "HDR") \cup Bound(p, "CT2") :
       /\ \/ f.kind = "HDR" /\ braid[p].agent = "NoHeaderReceived" /\ SetOf(braid[p], f).chunks # {}
          \/ f.kind = "CT2" /\ braid[p].agent = "EkSentCt1Received"
       /\ ~Conflicts(braid[p], f) /\ ~Complete(braid[p], f)
       /\ braid' = [braid EXCEPT ![p] = Inserted(@, f)]
       /\ UNCHANGED frames

\* The end of the epoch for the sender of CT2.
EpochElsewhere(p) ==
    /\ braid[p].agent = "Ct2Sampled"
    /\ braid[Facing(p)].epoch = braid[p].epoch + 1 /\ braid[p].epoch < MaxEpoch
    /\ braid' = [braid EXCEPT ![p].agent = "KeysUnsampled", ![p].epoch = @ + 1, ![p].tlvs = <<>>]
    /\ UNCHANGED frames

ElsewhereAgent(p) ==
    /\ Idle(p)
    /\ HdrElsewhere(p) \/ Ct1Elsewhere(p) \/ ChunkElsewhere(p) \/ EpochElsewhere(p)
    /\ UNCHANGED <<intent, crashes>>

BraidNext ==
    \E p \in Sides :
       \/ KeysUnsampledSend(p) \/ HdrReceive(p) \/ HeaderReceivedSend(p) \/ Ct2Receive(p)
       \/ Persist(p) \/ Promote(p) \/ Clear(p) \/ BraidCrash(p) \/ ElsewhereAgent(p)

BraidSpec == BraidInit /\ [][BraidNext]_braidVars

-----------------------------------------------------------------------------
\* Properties.

BraidTypeOK ==
    /\ \A p \in Sides :
          /\ braid[p].agent \in {"KeysUnsampled", "KeysSampled", "EkSentCt1Received",
                "NoHeaderReceived", "HeaderReceived", "Ct1Sampled", "Ct2Sampled"}
          /\ braid[p].epoch \in 1 .. MaxEpoch + 1 /\ braid[p].phase \in 0 .. 2
          /\ intent[p].kind \in {"none", "prepared", "persisted"}
    /\ crashes \in 0 .. MaxBraidCrashes

\* Wherever a crash falls and whatever the network repeats: the place of a chunk
\* is never filled with two payloads, and no key of the double ratchet seals two
\* messages; both sides mix the same output keys into root and authenticator in
\* the same order, at most one epoch apart; an epoch has one sender, and its
\* newest is in a chain; what is persisted can be encoded again; the epochs that
\* a side reports are those it has finished; and a generation is used for at
\* most one transition, that of the pending one included.
BraidSound ==
    /\ \A f, g \in frames : f.from = g.from /\ f # g =>
          /\ <<f.kind, f.epoch, f.index>> # <<g.kind, g.epoch, g.index>>
          /\ f.seal = NoSeal \/ g.seal = NoSeal \/ <<f.seal.dh, f.seal.n>> # <<g.seal.dh, g.seal.n>>
    /\ LET a == braid[FirstSender]
           b == braid[FirstReceiver]
       IN  /\ IsPrefix(a.scka.root, b.scka.root) \/ IsPrefix(b.scka.root, a.scka.root)
           /\ IsPrefix(a.auth, b.auth) \/ IsPrefix(b.auth, a.auth)
           /\ Len(a.scka.root) <= Len(b.scka.root) + 1 /\ Len(b.scka.root) <= Len(a.scka.root) + 1
           /\ a.scka.send \cap b.scka.send = {} /\ a.scka.recv \cap b.scka.recv = {}
    /\ \A p \in Sides :
          LET s == braid[p] IN
          /\ Encodable(s)
          /\ s.scka.root # <<>> => Len(s.scka.root) \in s.scka.send \cup s.scka.recv
          /\ s.sendEpoch < s.epoch /\ s.recvEpoch < s.epoch
          /\ Cardinality(s.replays) = s.generation + (IF s.phase = 0 THEN 0 ELSE 1)
          /\ s.phase = 0 <=> intent[p].kind # "persisted"
=============================================================================
