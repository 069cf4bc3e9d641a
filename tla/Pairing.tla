------------------------------- MODULE Pairing ------------------------------
(***************************************************************************)
(* Pairing of two devices: prekey bundles and the PairInit / PairResponse  *)
(* exchange of pair_init.py (V1) and pair_init_v2.py (V2).  Messages are   *)
(* kept, delivered in any order and any number of times, or altered on the *)
(* way.  A signature, a hash and a derived root are the values they stand  *)
(* for: the signer with what was signed, the message, the message with the *)
(* secrets.  Each device has its own clock and rotates its prekeys.        *)
(***************************************************************************)
EXTENDS Naturals, FiniteSets

CONSTANTS
    Devices,
    PairAhead,     \* [Devices -> Nat]: how far its clock is ahead
    OneTimeIds,    \* one_time_prekey_id; 0 stands for none
    Lifetimes,     \* how long an init or a response is declared valid
    MaxPairClock,  \* bound: the clock
    MaxInits,      \* bound: inits sent
    MaxMishaps     \* bound: altered messages and rotations

ASSUME PairingTimes == PairAhead \in [Devices -> Nat] /\ Lifetimes \subseteq Nat

VARIABLES
    pairClock,
    bundle,     \* [Devices -> its current prekey bundle]
    wire,       \* messages and bundles that were sent, altered ones included
    pending,    \* [Devices -> inits of its own that it may still confirm]
    accepted,   \* what responders have accepted and answered
    confirmed,  \* what initiators have seen confirmed
    mishaps     \* messages altered and prekeys rotated until now

pairVars == <<pairClock, bundle, wire, pending, accepted, confirmed, mishaps>>

PairTime(d) == pairClock + PairAhead[d]

Signed(d, body) == [body |-> body, by |-> d, of |-> body]
Genuine(m, d)   == m.by = d /\ m.of = m.body

\* A bundle and the window for which its prekeys and certificates are valid.
NewBundle(d, n, otp) ==
    [kind |-> "bundle", from |-> d, spk |-> n, otp |-> otp, otpKey |-> otp # 0,
     since |-> PairTime(d), until |-> PairTime(d) + 3]

PairInitially ==
    /\ pairClock = 0 /\ mishaps = 0
    /\ \E otp \in [Devices -> OneTimeIds] :
          bundle = [d \in Devices |-> NewBundle(d, 1, otp[d])]
    /\ wire = {Signed(d, bundle[d]) : d \in Devices}
    /\ pending = [d \in Devices |-> {}]
    /\ accepted = {} /\ confirmed = {}

-----------------------------------------------------------------------------
\* What is checked of a message.

\* A one-time key without an id, or an id without a key, cannot be signed.
PrekeyVerifies(m) ==
    /\ m.body.kind = "bundle"
    /\ m.body.otpKey = (m.body.otp # 0)
    /\ Genuine(m, m.body.from)

\* decode_init and _validate_init of a version, before any trust.
InitDecodes(m, v) ==
    /\ m.body.kind = "init" /\ m.body.v = v
    /\ m.body.from # m.body.to
    /\ m.body.spk # 0
    /\ m.body.otpKey = (m.body.otp # 0)
    /\ m.body.created < m.body.expires

ResponseDecodes(m, v) ==
    /\ m.body.kind = "response" /\ m.body.v = v
    /\ m.body.created < m.body.expires

\* verify_init, with what the responder d expects: its own address, device and
\* current bundle, and the window in which it trusts them.
InitVerifies(m, d) ==
    LET b == m.body  mine == bundle[d] IN
    /\ InitDecodes(m, 1)
    /\ b.to = d
    /\ b.spk = mine.spk /\ b.otp = mine.otp /\ b.hash = mine
    /\ mine.since <= b.created /\ b.expires <= mine.until
    /\ b.created <= PairTime(d) /\ PairTime(d) < b.expires
    /\ Genuine(m, b.from)

\* verify_init_signature: all that V2 checks here.
InitVerifiesV2(m) == InitDecodes(m, 2) /\ Genuine(m, m.body.from)

\* derive_provisional_root, or pair_expand, of a device that has the secrets of
\* the prekeys, or has encapsulated to them.
Root(m, secrets) == <<m, secrets>>

Tag(root, m) == <<root, m>>

\* Mutant: the answer may outlive the init.
ResponseOutlives(m, init, root, d) ==
    LET b == m.body  i == init.body IN
    /\ ResponseDecodes(m, i.v)
    /\ b.id = i.id /\ b.hash = init /\ b.from = i.to
    /\ i.created <= b.created /\ b.created < i.expires
    /\ b.created <= PairTime(d) /\ PairTime(d) < b.expires
    /\ b.tag = Tag(root, init)
    /\ Genuine(m, b.from)

\* verify_response against an init of one's own and the root derived for it.
ResponseVerifies(m, init, root, d) ==
    LET b == m.body  i == init.body IN
    /\ ResponseDecodes(m, i.v)
    /\ b.id = i.id /\ b.hash = init /\ b.from = i.to
    /\ i.created <= b.created /\ b.created < i.expires /\ b.expires <= i.expires
    /\ b.created <= PairTime(d) /\ PairTime(d) < b.expires
    /\ b.tag = Tag(root, init)
    /\ Genuine(m, b.from)

-----------------------------------------------------------------------------
\* Steps of the devices.

Inits == UNION {pending[d] : d \in Devices}

\* A device picks a verified bundle, fresh or not, and sends an init; every init
\* has an id of its own.
Initiate(d) ==
    /\ Cardinality(Inits) < MaxInits
    /\ \E m \in wire, v \in {1, 2}, life \in Lifetimes :
          /\ PrekeyVerifies(m) /\ m.body.from # d
          /\ LET init == Signed(d,
                   [kind |-> "init", v |-> v, from |-> d, to |-> m.body.from,
                    id |-> Cardinality(Inits), spk |-> m.body.spk, otp |-> m.body.otp,
                    otpKey |-> m.body.otpKey, hash |-> m.body,
                    created |-> PairTime(d), expires |-> PairTime(d) + life])
             IN  /\ pending' = [pending EXCEPT ![d] = @ \cup {init}]
                 /\ wire' = wire \cup {init}
    /\ UNCHANGED <<pairClock, bundle, accepted, confirmed, mishaps>>

\* The responder derives the root and answers, for as long as it likes; nothing
\* here remembers an init, so it may answer it again.
Answer(d) ==
    /\ \E m \in wire, life \in Lifetimes :
          /\ InitVerifies(m, d)
          /\ LET root == Root(m, bundle[d])
                 reply == [kind |-> "response", v |-> 1, id |-> m.body.id, hash |-> m, from |-> d,
                           created |-> PairTime(d), expires |-> PairTime(d) + life,
                           tag |-> Tag(root, m)]
             IN  /\ accepted' = accepted \cup {[init |-> m, by |-> d, root |-> root,
                                                at |-> PairTime(d)]}
                 /\ wire' = wire \cup {Signed(d, reply)}
    /\ UNCHANGED <<pairClock, bundle, pending, confirmed, mishaps>>

\* A V2 init is opened on its signature alone.
OpenV2(d) ==
    /\ \E m \in wire :
          /\ InitVerifiesV2(m) /\ m.body.to = d
          /\ accepted' = accepted \cup {[init |-> m, by |-> d, root |-> Root(m, bundle[d]),
                                         at |-> PairTime(d)]}
    /\ UNCHANGED <<pairClock, bundle, wire, pending, confirmed, mishaps>>

\* The initiator's own root rests on the bundle its init was made from.
Confirm(d) ==
    /\ \E init \in pending[d], m \in wire :
          LET root == Root(init, init.body.hash) IN
          /\ ResponseVerifies(m, init, root, d)
          /\ confirmed' = confirmed \cup {[init |-> init, root |-> root, at |-> PairTime(d)]}
    /\ UNCHANGED <<pairClock, bundle, wire, pending, accepted, mishaps>>

\* New prekeys replace the old ones, whose secrets are gone.
Rotate(d) ==
    /\ mishaps < MaxMishaps /\ mishaps' = mishaps + 1
    /\ \E o \in OneTimeIds :
          LET next == NewBundle(d, bundle[d].spk + 1, o) IN
          /\ bundle' = [bundle EXCEPT ![d] = next]
          /\ wire' = wire \cup {Signed(d, next)}
    /\ UNCHANGED <<pairClock, pending, accepted, confirmed>>

\* A copy that differs in the version, the one-time key, a validity or the sender.
Alter ==
    /\ mishaps < MaxMishaps /\ mishaps' = mishaps + 1
    /\ \E m \in wire :
          \E b \in {[m.body EXCEPT !.from = d] : d \in Devices}
                   \cup (IF m.body.kind = "bundle" THEN {[m.body EXCEPT !.otpKey = ~@]}
                         ELSE {[m.body EXCEPT !.v = 3 - @], [m.body EXCEPT !.expires = @ + 1]}) :
             wire' = wire \cup {[m EXCEPT !.body = b]}
    /\ UNCHANGED <<pairClock, bundle, pending, accepted, confirmed>>

PairTick ==
    /\ pairClock < MaxPairClock /\ pairClock' = pairClock + 1
    /\ UNCHANGED <<bundle, wire, pending, accepted, confirmed, mishaps>>

PairNext ==
    \/ \E d \in Devices : Initiate(d) \/ Answer(d) \/ OpenV2(d) \/ Confirm(d) \/ Rotate(d)
    \/ Alter
    \/ PairTick

PairSpec == PairInitially /\ [][PairNext]_pairVars

-----------------------------------------------------------------------------
\* Properties.

PairTypeOK ==
    /\ pairClock \in 0 .. MaxPairClock /\ mishaps \in 0 .. MaxMishaps
    /\ \A d \in Devices : bundle[d].from = d /\ bundle[d].spk \in 1 .. MaxMishaps + 1
    /\ Cardinality(Inits) <= MaxInits

\* Whatever was lost, repeated, delayed or altered on the way and whatever
\* prekeys were rotated: when an initiator sees an init confirmed, the init is
\* still valid by its clock, and its responder has accepted that init, unaltered
\* and of that version, while it was valid by the responder's, and has the same
\* root; and an init that a device has answered or opened is one that its sender
\* has made for that device.
PairingSound ==
    /\ \A c \in confirmed :
          /\ c.at < c.init.body.expires
          /\ \E a \in accepted :
                /\ a.init = c.init /\ a.root = c.root /\ a.by = c.init.body.to
                /\ a.init.body.created <= a.at /\ a.at < a.init.body.expires
    /\ \A a \in accepted : a.init.body.to = a.by /\ a.init \in pending[a.init.body.from]
=============================================================================
