-------------------------- MODULE ReferenceProofs ---------------------------
(***************************************************************************)
(* Proofs about parts of the reference protocol that share no state with   *)
(* each other: the store of revoked devices, for any claims and any quota; *)
(* the pairing of devices, for any devices, identities and lifetimes; the  *)
(* protected anchors, for any sessions and any number of crashes, of       *)
(* containers that are set back and of records that are damaged; the       *)
(* double ratchet, for any limits and any number of messages, turns and    *)
(* crashes; and the braid session, for any numbers of chunks, of chains    *)
(* and replay records that are kept, of epochs and of crashes.             *)
(***************************************************************************)
EXTENDS DeviceRevocation, Pairing, ProtectedAnchor, Ratchet, Braid, Sums, FiniteSetTheorems,
        SequenceTheorems, TLAPS

-----------------------------------------------------------------------------
\* The store of revocations: an acknowledged claim is applied or waits behind a
\* marker, and an applied one has its handles denied and its id on record.

Journals == {NoJournal} \cup
    [kind : {"PENDING_REVOKE", "PENDING_REVOKE_EXHAUSTED"},
     claim : RevokeClaims \cup ForeignClaims, whole : BOOLEAN]

RevokeInv ==
    /\ claims \subseteq RevokeClaims /\ exhausted \subseteq RevokeClaims
    /\ IsFiniteSet(claims)
    /\ corrupt \in Nat /\ generation \in Nat /\ maxClaims \in Quota .. MaxQuota
    /\ journal \in Journals
    /\ \A h \in DOMAIN revokedBy : revokedBy[h] \in claims
    /\ answered \subseteq claims \cup exhausted
    /\ \A c \in claims : Handles[c] \subseteq DOMAIN revokedBy
    /\ journal.kind = "PENDING_REVOKE_EXHAUSTED" => journal.claim \in exhausted
    /\ Cardinality(claims) <= maxClaims
    /\ \A c \in claims :
          /\ RevocationId[c] \in DOMAIN firstOf
          /\ \/ firstOf[RevocationId[c]] = c
             \/ <<firstOf[RevocationId[c]], c>> \in collisions

\* The first state.
LEMMA RevokeStarts ==
    ASSUME RevokeInit
    PROVE  RevokeInv
<1>1. /\ claims = {} /\ exhausted = {} /\ answered = {} /\ revokedBy = <<>>
      /\ corrupt = 0 /\ generation = 0 /\ maxClaims = Quota /\ journal = NoJournal
  BY DEF RevokeInit
<1>2. IsFiniteSet({}) /\ Cardinality({}) = 0
  BY FS_EmptySet
<1>3. journal \in Journals /\ journal.kind = "none"
  BY <1>1 DEF Journals, NoJournal
<1>4. DOMAIN revokedBy = {}
  BY <1>1
<1> QED
  BY <1>1, <1>2, <1>3, <1>4, QuotaGrows DEF RevokeInv

\* What one element more makes of a finite set.
LEMMA OneMore ==
    ASSUME NEW S, IsFiniteSet(S), NEW e
    PROVE  /\ IsFiniteSet(S \cup {e})
           /\ Cardinality(S) \in Nat /\ Cardinality(S \cup {e}) \in Nat
           /\ Cardinality(S \cup {e}) <= Cardinality(S) + 1
           /\ e \notin S => Cardinality(S \cup {e}) = Cardinality(S) + 1
<1>1. IsFiniteSet(S \cup {e}) /\ Cardinality(S \cup {e}) =
          IF e \in S THEN Cardinality(S) ELSE Cardinality(S) + 1
  BY FS_AddElement
<1>2. Cardinality(S) \in Nat
  BY FS_CardinalityType
<1> QED
  BY <1>1, <1>2

\* A claim that finds no room leaves a marker.
LEMMA ApplyExhaustedKeeps ==
    ASSUME RevokeInv, NEW c \in RevokeClaims, NEW waits \in BOOLEAN,
           ApplyExhausted(c, waits)
    PROVE  RevokeInv'
<1>1. /\ exhausted' = exhausted \cup {c} /\ generation' = generation + 1
      /\ journal' = Journal("PENDING_REVOKE_EXHAUSTED", c, TRUE)
      /\ answered' = answered \cup {c}
      /\ claims' = claims /\ revokedBy' = revokedBy /\ corrupt' = corrupt
      /\ firstOf' = firstOf /\ collisions' = collisions /\ maxClaims' = maxClaims
  BY DEF ApplyExhausted
<1>4. journal' \in Journals /\ journal'.claim = c
  <2>1. journal' = [kind |-> "PENDING_REVOKE_EXHAUSTED", claim |-> c, whole |-> TRUE]
    BY <1>1 DEF Journal
  <2> QED
    BY <2>1 DEF Journals
<1>5. /\ claims' \subseteq RevokeClaims /\ exhausted' \subseteq RevokeClaims
      /\ answered' \subseteq claims' \cup exhausted'
  BY <1>1 DEF RevokeInv
<1>7. journal'.claim \in exhausted'
  BY <1>1, <1>4
<1>8. corrupt' \in Nat /\ generation' \in Nat
  BY <1>1 DEF RevokeInv
<1>6. /\ IsFiniteSet(claims') /\ Cardinality(claims') <= maxClaims'
      /\ maxClaims' \in Quota .. MaxQuota
      /\ \A h \in DOMAIN revokedBy' : revokedBy'[h] \in claims'
      /\ \A d \in claims' : Handles[d] \subseteq DOMAIN revokedBy'
      /\ \A d \in claims' :
            /\ RevocationId[d] \in DOMAIN firstOf'
            /\ \/ firstOf'[RevocationId[d]] = d
               \/ <<firstOf'[RevocationId[d]], d>> \in collisions'
  BY <1>1 DEF RevokeInv
<1> QED
  BY <1>4, <1>5, <1>6, <1>7, <1>8 DEF RevokeInv

\* A claim that is new and finds room is inserted: the handles that were denied
\* stay denied, and the claims that came first keep their ids.
LEMMA ApplyNewKeeps ==
    ASSUME RevokeInv, NEW c \in RevokeClaims, NEW waits \in BOOLEAN, ApplyNew(c, waits)
    PROVE  RevokeInv'
<1>1. /\ MayApply(c, waits) /\ c \notin claims /\ Cardinality(claims) < maxClaims
      /\ claims' = claims \cup {c} /\ exhausted' = exhausted \ {c}
      /\ revokedBy' = [h \in DOMAIN revokedBy \cup Handles[c] |->
                         IF h \in DOMAIN revokedBy THEN revokedBy[h] ELSE c]
      /\ journal' = IF journal.kind = "PENDING_REVOKE" THEN NoJournal ELSE journal
      /\ generation' = generation + 1 /\ answered' = answered \cup {c}
      /\ corrupt' = corrupt /\ maxClaims' = maxClaims
  BY DEF ApplyNew
<1>2. /\ IsFiniteSet(claims') /\ Cardinality(claims') = Cardinality(claims) + 1
      /\ Cardinality(claims) \in Nat /\ Cardinality(claims') \in Nat
  BY <1>1, OneMore DEF RevokeInv
<1>3. Cardinality(claims') <= maxClaims'
  BY <1>1, <1>2, QuotaGrows DEF RevokeInv
<1>4. journal' \in Journals /\ journal'.kind # "PENDING_REVOKE_EXHAUSTED"
  <2>1. journal.kind # "PENDING_REVOKE_EXHAUSTED"
    BY <1>1 DEF MayApply, Journal
  <2> QED
    BY <1>1, <2>1 DEF RevokeInv, Journals, NoJournal
<1>5. /\ DOMAIN revokedBy' = DOMAIN revokedBy \cup Handles[c]
      /\ \A h \in DOMAIN revokedBy' : revokedBy'[h] \in claims'
  BY <1>1 DEF RevokeInv
<1>6. \A d \in claims' : /\ RevocationId[d] \in DOMAIN firstOf'
                         /\ \/ firstOf'[RevocationId[d]] = d
                            \/ <<firstOf'[RevocationId[d]], d>> \in collisions'
  <2>1. CASE RevocationId[c] \in DOMAIN firstOf
    <3>1. firstOf' = firstOf
          /\ collisions' = collisions \cup {<<firstOf[RevocationId[c]], c>>}
      BY <2>1 DEF ApplyNew, NoteId
    <3> QED
      BY <1>1, <2>1, <3>1 DEF RevokeInv
  <2>2. CASE RevocationId[c] \notin DOMAIN firstOf
    <3>1. collisions' = collisions
          /\ firstOf' = [i \in DOMAIN firstOf \cup {RevocationId[c]} |->
                           IF i = RevocationId[c] THEN c ELSE firstOf[i]]
      BY <2>2 DEF ApplyNew, NoteId
    <3>2. /\ DOMAIN firstOf' = DOMAIN firstOf \cup {RevocationId[c]}
          /\ firstOf'[RevocationId[c]] = c
          /\ \A i \in DOMAIN firstOf : firstOf'[i] = firstOf[i]
      BY <2>2, <3>1
    <3> QED
      BY <1>1, <3>1, <3>2 DEF RevokeInv
  <2> QED
    BY <2>1, <2>2
<1>7. /\ claims' \subseteq RevokeClaims /\ exhausted' \subseteq RevokeClaims
      /\ answered' \subseteq claims' \cup exhausted'
      /\ \A d \in claims' : Handles[d] \subseteq DOMAIN revokedBy'
      /\ corrupt' \in Nat /\ generation' \in Nat /\ maxClaims' \in Quota .. MaxQuota
  BY <1>1, <1>5 DEF RevokeInv
<1> QED
  BY <1>2, <1>3, <1>4, <1>5, <1>6, <1>7 DEF RevokeInv

\* Every other step leaves the claims and their handles alone.
LEMMA RevokeOthersKeep ==
    ASSUME RevokeInv,
           \/ JournalWritten \/ ExpandQuota \/ ConvertExhausted \/ ReverifyFails
           \/ \E c \in RevokeClaims, waits \in BOOLEAN : ApplyAgain(c, waits)
           \/ UNCHANGED revokeVars
    PROVE  RevokeInv'
<1>1. ASSUME JournalWritten PROVE RevokeInv'
  <2>1. journal' \in Journals
        /\ (journal'.kind = "PENDING_REVOKE_EXHAUSTED" =>
              journal.kind = "PENDING_REVOKE_EXHAUSTED" /\ journal'.claim = journal.claim)
    <3>1. ASSUME NEW c \in RevokeClaims \cup ForeignClaims,
                 journal' = Journal("PENDING_REVOKE", c, TRUE)
          PROVE  journal' \in Journals /\ journal'.kind = "PENDING_REVOKE"
      BY <3>1 DEF Journal, Journals
    <3>2. ASSUME journal.kind # "none", journal' = [journal EXCEPT !.whole = FALSE]
          PROVE  /\ journal' \in Journals /\ journal'.kind = journal.kind
                 /\ journal'.claim = journal.claim
      BY <3>2 DEF RevokeInv, Journals, NoJournal
    <3> QED
      BY <1>1, <3>1, <3>2 DEF JournalWritten
  <2>2. UNCHANGED <<claims, revokedBy, exhausted, corrupt, firstOf, collisions, maxClaims,
                    generation, answered>>
    BY <1>1 DEF JournalWritten
  <2> QED
    BY <2>1, <2>2 DEF RevokeInv
<1>2. ASSUME ExpandQuota PROVE RevokeInv'
  <2>1. Cardinality(claims) \in Nat
    BY FS_CardinalityType DEF RevokeInv
  <2> QED
    BY <1>2, <2>1, QuotaGrows DEF ExpandQuota, RevokeInv
<1>3. ASSUME ConvertExhausted PROVE RevokeInv'
  <2>1. journal' \in Journals /\ journal'.kind = "PENDING_REVOKE"
    BY <1>3 DEF ConvertExhausted, RevokeInv, Journals, NoJournal
  <2> QED
    BY <1>3, <2>1 DEF ConvertExhausted, RevokeInv
<1>4. ASSUME ReverifyFails PROVE RevokeInv'
  <2>1. journal' \in Journals /\ journal'.kind = "none"
    BY <1>4 DEF ReverifyFails, Journals, NoJournal
  <2> QED
    BY <1>4, <2>1 DEF ReverifyFails, RevokeInv
<1>5. ASSUME NEW c \in RevokeClaims, NEW waits \in BOOLEAN, ApplyAgain(c, waits)
      PROVE  RevokeInv'
  BY <1>5 DEF ApplyAgain, RevokeInv
<1>6. ASSUME UNCHANGED revokeVars PROVE RevokeInv'
  BY <1>6 DEF revokeVars, RevokeInv
<1> QED
  BY <1>1, <1>2, <1>3, <1>4, <1>5, <1>6

\* The steps that change what the store says are those that take a generation.
LEMMA GenerationsApart ==
    ASSUME RevokeInv, RevokeNext
    PROVE  GenerationStep
<1>1. generation \in Nat
  BY DEF RevokeInv
<1>0. ASSUME UNCHANGED <<claims, revokedBy, exhausted, corrupt, firstOf, collisions>>,
             UNCHANGED <<heads, forks, generation>>
      PROVE  GenerationStep
  <2>1. Contents' = Contents
    BY <1>0 DEF Contents
  <2> QED
    BY <1>0, <1>1, <2>1 DEF GenerationStep
<1>2. CASE JournalWritten \/ ExpandQuota \/ ConvertExhausted
  BY <1>0, <1>2, Zenon DEF JournalWritten, ExpandQuota, ConvertExhausted
<1>3. ASSUME NEW c \in RevokeClaims, NEW waits \in BOOLEAN, ApplyAgain(c, waits)
      PROVE  GenerationStep
  BY <1>0, <1>3, Zenon DEF ApplyAgain
<1>4. ASSUME generation' = generation + 1 PROVE GenerationStep
  BY <1>1, <1>4 DEF GenerationStep
<1>5. CASE ReverifyFails \/ \E c \in RevokeClaims, waits \in BOOLEAN :
                               ApplyExhausted(c, waits) \/ ApplyNew(c, waits)
  BY <1>4, <1>5 DEF ReverifyFails, ApplyExhausted, ApplyNew
<1> QED
  BY <1>2, <1>3, <1>5 DEF RevokeNext

\* Whatever the order and number in which claims arrive, what was acknowledged is
\* applied or marked, whatever becomes of the journal; no handle of its device is
\* authorized again, the quota holds, a second use of an id is on record, and no
\* generation stands for two contents of the store.
THEOREM RevocationsHold ==
    RevokeSpec => []RevokeTypeOK /\ RevocationSound
<1>1. RevokeInit => RevokeInv
  BY RevokeStarts
<1>2. RevokeInv /\ [RevokeNext]_revokeVars => RevokeInv'
  BY ApplyExhaustedKeeps, ApplyNewKeeps, RevokeOthersKeep DEF RevokeNext
<1>3. RevokeInv => RevokeTypeOK /\ ClaimsKept
  <2> SUFFICES ASSUME RevokeInv PROVE RevokeTypeOK /\ ClaimsKept
    OBVIOUS
  <2>1. journal.kind \in {"none", "PENDING_REVOKE", "PENDING_REVOKE_EXHAUSTED"}
    BY DEF RevokeInv, Journals, NoJournal
  <2>2. Range(revokedBy) \subseteq claims
    BY DEF RevokeInv, Range
  <2>3. ASSUME NEW c \in answered, NEW h \in Handles[c] PROVE ~Authorized({h})
    BY <2>3 DEF RevokeInv, Authorized
  <2> QED
    BY <2>1, <2>2, <2>3 DEF RevokeInv, RevokeTypeOK, ClaimsKept
<1>4. RevokeInv /\ [RevokeNext]_revokeVars => [GenerationStep]_revokeVars
  BY GenerationsApart
<1> QED
  BY <1>1, <1>2, <1>3, <1>4, PTL DEF RevokeSpec, RevocationSound

-----------------------------------------------------------------------------
\* Pairing: whatever is altered on the way, what a message's signature covers is
\* what its signer made: a bundle, an init that it still holds, or the answer to
\* an init that it accepted in time.
Accepts(a, init, by, tag) ==
    /\ a.init = init /\ a.by = by /\ tag = Tag(a.root, init)
    /\ a.init.body.created <= a.at /\ a.at < a.init.body.expires

Made(by, of, pend, acc) ==
    /\ by \in Devices
    /\ of.kind = "bundle" \/ of.kind = "init" \/ of.kind = "response"
    /\ of.kind = "init" => Signed(by, of) \in pend[by]
    /\ of.kind = "response" =>
          of.expires \in Nat /\ \E a \in acc : Accepts(a, of.hash, by, of.tag)

Packed(m) == m = [body |-> m.body, by |-> m.by, of |-> m.of]

PairInv ==
    /\ pairClock \in Nat
    /\ DOMAIN pending = Devices
    /\ \A d \in Devices : \A i \in pending[d] : i.body.expires \in Nat
    /\ \A m \in wire : Packed(m) /\ Made(m.by, m.of, pending, accepted)
    /\ \A a \in accepted : a.init.body.from \in Devices
    /\ PairingSound

LEMMA TimeIsNat ==
    ASSUME PairInv, NEW d \in Devices
    PROVE  PairTime(d) \in Nat
<1>1. pairClock \in Nat /\ PairAhead[d] \in Nat
  BY PairingTimes DEF PairInv
<1> QED
  BY <1>1 DEF PairTime

\* What a device signs is packed and was made by it.
LEMMA SignedPacked ==
    ASSUME NEW d, NEW body
    PROVE  /\ Packed(Signed(d, body)) /\ Signed(d, body).by = d
           /\ Signed(d, body).of = body /\ Signed(d, body).body = body
BY DEF Packed, Signed

\* A genuine message of a device is the very one it made.
LEMMA GenuineIsSigned ==
    ASSUME NEW m, NEW d, Packed(m), Genuine(m, d)
    PROVE  m = Signed(d, m.body) /\ m.of = m.body /\ m.by = d
BY DEF Packed, Genuine, Signed

\* More inits, more acceptances and more messages change nothing for the old ones.
LEMMA PairGrows ==
    ASSUME PairInv, pairClock' \in Nat, DOMAIN pending' = Devices,
           \A d \in Devices : pending[d] \subseteq pending'[d],
           \A d \in Devices : \A i \in pending'[d] \ pending[d] : i.body.expires \in Nat,
           accepted \subseteq accepted',
           \A m \in wire' \ wire : Packed(m) /\ Made(m.by, m.of, pending', accepted'),
           \A a \in accepted' \ accepted :
              a.init.body.to = a.by /\ a.init.body.from \in Devices
              /\ a.init \in pending[a.init.body.from],
           \A c \in confirmed' \ confirmed :
              /\ c.at < c.init.body.expires
              /\ \E a \in accepted :
                    /\ a.init = c.init /\ a.root = c.root /\ a.by = c.init.body.to
                    /\ a.init.body.created <= a.at /\ a.at < a.init.body.expires
    PROVE  PairInv'
<1>1. ASSUME NEW m \in wire' PROVE Packed(m) /\ Made(m.by, m.of, pending', accepted')
  <2>1. CASE m \in wire
    <3>1. Packed(m) /\ Made(m.by, m.of, pending, accepted)
      BY <2>1 DEF PairInv
    <3> QED
      BY <3>1 DEF Made
  <2> QED
    BY <1>1, <2>1
<1>2. \A d \in Devices : \A i \in pending'[d] : i.body.expires \in Nat
  BY DEF PairInv
<1>3. \A a \in accepted' : /\ a.init.body.to = a.by /\ a.init.body.from \in Devices
                           /\ a.init \in pending'[a.init.body.from]
  BY DEF PairInv, PairingSound
<1>4. ASSUME NEW c \in confirmed'
      PROVE  /\ c.at < c.init.body.expires
             /\ \E a \in accepted' :
                   /\ a.init = c.init /\ a.root = c.root /\ a.by = c.init.body.to
                   /\ a.init.body.created <= a.at /\ a.at < a.init.body.expires
  BY <1>4 DEF PairInv, PairingSound
<1>5. PairingSound'
  BY <1>3, <1>4 DEF PairingSound
<1> QED
  BY <1>1, <1>2, <1>3, <1>5 DEF PairInv, Made, Packed, Accepts, Signed, Tag

\* The steps of the two devices.
LEMMA InitiateKeeps ==
    ASSUME PairInv, NEW d \in Devices, Initiate(d)
    PROVE  PairInv'
<1>1. PICK m \in wire, v \in {1, 2}, life \in Lifetimes :
          /\ PrekeyVerifies(m) /\ m.body.from # d
          /\ LET init == Signed(d,
                   [kind |-> "init", v |-> v, from |-> d, to |-> m.body.from,
                    id |-> Cardinality(Inits), spk |-> m.body.spk, otp |-> m.body.otp,
                    otpKey |-> m.body.otpKey, hash |-> m.body,
                    created |-> PairTime(d), expires |-> PairTime(d) + life])
             IN  /\ pending' = [pending EXCEPT ![d] = @ \cup {init}]
                 /\ wire' = wire \cup {init}
  BY Zenon DEF Initiate
<1> DEFINE body == [kind |-> "init", v |-> v, from |-> d, to |-> m.body.from,
                    id |-> Cardinality(Inits), spk |-> m.body.spk, otp |-> m.body.otp,
                    otpKey |-> m.body.otpKey, hash |-> m.body,
                    created |-> PairTime(d), expires |-> PairTime(d) + life]
<1>2. /\ pending' = [pending EXCEPT ![d] = @ \cup {Signed(d, body)}]
      /\ wire' = wire \cup {Signed(d, body)}
      /\ UNCHANGED <<pairClock, bundle, accepted, confirmed, mishaps>>
  BY <1>1 DEF Initiate
<1>3. body.kind = "init" /\ body.expires \in Nat
  BY TimeIsNat, PairingTimes
<1> HIDE DEF body
<1>4. /\ DOMAIN pending' = Devices /\ pending'[d] = pending[d] \cup {Signed(d, body)}
      /\ \A e \in Devices \ {d} : pending'[e] = pending[e]
  BY <1>2 DEF PairInv
<1>5. \A e \in Devices : \A i \in pending'[e] \ pending[e] : i.body.expires \in Nat
  BY <1>3, <1>4, SignedPacked
<1>6. Packed(Signed(d, body))
      /\ Made(Signed(d, body).by, Signed(d, body).of, pending', accepted')
  BY <1>3, <1>4, SignedPacked DEF Made
<1> QED
  BY <1>2, <1>4, <1>5, <1>6, PairGrows DEF PairInv

LEMMA AnswerKeeps ==
    ASSUME PairInv, NEW d \in Devices, Answer(d)
    PROVE  PairInv'
<1>1. PICK m \in wire, life \in Lifetimes :
          /\ InitVerifies(m, d)
          /\ LET root == Root(m, bundle[d])
                 reply == [kind |-> "response", v |-> 1, id |-> m.body.id, hash |-> m, from |-> d,
                           created |-> PairTime(d), expires |-> PairTime(d) + life,
                           tag |-> Tag(root, m)]
             IN  /\ accepted' = accepted \cup {[init |-> m, by |-> d, root |-> root,
                                                at |-> PairTime(d)]}
                 /\ wire' = wire \cup {Signed(d, reply)}
  BY DEF Answer
<1> DEFINE root  == Root(m, bundle[d])
           a     == [init |-> m, by |-> d, root |-> root, at |-> PairTime(d)]
           reply == [kind |-> "response", v |-> 1, id |-> m.body.id, hash |-> m, from |-> d,
                     created |-> PairTime(d), expires |-> PairTime(d) + life,
                     tag |-> Tag(root, m)]
<1>2. /\ accepted' = accepted \cup {a} /\ wire' = wire \cup {Signed(d, reply)}
      /\ UNCHANGED <<pairClock, bundle, pending, confirmed, mishaps>>
  BY <1>1 DEF Answer
<1>3. /\ m.body.kind = "init" /\ m.body.to = d /\ Genuine(m, m.body.from)
      /\ m.body.created <= PairTime(d) /\ PairTime(d) < m.body.expires
  BY <1>1 DEF InitVerifies, InitDecodes
<1>4. /\ a.init = m /\ a.by = d /\ a.at = PairTime(d) /\ a.root = root
      /\ reply.kind = "response" /\ reply.expires \in Nat /\ reply.hash = m
      /\ reply.tag = Tag(root, m)
  BY TimeIsNat, PairingTimes
<1> HIDE DEF a, reply, root
<1>5. Accepts(a, reply.hash, d, reply.tag)
  BY <1>3, <1>4 DEF Accepts
<1>6. Packed(Signed(d, reply))
      /\ Made(Signed(d, reply).by, Signed(d, reply).of, pending', accepted')
  BY <1>2, <1>4, <1>5, SignedPacked DEF Made
<1>7. m.body.from \in Devices /\ m \in pending[m.body.from]
  <2>1. Packed(m) /\ Made(m.by, m.of, pending, accepted)
    BY DEF PairInv
  <2>2. m = Signed(m.by, m.of) /\ m.of.kind = "init" /\ m.by = m.body.from
    BY <1>3, <2>1, GenuineIsSigned
  <2> QED
    BY <2>1, <2>2 DEF Made
<1>8. \A b \in accepted' \ accepted :
          /\ b.init.body.to = b.by /\ b.init.body.from \in Devices
          /\ b.init \in pending[b.init.body.from]
  BY <1>2, <1>3, <1>4, <1>7
<1> QED
  BY <1>2, <1>6, <1>8, PairGrows DEF PairInv

LEMMA OpenKeeps ==
    ASSUME PairInv, NEW d \in Devices, OpenV2(d)
    PROVE  PairInv'
<1>1. PICK m \in wire :
          /\ InitVerifiesV2(m) /\ m.body.to = d
          /\ accepted' = accepted \cup {[init |-> m, by |-> d, root |-> Root(m, bundle[d]),
                                         at |-> PairTime(d)]}
  BY DEF OpenV2
<1> DEFINE a == [init |-> m, by |-> d, root |-> Root(m, bundle[d]), at |-> PairTime(d)]
<1>2. /\ accepted' = accepted \cup {a}
      /\ UNCHANGED <<pairClock, bundle, wire, pending, confirmed, mishaps>>
  BY <1>1 DEF OpenV2
<1>3. m.body.kind = "init" /\ m.body.to = d /\ Genuine(m, m.body.from)
  BY <1>1 DEF InitVerifiesV2, InitDecodes
<1>4. a.init = m /\ a.by = d
  OBVIOUS
<1> HIDE DEF a
<1>5. m.body.from \in Devices /\ m \in pending[m.body.from]
  <2>1. Packed(m) /\ Made(m.by, m.of, pending, accepted)
    BY DEF PairInv
  <2>2. m = Signed(m.by, m.of) /\ m.of.kind = "init" /\ m.by = m.body.from
    BY <1>3, <2>1, GenuineIsSigned
  <2> QED
    BY <2>1, <2>2 DEF Made
<1>6. \A b \in accepted' \ accepted :
          /\ b.init.body.to = b.by /\ b.init.body.from \in Devices
          /\ b.init \in pending[b.init.body.from]
  BY <1>2, <1>3, <1>4, <1>5
<1> QED
  BY <1>2, <1>6, PairGrows DEF PairInv

\* An answer that verifies was made by the init's responder for that init; its
\* tag can only be made from the same root.
LEMMA ConfirmKeeps ==
    ASSUME PairInv, NEW d \in Devices, Confirm(d)
    PROVE  PairInv'
<1>1. PICK init \in pending[d], m \in wire :
          /\ ResponseVerifies(m, init, Root(init, init.body.hash), d)
          /\ confirmed' = confirmed \cup {[init |-> init, root |-> Root(init, init.body.hash),
                                           at |-> PairTime(d)]}
  BY DEF Confirm
<1> DEFINE root == Root(init, init.body.hash)
           c    == [init |-> init, root |-> root, at |-> PairTime(d)]
<1>2. /\ confirmed' = confirmed \cup {c} /\ ResponseVerifies(m, init, root, d)
      /\ UNCHANGED <<pairClock, bundle, wire, pending, accepted, mishaps>>
  BY <1>1 DEF Confirm
<1>3. c.init = init /\ c.root = root /\ c.at = PairTime(d)
  OBVIOUS
<1> HIDE DEF c, root
<1>4. /\ m.body.kind = "response" /\ m.body.hash = init /\ m.body.from = init.body.to
      /\ m.body.expires <= init.body.expires /\ PairTime(d) < m.body.expires
      /\ m.body.tag = Tag(root, init) /\ Genuine(m, m.body.from)
  BY <1>2 DEF ResponseVerifies, ResponseDecodes
<1>5. /\ Made(m.by, m.of, pending, accepted) /\ m.of = m.body /\ m.by = m.body.from
  BY <1>4, GenuineIsSigned DEF PairInv
<1>6. /\ m.body.expires \in Nat
      /\ \E a \in accepted : Accepts(a, init, init.body.to, Tag(root, init))
  BY <1>4, <1>5 DEF Made
<1>7. PICK a \in accepted : Accepts(a, init, init.body.to, Tag(root, init))
  BY <1>6
<1>8. /\ a.init = init /\ a.root = root /\ a.by = init.body.to
      /\ a.init.body.created <= a.at /\ a.at < a.init.body.expires
  BY <1>7 DEF Accepts, Tag
<1>9. PairTime(d) < init.body.expires
  <2>1. PairTime(d) \in Nat /\ init.body.expires \in Nat
    BY TimeIsNat DEF PairInv
  <2> QED
    BY <1>4, <1>6, <2>1
<1>10. \A e \in confirmed' \ confirmed :
          /\ e.at < e.init.body.expires
          /\ \E b \in accepted :
                /\ b.init = e.init /\ b.root = e.root /\ b.by = e.init.body.to
                /\ b.init.body.created <= b.at /\ b.at < b.init.body.expires
  BY <1>2, <1>3, <1>8, <1>9
<1> QED
  BY <1>2, <1>10, PairGrows DEF PairInv

\* New prekeys, altered copies and time.
LEMMA WireSteps ==
    ASSUME PairInv, (\E d \in Devices : Rotate(d)) \/ Alter \/ PairTick \/ UNCHANGED pairVars
    PROVE  PairInv'
<1>1. ASSUME UNCHANGED <<pending, accepted, confirmed>>, pairClock' \in Nat,
             \A m \in wire' \ wire : Packed(m) /\ Made(m.by, m.of, pending, accepted)
      PROVE  PairInv'
  BY <1>1, PairGrows DEF PairInv
<1>2. pairClock \in Nat
  BY DEF PairInv
<1>3. ASSUME NEW d \in Devices, Rotate(d) PROVE PairInv'
  <2>1. PICK o \in OneTimeIds :
            wire' = wire \cup {Signed(d, NewBundle(d, bundle[d].spk + 1, o))}
    BY <1>3 DEF Rotate
  <2> DEFINE next == NewBundle(d, bundle[d].spk + 1, o)
  <2>2. next.kind = "bundle"
    BY DEF NewBundle
  <2>3. wire' = wire \cup {Signed(d, next)}
    BY <2>1
  <2> HIDE DEF next
  <2>4. Packed(Signed(d, next)) /\ Made(Signed(d, next).by, Signed(d, next).of, pending, accepted)
    BY <2>2, SignedPacked DEF Made
  <2> QED
    BY <1>1, <1>2, <1>3, <2>3, <2>4 DEF Rotate
<1>4. ASSUME Alter PROVE PairInv'
  <2>1. PICK m \in wire : \E b : wire' = wire \cup {[m EXCEPT !.body = b]}
    BY <1>4 DEF Alter
  <2>2. PICK b : wire' = wire \cup {[m EXCEPT !.body = b]}
    BY <2>1
  <2>3. m = [body |-> m.body, by |-> m.by, of |-> m.of] /\ Made(m.by, m.of, pending, accepted)
    BY DEF PairInv, Packed
  <2> DEFINE new == [m EXCEPT !.body = b]
  <2>4. new = [body |-> b, by |-> m.by, of |-> m.of]
    BY <2>3
  <2>5. wire' = wire \cup {new}
    BY <2>2
  <2> HIDE DEF new
  <2>6. Packed(new) /\ new.by = m.by /\ new.of = m.of
    BY <2>4 DEF Packed
  <2> QED
    BY <1>1, <1>2, <1>4, <2>3, <2>5, <2>6 DEF Alter
<1>5. ASSUME PairTick PROVE PairInv'
  BY <1>1, <1>2, <1>5 DEF PairTick
<1>6. ASSUME UNCHANGED pairVars PROVE PairInv'
  BY <1>1, <1>2, <1>6 DEF pairVars
<1> QED
  BY <1>3, <1>4, <1>5, <1>6

\* When an initiator sees an init confirmed, it is still valid, and its responder
\* accepted that very init in time and has the same root, whatever was lost,
\* repeated, delayed or altered and whatever prekeys were rotated.
THEOREM PairingsAgree ==
    PairSpec => []PairingSound
<1>1. PairInitially => PairInv
  <2> SUFFICES ASSUME PairInitially PROVE PairInv
    OBVIOUS
  <2>1. PICK otp \in [Devices -> OneTimeIds] :
            bundle = [d \in Devices |-> NewBundle(d, 1, otp[d])]
    BY DEF PairInitially
  <2>2. /\ pairClock = 0 /\ wire = {Signed(d, bundle[d]) : d \in Devices}
        /\ pending = [d \in Devices |-> {}] /\ accepted = {} /\ confirmed = {}
    BY DEF PairInitially
  <2>3. ASSUME NEW m \in wire PROVE Packed(m) /\ Made(m.by, m.of, pending, accepted)
    <3>1. PICK d \in Devices : m = Signed(d, bundle[d])
      BY <2>2
    <3>2. bundle[d].kind = "bundle"
      BY <2>1 DEF NewBundle
    <3> QED
      BY <3>1, <3>2, SignedPacked DEF Made
  <2> QED
    BY <2>2, <2>3 DEF PairInv, PairingSound
<1>2. PairInv /\ [PairNext]_pairVars => PairInv'
  BY InitiateKeeps, AnswerKeeps, OpenKeeps, ConfirmKeeps, WireSteps DEF PairNext
<1>3. PairInv => PairingSound
  BY DEF PairInv
<1> QED
  BY <1>1, <1>2, <1>3, PTL DEF PairSpec

-----------------------------------------------------------------------------
\* The anchors: every chain is one unbroken history, in which each record counts
\* one state more than the one before, by its generation or its revision; and a
\* container is of a record of the chain, or one state ahead of the newest.

LinkedUpTo(V, N) ==
    /\ \A a \in V : a.seq \in 1 .. N
    /\ \A i \in 1 .. N : \E a \in V : a.seq = i
    /\ \A a, b \in V : a.seq = b.seq => a = b
    /\ \A a \in V : a.seq = 1 => a.status = "HEAD"
    /\ \A a, b \in V : b.seq = a.seq + 1 => MayFollow(a.status, b.status)
    /\ \A a, b \in V : a.seq <= b.seq => a.gen <= b.gen
    /\ \A a \in V : a.gen \in Nat /\ a.rev \in Nat /\ a.gen + a.rev + 1 = a.seq
    /\ \A a \in V : a.role = 0

Unbroken(V) == \E N \in Nat : LinkedUpTo(V, N)

IsLast(V, n) == n \in V /\ \A b \in V : b.seq <= n.seq

\* A linked chain is a chain as the code wants it, of as many records as it has
\* sequence numbers, and ends where it ends.
LEMMA LinkedCount ==
    ASSUME NEW V, NEW N \in Nat, LinkedUpTo(V, N)
    PROVE  IsFiniteSet(V) /\ Cardinality(V) = N /\ {a.seq : a \in V} = 1 .. N
<1> DEFINE f == [a \in V |-> a.seq]
<1>1. f \in [V -> 1 .. N]
  BY DEF LinkedUpTo
<1>2. \A a, b \in V : f[a] = f[b] => a = b
  BY DEF LinkedUpTo
<1>3. \A i \in 1 .. N : \E a \in V : f[a] = i
  BY DEF LinkedUpTo
<1>4. {a.seq : a \in V} = 1 .. N
  BY DEF LinkedUpTo
<1> HIDE DEF f
<1>5. DOMAIN f = V
  BY <1>1
<1>6. f \in Injection(V, 1 .. N) /\ f \in Surjection(V, 1 .. N)
  BY <1>1, <1>2, <1>3, <1>5 DEF Injection, Surjection, IsInjective
<1>7. IsFiniteSet(1 .. N) /\ Cardinality(1 .. N) = N
  <2>1. IsFiniteSet(1 .. N) /\ Cardinality(1 .. N) = IF 1 > N THEN 0 ELSE N - 1 + 1
    BY FS_Interval
  <2> QED
    BY <2>1
<1>8. IsFiniteSet(V) /\ Cardinality(V) = Cardinality(1 .. N)
  BY <1>6, <1>7, FS_Injection
<1> QED
  BY <1>4, <1>7, <1>8

LEMMA LinkedFacts ==
    ASSUME NEW V, Unbroken(V)
    PROVE  /\ ChainOk(V)
           /\ Cardinality({a.seq : a \in V}) = Cardinality(V)
           /\ \A a, b \in V : a.status = "TOMBSTONE" => b.seq <= a.seq
<1>1. PICK N \in Nat : LinkedUpTo(V, N)
  BY DEF Unbroken
<1>2. IsFiniteSet(V) /\ Cardinality(V) = N /\ {a.seq : a \in V} = 1 .. N
  BY <1>1, LinkedCount
<1>3. Cardinality(1 .. N) = N
  <2>1. Cardinality(1 .. N) = IF 1 > N THEN 0 ELSE N - 1 + 1
    BY FS_Interval
  <2> QED
    BY <2>1
<1>4. ChainOk(V)
  BY <1>1, <1>2 DEF LinkedUpTo, ChainOk, MayFollow
<1>5. ASSUME NEW a \in V, NEW b \in V, a.status = "TOMBSTONE"
      PROVE  b.seq <= a.seq
  <2>1. a.seq \in 1 .. N /\ b.seq \in 1 .. N
    BY <1>1 DEF LinkedUpTo
  <2>2. CASE a.seq + 1 \in 1 .. N
    <3>1. PICK c \in V : c.seq = a.seq + 1
      BY <2>2, <1>1 DEF LinkedUpTo
    <3> QED
      BY <3>1, <1>1, <1>5 DEF LinkedUpTo, MayFollow
  <2> QED
    BY <2>1, <2>2
<1> QED
  BY <1>2, <1>3, <1>4, <1>5

LEMMA LastFacts ==
    ASSUME NEW V, Unbroken(V), V # {}
    PROVE  /\ \E n \in V : IsLast(V, n)
           /\ IsLast(V, CHOOSE a \in V : \A b \in V : b.seq <= a.seq)
           /\ \A m, n \in V : IsLast(V, m) /\ IsLast(V, n) => m = n
<1>1. PICK N \in Nat : LinkedUpTo(V, N)
  BY DEF Unbroken
<1>2. N \in 1 .. N
  BY <1>1 DEF LinkedUpTo
<1>3. PICK n \in V : n.seq = N
  BY <1>1, <1>2 DEF LinkedUpTo
<1>4. \A b \in V : b.seq <= n.seq
  BY <1>1, <1>3 DEF LinkedUpTo
<1>5. \A m, k \in V : IsLast(V, m) /\ IsLast(V, k) => m = k
  <2> SUFFICES ASSUME NEW m \in V, NEW k \in V, IsLast(V, m), IsLast(V, k) PROVE m = k
    OBVIOUS
  <2>1. m.seq \in 1 .. N /\ k.seq \in 1 .. N /\ m.seq <= k.seq /\ k.seq <= m.seq
    BY <1>1 DEF LinkedUpTo, IsLast
  <2>2. m.seq = k.seq
    BY <2>1
  <2> QED
    BY <2>2, <1>1 DEF LinkedUpTo
<1> QED
  BY <1>4, <1>5 DEF IsLast

\* A chain grows by a record that follows its newest.
LEMMA LinkedGrows ==
    ASSUME NEW V, Unbroken(V), NEW c, c.role = 0,
           c.gen \in Nat, c.rev \in Nat, c.seq \in Nat, c.gen + c.rev + 1 = c.seq,
           \/ V = {} /\ c.seq = 1 /\ c.status = "HEAD"
           \/ \E n \in V : /\ IsLast(V, n) /\ c.seq = n.seq + 1
                           /\ MayFollow(n.status, c.status) /\ n.gen <= c.gen
    PROVE  Unbroken(V \cup {c}) /\ IsLast(V \cup {c}, c)
<1>1. PICK N \in Nat : LinkedUpTo(V, N)
  BY DEF Unbroken
<1>2. CASE V = {} /\ c.seq = 1 /\ c.status = "HEAD"
  <2>1. LinkedUpTo(V \cup {c}, 1)
    BY <1>2 DEF LinkedUpTo
  <2> QED
    BY <1>2, <2>1 DEF Unbroken, IsLast
<1>3. ASSUME NEW n \in V, IsLast(V, n), c.seq = n.seq + 1,
             MayFollow(n.status, c.status), n.gen <= c.gen
      PROVE  Unbroken(V \cup {c}) /\ IsLast(V \cup {c}, c)
  <2>1. \A a \in V : a.seq \in 1 .. N /\ a.seq <= n.seq /\ a.gen \in Nat /\ a.gen <= n.gen
    BY <1>1, <1>3 DEF LinkedUpTo, IsLast
  <2>2. n.seq = N
    <3>1. n.seq \in 1 .. N
      BY <2>1
    <3>2. PICK a \in V : a.seq = N
      BY <1>1, <3>1 DEF LinkedUpTo
    <3> QED
      BY <2>1, <3>1, <3>2
  <2>3. \A a \in V : a.seq # c.seq /\ a.seq # c.seq + 1 /\ ~(c.seq <= a.seq) /\ a.gen <= c.gen
    BY <1>3, <2>1
  <2>4. \A a \in V : c.seq = a.seq + 1 => a = n
    BY <1>1, <1>3, <2>1 DEF LinkedUpTo
  <2>5. c.seq = N + 1 /\ c.seq # 1
    BY <1>3, <2>1, <2>2
  <2>6. \A i \in 1 .. N + 1 : i \in 1 .. N \/ i = N + 1
    OBVIOUS
  <2>7. LinkedUpTo(V \cup {c}, N + 1)
    <3>1. \A a \in V \cup {c} : a.seq \in 1 .. N + 1
      BY <2>1, <2>5
    <3>2. \A i \in 1 .. N + 1 : \E a \in V \cup {c} : a.seq = i
      BY <1>1, <2>5, <2>6 DEF LinkedUpTo
    <3>3. \A a, b \in V \cup {c} : a.seq = b.seq => a = b
      BY <1>1, <2>3 DEF LinkedUpTo
    <3>4. \A a \in V \cup {c} : a.seq = 1 => a.status = "HEAD"
      BY <1>1, <2>5 DEF LinkedUpTo
    <3>5. \A a, b \in V \cup {c} : b.seq = a.seq + 1 => MayFollow(a.status, b.status)
      <4> SUFFICES ASSUME NEW a \in V \cup {c}, NEW b \in V \cup {c}, b.seq = a.seq + 1
                   PROVE  MayFollow(a.status, b.status)
        OBVIOUS
      <4>1. a \in V
        BY <2>3, <2>5
      <4>2. CASE b = c
        BY <4>1, <4>2, <2>4, <1>3
      <4>3. CASE b \in V
        BY <4>1, <4>3, <1>1 DEF LinkedUpTo
      <4> QED
        BY <4>2, <4>3
    <3>6. \A a, b \in V \cup {c} : a.seq <= b.seq => a.gen <= b.gen
      BY <1>1, <2>3 DEF LinkedUpTo
    <3>7. \A a \in V \cup {c} : a.gen \in Nat /\ a.rev \in Nat /\ a.gen + a.rev + 1 = a.seq
      BY <1>1 DEF LinkedUpTo
    <3>8. \A a \in V \cup {c} : a.role = 0
      BY <1>1 DEF LinkedUpTo
    <3> QED
      BY <3>1, <3>2, <3>3, <3>4, <3>5, <3>6, <3>7, <3>8 DEF LinkedUpTo
  <2>8. IsLast(V \cup {c}, c)
    BY <2>1, <2>5, <2>2 DEF IsLast
  <2> QED
    BY <2>7, <2>8 DEF Unbroken
<1> QED
  BY <1>2, <1>3


\* A container, and how it stands to its chain.
Shape(s, w) ==
    /\ w = Anchor(s, w.seq, w.status, w.gen, w.content, w.rev)
    /\ w.seq \in Nat /\ w.gen \in Nat /\ w.rev \in Nat /\ w.gen + w.rev + 1 = w.seq
    /\ w.status \in {"HEAD", "DELETING", "TOMBSTONE"} /\ (w.status # "HEAD" => w.seq # 1)

Recorded(a) ==
    a = [record |-> a.record, session |-> a.session, role |-> a.role, seq |-> a.seq,
         status |-> a.status, gen |-> a.gen, content |-> a.content, rev |-> a.rev,
         transition |-> a.transition, horizon |-> a.horizon, good |-> a.good]

Contained(s, f) == f = File(f.wants) /\ Shape(s, f.wants)

Same(a, w)   == a.seq = w.seq /\ a.gen = w.gen /\ a.rev = w.rev
OneOn(n, w)  ==
    /\ w.seq = n.seq + 1
    /\ \/ w.gen = n.gen + 1 /\ w.rev = n.rev
       \/ w.gen = n.gen /\ w.rev = n.rev + 1
Stands(V, w) ==
    V # {} => \/ \E a \in V : Same(a, w)
              \/ \E n \in V : IsLast(V, n) /\ OneOn(n, w)
Fresh(V, w)  ==
    V # {} => \E n \in V : /\ IsLast(V, n)
                           /\ (Same(n, w) /\ n.content = w.content) \/ OneOn(n, w)

\* What an undisturbed session adds: its container is of the newest record, or of
\* one that may follow it.
Undisturbed(V, w, st, op) ==
    /\ \A a \in V : RecordOk(a)
    /\ st # "stuck" /\ op \in {"aligned", "anchor_behind_container"}
    /\ V = {} => w.seq = 1
    /\ V # {} =>
          \E n \in V : /\ IsLast(V, n)
                       /\ \/ w = n
                          \/ /\ OneOn(n, w) /\ MayFollow(n.status, w.status)
                             /\ w.gen = n.gen => w.content = n.content

Untouched == [copies |-> 0, vault |-> 0]

SessionFits(s, V, f, st) ==
    /\ Unbroken(V) /\ Contained(s, f) /\ Stands(V, f.wants)
    /\ st = "open" => Fresh(V, f.wants)

Counted(f) ==
    f = [copies |-> f.copies, vault |-> f.vault] /\ f.copies \in Nat /\ f.vault \in Nat

AnchorInv ==
    /\ DOMAIN container = Sessions /\ DOMAIN session = Sessions /\ DOMAIN opened = Sessions
    /\ Counted(faults)
    /\ \A a \in vault : Recorded(a)
    /\ \A s \in Sessions : SessionFits(s, Chain(s), container[s], session[s])
    /\ \A c \in copies : Contained(c[1], c[2]) /\ \E a \in Chain(c[1]) : Same(a, c[2].wants)
    /\ faults = Untouched =>
          /\ listedTwice = {} /\ \A a \in vault : RecordOk(a)
          /\ \A s \in Sessions :
                Undisturbed(Chain(s), container[s].wants, session[s], opened[s])

LEMMA ContainedParts ==
    ASSUME NEW s, NEW f, Contained(s, f)
    PROVE  /\ f.gen = f.wants.gen /\ f.content = f.wants.content /\ f.rev = f.wants.rev
           /\ f.wants.record = s /\ f.wants.role = 0
           /\ RecordOk(f.wants) /\ Recorded(f.wants)
<1> DEFINE w == f.wants
<1>1. f = [gen |-> w.gen, content |-> w.content, rev |-> w.rev, wants |-> w]
  BY DEF Contained, File
<1>2. w = [record |-> s, session |-> s, role |-> 0, seq |-> w.seq, status |-> w.status,
           gen |-> w.gen, content |-> w.content, rev |-> w.rev,
           transition |-> IF w.seq = 1 \/ w.status = "TOMBSTONE" THEN None ELSE w.seq,
           horizon |-> IF w.status = "HEAD" THEN 0 ELSE 1, good |-> TRUE]
  BY DEF Contained, Shape, Anchor
<1>3. w.seq \in Nat /\ w.status \in {"HEAD", "DELETING", "TOMBSTONE"}
      /\ (w.status # "HEAD" => w.seq # 1) /\ w.gen + w.rev + 1 = w.seq
      /\ w.gen \in Nat /\ w.rev \in Nat
  BY DEF Contained, Shape
<1>4. w.record = s /\ w.session = s /\ w.role = 0 /\ w.good = TRUE
      /\ w.transition = (IF w.seq = 1 \/ w.status = "TOMBSTONE" THEN 0 ELSE w.seq)
      /\ w.horizon = IF w.status = "HEAD" THEN 0 ELSE 1
  BY <1>2 DEF None
<1>5. w.seq # 0
  BY <1>3
<1>6. RecordOk(w)
  BY <1>3, <1>4, <1>5 DEF RecordOk, None
<1>8. Recorded(w)
  BY <1>2 DEF Recorded
<1>7. f.gen = w.gen /\ f.content = w.content /\ f.rev = w.rev
  BY <1>1
<1> QED
  BY <1>4, <1>6, <1>7, <1>8

\* The fields of a record, and of a container, that are made of them.
LEMMA AnchorFields ==
    ASSUME NEW s, NEW q, NEW st, NEW g, NEW c, NEW r, NEW w, w = Anchor(s, q, st, g, c, r)
    PROVE  /\ w.seq = q /\ w.status = st /\ w.gen = g /\ w.content = c /\ w.rev = r
           /\ w = Anchor(s, w.seq, w.status, w.gen, w.content, w.rev)
<1>1. w.seq = q /\ w.status = st /\ w.gen = g /\ w.content = c /\ w.rev = r
  BY DEF Anchor
<1> QED
  BY <1>1

\* A record of which one field is changed.
LEMMA RecordChanges ==
    ASSUME NEW a, Recorded(a), NEW x
    PROVE  /\ [a EXCEPT !.content = x] =
               [record |-> a.record, session |-> a.session, role |-> a.role, seq |-> a.seq,
                status |-> a.status, gen |-> a.gen, content |-> x, rev |-> a.rev,
                transition |-> a.transition, horizon |-> a.horizon, good |-> a.good]
           /\ [a EXCEPT !.good = x] =
               [record |-> a.record, session |-> a.session, role |-> a.role, seq |-> a.seq,
                status |-> a.status, gen |-> a.gen, content |-> a.content, rev |-> a.rev,
                transition |-> a.transition, horizon |-> a.horizon, good |-> x]
<1>1. PICK r, s, o, q, st, g, c, v, tr, hz, k :
         a = [record |-> r, session |-> s, role |-> o, seq |-> q, status |-> st, gen |-> g,
              content |-> c, rev |-> v, transition |-> tr, horizon |-> hz, good |-> k]
  BY DEF Recorded
<1>2. [a EXCEPT !.content = x] =
        [record |-> r, session |-> s, role |-> o, seq |-> q, status |-> st, gen |-> g,
         content |-> x, rev |-> v, transition |-> tr, horizon |-> hz, good |-> k]
  BY <1>1
<1>3. [a EXCEPT !.good = x] =
        [record |-> r, session |-> s, role |-> o, seq |-> q, status |-> st, gen |-> g,
         content |-> c, rev |-> v, transition |-> tr, horizon |-> hz, good |-> x]
  BY <1>1
<1>4. /\ a.record = r /\ a.session = s /\ a.role = o /\ a.seq = q /\ a.status = st
      /\ a.gen = g /\ a.content = c /\ a.rev = v /\ a.transition = tr /\ a.horizon = hz
      /\ a.good = k
  BY <1>1
<1> QED
  BY <1>2, <1>3, <1>4

LEMMA FileContains ==
    ASSUME NEW s, NEW w, Shape(s, w)
    PROVE  Contained(s, File(w)) /\ File(w).wants = w
<1>1. File(w).wants = w
  BY DEF File
<1> QED
  BY <1>1 DEF Contained

LEMMA AnchorStarts ==
    ASSUME AnchorInit
    PROVE  AnchorInv
<1>1. \A s \in Sessions : Chain(s) = {}
  BY DEF AnchorInit, Chain
<1>2. Unbroken({})
  <2>1. LinkedUpTo({}, 0)
    BY DEF LinkedUpTo
  <2> QED
    BY <2>1 DEF Unbroken
<1>3. ASSUME NEW s \in Sessions
      PROVE  Contained(s, container[s]) /\ container[s].wants.seq = 1
  <2> DEFINE w == Anchor(s, 1, "HEAD", 0, 0, 0)
  <2>1. container[s] = File(w)
    BY DEF AnchorInit
  <2>2. w.seq = 1 /\ w.status = "HEAD" /\ w.gen = 0 /\ w.rev = 0
        /\ w = Anchor(s, w.seq, w.status, w.gen, w.content, w.rev)
    BY AnchorFields
  <2> HIDE DEF w
  <2>3. Shape(s, w)
    BY <2>2 DEF Shape
  <2> QED
    BY <2>1, <2>2, <2>3, FileContains
<1>4. \A s \in Sessions : SessionFits(s, Chain(s), container[s], session[s])
  BY <1>1, <1>2, <1>3 DEF SessionFits, Stands, Fresh
<1>5. /\ faults = [copies |-> 0, vault |-> 0] /\ listedTwice = {} /\ vault = {} /\ copies = {}
      /\ DOMAIN container = Sessions /\ DOMAIN session = Sessions /\ DOMAIN opened = Sessions
      /\ \A s \in Sessions : session[s] = "open" /\ opened[s] = "aligned"
  BY DEF AnchorInit
<1>6. \A s \in Sessions : Undisturbed(Chain(s), container[s].wants, session[s], opened[s])
  BY <1>1, <1>3, <1>5 DEF Undisturbed
<1>7. Counted(faults)
  BY <1>5 DEF Counted
<1> QED
  BY <1>4, <1>5, <1>6, <1>7 DEF AnchorInv

\* The newest record of a chain, for the code and for the proof.
LEMMA NewestIs ==
    ASSUME NEW s, Unbroken(Chain(s)), Chain(s) # {}
    PROVE  /\ IsLast(Chain(s), Newest(s))
           /\ \A n \in Chain(s) : IsLast(Chain(s), n) => n = Newest(s)
<1>1. IsLast(Chain(s), Newest(s))
  BY LastFacts DEF Newest
<1>2. Newest(s) \in Chain(s)
  BY <1>1 DEF IsLast
<1> QED
  BY <1>1, <1>2, LastFacts

\* A container that is opened as aligned, or as ahead, is so.
LEMMA OpenedFits ==
    ASSUME NEW V, Unbroken(V), NEW n, IsLast(V, n), NEW s, NEW f, Contained(s, f),
           Stands(V, f.wants), OpenClass(n, f) \in {"aligned", "anchor_behind_container"}
    PROVE  Fresh(V, f.wants)
<1> DEFINE w == f.wants
<1>1. f.gen = w.gen /\ f.content = w.content /\ f.rev = w.rev
  BY ContainedParts
<1>2. w.seq \in Nat /\ w.gen \in Nat /\ w.rev \in Nat /\ w.gen + w.rev + 1 = w.seq
  BY DEF Contained, Shape
<1>3. PICK N \in Nat : LinkedUpTo(V, N)
  BY DEF Unbroken
<1>4. n \in V /\ \A b \in V : b.seq <= n.seq
  BY DEF IsLast
<1>5. /\ n.gen \in Nat /\ n.rev \in Nat /\ n.gen + n.rev + 1 = n.seq
      /\ \A b \in V : b.gen <= n.gen /\ b.gen \in Nat /\ b.rev \in Nat /\ b.gen + b.rev + 1 = b.seq
  BY <1>3, <1>4 DEF LinkedUpTo
<1>6. \/ n.gen < w.gen
      \/ n.gen = w.gen /\ n.content = w.content /\ n.rev <= w.rev
  <2>1. f.gen \in Nat /\ f.rev \in Nat
    BY <1>1, <1>2
  <2>2. n.gen > f.gen => OpenClass(n, f) = "container_behind_anchor"
    BY <2>1, <1>5 DEF OpenClass
  <2>3. n.gen = f.gen /\ n.content # f.content => OpenClass(n, f) = "digest_mismatch"
    BY <2>1, <1>5 DEF OpenClass
  <2>4. n.gen = f.gen /\ n.content = f.content /\ n.rev > f.rev
            => OpenClass(n, f) = "container_behind_anchor"
    BY <2>1, <1>5 DEF OpenClass
  <2> QED
    BY <2>2, <2>3, <2>4, <1>1, <1>2, <1>5
<1>7. ASSUME NEW a \in V, Same(a, w)
      PROVE  Same(n, w) /\ n.content = w.content
  <2>1. a.gen = w.gen /\ a.rev = w.rev /\ a.seq = w.seq
    BY <1>7 DEF Same
  <2>2. a.gen <= n.gen /\ a.seq <= n.seq /\ a.gen + a.rev + 1 = a.seq
    BY <1>4, <1>5
  <2>3. n.gen = w.gen /\ n.content = w.content /\ n.rev <= w.rev
    BY <2>1, <2>2, <1>6, <1>2, <1>5
  <2>4. n.rev = w.rev /\ n.seq = w.seq
    BY <2>1, <2>2, <2>3, <1>2, <1>5
  <2> QED
    BY <2>3, <2>4 DEF Same
<1>8. ASSUME NEW m \in V, IsLast(V, m), OneOn(m, w)
      PROVE  OneOn(n, w)
  <2>1. m = n
    BY <1>4, <1>8, LastFacts
  <2> QED
    BY <1>8, <2>1
<1> QED
  BY <1>4, <1>7, <1>8 DEF Stands, Fresh

\* A step of one session that leaves the vault alone.
LEMMA OneSession ==
    ASSUME AnchorInv, NEW s \in Sessions, vault' = vault, listedTwice' = listedTwice,
           DOMAIN container' = Sessions, DOMAIN session' = Sessions, DOMAIN opened' = Sessions,
           \A t \in Sessions \ {s} : /\ container'[t] = container[t]
                                     /\ session'[t] = session[t] /\ opened'[t] = opened[t],
           Counted(faults'), faults' = faults \/ faults' # Untouched,
           SessionFits(s, Chain(s), container'[s], session'[s]),
           \A c \in copies' : Contained(c[1], c[2]) /\ \E a \in Chain(c[1]) : Same(a, c[2].wants),
           faults' = Untouched =>
               Undisturbed(Chain(s), container'[s].wants, session'[s], opened'[s])
    PROVE  AnchorInv'
<1>1. \A t : Chain(t)' = Chain(t)
  BY DEF Chain
<1>2. \A t \in Sessions : SessionFits(t, Chain(t), container'[t], session'[t])
  BY DEF AnchorInv
<1>3. \A t \in Sessions : SessionFits(t, Chain(t), container[t], session[t])'
  BY <1>1, <1>2
<1>4. faults' = Untouched =>
        /\ listedTwice' = {} /\ \A a \in vault' : RecordOk(a)
        /\ \A t \in Sessions :
              Undisturbed(Chain(t), container'[t].wants, session'[t], opened'[t])
  BY DEF AnchorInv
<1>5. faults' = Untouched =>
        \A t \in Sessions :
           Undisturbed(Chain(t)', container'[t].wants, session'[t], opened'[t])
  BY <1>1, <1>4
<1>6. \A a \in vault' : Recorded(a)
  BY DEF AnchorInv
<1>7. \A c \in copies' : Contained(c[1], c[2]) /\ \E a \in Chain(c[1])' : Same(a, c[2].wants)
  BY <1>1
<1> QED
  BY <1>3, <1>4, <1>5, <1>6, <1>7 DEF AnchorInv

LEMMA CloseKeeps ==
    ASSUME AnchorInv, NEW s \in Sessions, CloseSession(s)
    PROVE  AnchorInv'
<1>1. /\ vault' = vault /\ listedTwice' = listedTwice /\ container' = container
      /\ copies' = copies /\ opened' = opened /\ faults' = faults
      /\ session' = [session EXCEPT ![s] = "closed"] /\ DOMAIN session = Sessions
  BY DEF CloseSession, AnchorInv
<1>2. session'[s] = "closed" /\ \A t \in Sessions \ {s} : session'[t] = session[t]
  BY <1>1
<1>3. SessionFits(s, Chain(s), container[s], "closed")
  BY DEF AnchorInv, SessionFits
<1>4. faults = Untouched => Undisturbed(Chain(s), container[s].wants, "closed", opened[s])
  BY DEF AnchorInv, Undisturbed
<1>5. DOMAIN session' = Sessions
  BY <1>1
<1>6. Counted(faults') /\ DOMAIN container' = Sessions /\ DOMAIN opened' = Sessions
      /\ \A c \in copies' : Contained(c[1], c[2]) /\ \E a \in Chain(c[1]) : Same(a, c[2].wants)
  BY <1>1 DEF AnchorInv
<1>7. /\ SessionFits(s, Chain(s), container'[s], session'[s])
      /\ faults' = Untouched =>
           Undisturbed(Chain(s), container'[s].wants, session'[s], opened'[s])
  BY <1>1, <1>2, <1>3, <1>4
<1> QED
  BY <1>1, <1>2, <1>5, <1>6, <1>7, OneSession

LEMMA OpenAnchorKeeps ==
    ASSUME AnchorInv, NEW s \in Sessions, OpenSession(s)
    PROVE  AnchorInv'
<1> DEFINE class == OpenClass(Newest(s), container[s])
           st    == IF class \in {"aligned", "anchor_behind_container"} THEN "open" ELSE "stuck"
<1>1. /\ vault' = vault /\ listedTwice' = listedTwice /\ container' = container
      /\ copies' = copies /\ faults' = faults /\ Chain(s) # {}
      /\ session' = [session EXCEPT ![s] = st] /\ DOMAIN session = Sessions
      /\ opened' = [opened EXCEPT ![s] = class] /\ DOMAIN opened = Sessions
  BY DEF OpenSession, AnchorInv
<1>2. SessionFits(s, Chain(s), container[s], session[s])
  BY DEF AnchorInv
<1>3. Unbroken(Chain(s)) /\ Contained(s, container[s]) /\ Stands(Chain(s), container[s].wants)
  BY <1>2 DEF SessionFits
<1>4. IsLast(Chain(s), Newest(s)) /\ \A n \in Chain(s) : IsLast(Chain(s), n) => n = Newest(s)
  BY <1>1, <1>3, NewestIs
<1>5. class \in {"aligned", "anchor_behind_container"} => Fresh(Chain(s), container[s].wants)
  BY <1>3, <1>4, OpenedFits
<1>6. faults = Untouched => class \in {"aligned", "anchor_behind_container"}
  <2> SUFFICES ASSUME faults = Untouched
               PROVE  class \in {"aligned", "anchor_behind_container"}
    OBVIOUS
  <2> DEFINE n == Newest(s)  f == container[s]  w == f.wants
  <2>1. Undisturbed(Chain(s), w, session[s], opened[s])
    BY DEF AnchorInv
  <2>2. \/ w = n
        \/ OneOn(n, w) /\ (w.gen = n.gen => w.content = n.content)
    BY <1>1, <1>4, <2>1 DEF Undisturbed
  <2>3. f.gen = w.gen /\ f.content = w.content /\ f.rev = w.rev
    BY <1>3, ContainedParts
  <2>4. w.gen \in Nat /\ w.rev \in Nat
    BY <1>3 DEF Contained, Shape
  <2>5. n.gen \in Nat /\ n.rev \in Nat
    BY <1>3, <1>4 DEF Unbroken, LinkedUpTo, IsLast
  <2>6. \/ n.gen = f.gen /\ n.content = f.content /\ n.rev = f.rev
        \/ n.gen < f.gen
        \/ n.gen = f.gen /\ n.content = f.content /\ n.rev < f.rev
    BY <2>2, <2>3, <2>4, <2>5 DEF OneOn
  <2>7. f.gen \in Nat /\ f.rev \in Nat
    BY <2>3, <2>4
  <2> HIDE DEF n, f
  <2>8. OpenClass(n, f) \in {"aligned", "anchor_behind_container"}
    BY <2>5, <2>6, <2>7 DEF OpenClass
  <2> QED
    BY <2>8 DEF n, f
<1> HIDE DEF class
<1>7. SessionFits(s, Chain(s), container[s], st)
  BY <1>3, <1>5 DEF SessionFits
<1>8. faults = Untouched => Undisturbed(Chain(s), container[s].wants, st, class)
  BY <1>6 DEF AnchorInv, Undisturbed
<1> HIDE DEF st
<1>9. /\ session'[s] = st /\ opened'[s] = class
      /\ \A t \in Sessions \ {s} : session'[t] = session[t] /\ opened'[t] = opened[t]
      /\ DOMAIN session' = Sessions /\ DOMAIN opened' = Sessions
  BY <1>1
<1>10. Counted(faults') /\ DOMAIN container' = Sessions
      /\ \A c \in copies' : Contained(c[1], c[2]) /\ \E a \in Chain(c[1]) : Same(a, c[2].wants)
  BY <1>1 DEF AnchorInv
<1>11. /\ SessionFits(s, Chain(s), container'[s], session'[s])
       /\ faults' = Untouched =>
            Undisturbed(Chain(s), container'[s].wants, session'[s], opened'[s])
  BY <1>1, <1>7, <1>8, <1>9
<1> QED
  BY <1>1, <1>9, <1>10, <1>11, OneSession

LEMMA WriteKeeps ==
    ASSUME AnchorInv, NEW s \in Sessions, WriteContainer(s)
    PROVE  AnchorInv'
<1> DEFINE V == Chain(s)  f == container[s]  w == f.wants
<1>1. /\ vault' = vault /\ listedTwice' = listedTwice /\ session' = session
      /\ opened' = opened /\ faults' = faults /\ copies' = copies \cup {<<s, f>>}
      /\ session[s] = "open" /\ w \in vault
  BY DEF WriteContainer
<1>2. Unbroken(V) /\ Contained(s, f) /\ Fresh(V, w)
  BY <1>1 DEF AnchorInv, SessionFits
<1>3. f.gen = w.gen /\ f.content = w.content /\ f.rev = w.rev /\ w.record = s
  BY <1>2, ContainedParts
<1>4. w \in V /\ V # {}
  BY <1>1, <1>3 DEF Chain
<1>5. w.seq \in Nat /\ w.gen \in Nat /\ w.rev \in Nat /\ w.gen + w.rev + 1 = w.seq
  BY <1>2 DEF Contained, Shape
<1>6. IsLast(V, w)
  <2>1. PICK n \in V : IsLast(V, n) /\ (Same(n, w) \/ OneOn(n, w))
    BY <1>2, <1>4 DEF Fresh
  <2>2. w.seq <= n.seq /\ n.seq \in Nat
    BY <2>1, <1>2, <1>4 DEF IsLast, Unbroken, LinkedUpTo
  <2>3. ~OneOn(n, w)
    BY <2>2 DEF OneOn
  <2>4. n = w
    BY <2>1, <2>3, <1>2, <1>4 DEF Same, Unbroken, LinkedUpTo
  <2> QED
    BY <2>1, <2>4
<1>7. PICK st \in {"HEAD", "DELETING", "TOMBSTONE"} :
         /\ MayFollow(w.status, st)
         /\ \/ container' = [container EXCEPT ![s] =
                               File(Anchor(s, w.seq + 1, st, f.gen + 1, w.seq + 1, f.rev))]
            \/ /\ st = "HEAD"
               /\ container' = [container EXCEPT ![s] =
                                  File(Anchor(s, w.seq + 1, st, f.gen, f.content, f.rev + 1))]
  BY DEF WriteContainer
<1>8. DOMAIN container = Sessions
  BY DEF AnchorInv
<1>9. /\ DOMAIN container' = Sessions
      /\ \A t \in Sessions \ {s} : container'[t] = container[t]
      /\ \/ container'[s] = File(Anchor(s, w.seq + 1, st, w.gen + 1, w.seq + 1, w.rev))
         \/ /\ st = "HEAD"
            /\ container'[s] = File(Anchor(s, w.seq + 1, st, w.gen, w.content, w.rev + 1))
  BY <1>3, <1>7, <1>8
<1> HIDE DEF w
<1> DEFINE y == container'[s].wants
<1>10. /\ Contained(s, container'[s]) /\ y.seq = w.seq + 1 /\ y.status = st
       /\ \/ y.gen = w.gen + 1 /\ y.rev = w.rev
          \/ y.gen = w.gen /\ y.rev = w.rev + 1 /\ y.content = w.content
  <2>2. PICK v : /\ container'[s] = File(v)
                 /\ \/ v = Anchor(s, w.seq + 1, st, w.gen + 1, w.seq + 1, w.rev)
                    \/ v = Anchor(s, w.seq + 1, st, w.gen, w.content, w.rev + 1)
    BY <1>9
  <2>3. /\ v.seq = w.seq + 1 /\ v.status = st
        /\ \/ v.gen = w.gen + 1 /\ v.rev = w.rev
           \/ v.gen = w.gen /\ v.rev = w.rev + 1 /\ v.content = w.content
        /\ v = Anchor(s, v.seq, v.status, v.gen, v.content, v.rev)
    <3>1. CASE v = Anchor(s, w.seq + 1, st, w.gen + 1, w.seq + 1, w.rev)
      BY <3>1, AnchorFields
    <3>2. CASE v = Anchor(s, w.seq + 1, st, w.gen, w.content, w.rev + 1)
      BY <3>2, AnchorFields
    <3> QED
      BY <2>2, <3>1, <3>2
  <2>4. v.seq \in Nat /\ v.gen \in Nat /\ v.rev \in Nat /\ v.gen + v.rev + 1 = v.seq /\ v.seq # 1
    <3>1. v.seq = w.seq + 1
      BY <2>3
    <3>2. \/ v.gen = w.gen + 1 /\ v.rev = w.rev
          \/ v.gen = w.gen /\ v.rev = w.rev + 1
      BY <2>3
    <3> QED
      BY <3>1, <3>2, <1>5
  <2>5. Shape(s, v)
    BY <2>3, <2>4 DEF Shape
  <2>6. Contained(s, File(v)) /\ File(v).wants = v
    BY <2>5, FileContains
  <2>7. Contained(s, container'[s]) /\ y = v
    BY <2>2, <2>6
  <2> HIDE DEF y
  <2> QED
    BY <2>3, <2>7
<1>11. OneOn(w, y) /\ (y.gen = w.gen => y.content = w.content)
  BY <1>5, <1>10 DEF OneOn
<1>12. Stands(V, y) /\ Fresh(V, y)
  BY <1>4, <1>6, <1>11 DEF Stands, Fresh
<1>13. SessionFits(s, V, container'[s], session'[s])
  BY <1>2, <1>10, <1>12 DEF SessionFits
<1>14. faults' = Untouched => Undisturbed(V, y, session'[s], opened'[s])
  <2> SUFFICES ASSUME faults = Untouched PROVE Undisturbed(V, y, session[s], opened[s])
    BY <1>1
  <2>1. Undisturbed(V, w, session[s], opened[s])
    BY DEF AnchorInv, w
  <2> QED
    BY <2>1, <1>4, <1>6, <1>7, <1>10, <1>11 DEF Undisturbed
<1>15. \A c \in copies' : Contained(c[1], c[2]) /\ \E a \in Chain(c[1]) : Same(a, c[2].wants)
  <2> SUFFICES ASSUME NEW c \in copies'
               PROVE  Contained(c[1], c[2]) /\ \E a \in Chain(c[1]) : Same(a, c[2].wants)
    OBVIOUS
  <2>1. CASE c = <<s, f>>
    <3>1. c[1] = s /\ c[2] = f
      BY <2>1
    <3> QED
      BY <3>1, <1>2, <1>4 DEF Same, w
  <2>2. CASE c \in copies
    BY <2>2 DEF AnchorInv
  <2> QED
    BY <2>1, <2>2, <1>1
<1>16. Counted(faults') /\ DOMAIN session' = Sessions /\ DOMAIN opened' = Sessions
  BY <1>1 DEF AnchorInv
<1> QED
  BY <1>1, <1>9, <1>13, <1>14, <1>15, <1>16, OneSession

LEMMA SetBackKeeps ==
    ASSUME AnchorInv, NEW s \in Sessions, SetBack(s)
    PROVE  AnchorInv'
<1> DEFINE f == container[s]
<1>1. /\ vault' = vault /\ listedTwice' = listedTwice /\ session' = session
      /\ opened' = opened /\ copies' = copies /\ session[s] = "closed"
      /\ faults' = [faults EXCEPT !.copies = @ + 1]
  BY DEF SetBack
<1>2. Unbroken(Chain(s)) /\ Contained(s, f) /\ Stands(Chain(s), f.wants)
      /\ DOMAIN container = Sessions
  BY DEF AnchorInv, SessionFits
<1>3. Counted(faults') /\ faults' # Untouched
  <2>1. faults.copies \in Nat /\ faults.vault \in Nat
        /\ faults = [copies |-> faults.copies, vault |-> faults.vault]
    BY DEF AnchorInv, Counted
  <2>2. faults' = [copies |-> faults.copies + 1, vault |-> faults.vault]
    BY <1>1, <2>1
  <2>3. faults'.copies = faults.copies + 1 /\ faults'.vault = faults.vault
    BY <2>2
  <2>4. Untouched.copies = 0
    BY DEF Untouched
  <2> QED
    BY <2>1, <2>2, <2>3, <2>4 DEF Counted
<1>4. /\ DOMAIN container' = Sessions
      /\ \A t \in Sessions \ {s} : container'[t] = container[t]
      /\ Contained(s, container'[s]) /\ Stands(Chain(s), container'[s].wants)
  <2>1. CASE \E c \in copies : c[1] = s /\ container' = [container EXCEPT ![s] = c[2]]
    <3>1. PICK c \in copies : c[1] = s /\ container' = [container EXCEPT ![s] = c[2]]
      BY <2>1
    <3>2. Contained(s, c[2]) /\ \E a \in Chain(s) : Same(a, c[2].wants)
      BY <3>1 DEF AnchorInv
    <3>3. Stands(Chain(s), c[2].wants)
      BY <3>2 DEF Stands
    <3> QED
      BY <3>1, <3>2, <3>3, <1>2
  <2>2. CASE container' = [container EXCEPT ![s].content = MaxAnchorSeq[s] + 1,
                                            ![s].wants.content = MaxAnchorSeq[s] + 1]
    <3> DEFINE w == f.wants  x == MaxAnchorSeq[s] + 1
               v == [w EXCEPT !.content = x]
    <3>1. /\ container'[s] = [[f EXCEPT !.content = x] EXCEPT !.wants.content = x]
          /\ DOMAIN container' = Sessions
          /\ \A t \in Sessions \ {s} : container'[t] = container[t]
      BY <2>2, <1>2
    <3>2. f = File(w) /\ Shape(s, w)
      BY <1>2 DEF Contained
    <3> HIDE DEF f, w, x
    <3> DEFINE tr == IF w.seq = 1 \/ w.status = "TOMBSTONE" THEN None ELSE w.seq
               hz == IF w.status = "HEAD" THEN 0 ELSE 1
    <3>3. w = [record |-> s, session |-> s, role |-> 0, seq |-> w.seq, status |-> w.status,
               gen |-> w.gen, content |-> w.content, rev |-> w.rev,
               transition |-> tr, horizon |-> hz, good |-> TRUE]
      BY <3>2 DEF Shape, Anchor
    <3>4. v = Anchor(s, w.seq, w.status, w.gen, x, w.rev)
      <4>1. Anchor(s, w.seq, w.status, w.gen, x, w.rev) =
              [record |-> s, session |-> s, role |-> 0, seq |-> w.seq, status |-> w.status,
               gen |-> w.gen, content |-> x, rev |-> w.rev,
               transition |-> tr, horizon |-> hz, good |-> TRUE]
        BY DEF Anchor
      <4> HIDE DEF tr, hz
      <4>2. v = [record |-> s, session |-> s, role |-> 0, seq |-> w.seq, status |-> w.status,
                 gen |-> w.gen, content |-> x, rev |-> w.rev,
                 transition |-> tr, horizon |-> hz, good |-> TRUE]
        <5>1. /\ w.record = s /\ w.session = s /\ w.role = 0 /\ w.transition = tr
              /\ w.horizon = hz /\ w.good = TRUE /\ Recorded(w)
          BY <3>3 DEF Recorded
        <5>2. v = [record |-> w.record, session |-> w.session, role |-> w.role, seq |-> w.seq,
                   status |-> w.status, gen |-> w.gen, content |-> x, rev |-> w.rev,
                   transition |-> w.transition, horizon |-> w.horizon, good |-> w.good]
          BY <5>1, RecordChanges
        <5> HIDE DEF v
        <5> QED
          BY <5>1, <5>2
      <4> QED
        BY <4>1, <4>2
    <3>5. v.seq = w.seq /\ v.status = w.status /\ v.gen = w.gen /\ v.content = x /\ v.rev = w.rev
          /\ v = Anchor(s, v.seq, v.status, v.gen, v.content, v.rev)
      BY <3>4, AnchorFields
    <3>6. f = [gen |-> w.gen, content |-> w.content, rev |-> w.rev, wants |-> w]
      BY <3>2 DEF File
    <3>7. container'[s] = [gen |-> w.gen, content |-> x, rev |-> w.rev, wants |-> v]
      BY <3>1, <3>6
    <3> HIDE DEF v
    <3>8. container'[s] = File(v)
      BY <3>5, <3>7 DEF File
    <3>9. Shape(s, v)
      BY <3>2, <3>5 DEF Shape
    <3>10. Stands(Chain(s), v)
      BY <3>5, <1>2 DEF Stands, Same, OneOn, w
    <3>11. Contained(s, container'[s]) /\ container'[s].wants = v
      BY <3>8, <3>9, FileContains
    <3> QED
      BY <3>1, <3>10, <3>11
  <2> QED
    BY <2>1, <2>2 DEF SetBack
<1>5. SessionFits(s, Chain(s), container'[s], session'[s])
  BY <1>1, <1>2, <1>4 DEF SessionFits
<1>6. DOMAIN session' = Sessions /\ DOMAIN opened' = Sessions
      /\ \A c \in copies' : Contained(c[1], c[2]) /\ \E a \in Chain(c[1]) : Same(a, c[2].wants)
  BY <1>1 DEF AnchorInv
<1> QED
  BY <1>1, <1>3, <1>4, <1>5, <1>6, OneSession

\* A new record is appended to its own chain and follows the newest one there.
LEMMA AppendKeeps ==
    ASSUME AnchorInv, NEW s \in Sessions, AppendAnchor(s)
    PROVE  AnchorInv'
<1> DEFINE V == Chain(s)  c == container[s].wants
<1>1. /\ listedTwice' = listedTwice /\ container' = container /\ copies' = copies
      /\ opened' = opened /\ faults' = faults /\ session[s] = "open"
      /\ Classify(c) = "Corrupt" =>
            session' = [session EXCEPT ![s] = "stuck"] /\ vault' = vault
      /\ Classify(c) # "Corrupt" => vault' = vault \cup {c} /\ session' = session
  BY DEF AppendAnchor
<1>2. Unbroken(V) /\ Contained(s, container[s]) /\ Stands(V, c) /\ Fresh(V, c)
  BY <1>1 DEF AnchorInv, SessionFits
<1>3. c.record = s /\ c.role = 0 /\ RecordOk(c) /\ Recorded(c)
  BY <1>2, ContainedParts
<1>4. c.seq \in Nat /\ c.gen \in Nat /\ c.rev \in Nat /\ c.gen + c.rev + 1 = c.seq
      /\ (c.seq = 1 => c.status = "HEAD")
  BY <1>2 DEF Contained, Shape
<1>5. /\ DOMAIN container' = Sessions /\ DOMAIN opened' = Sessions /\ DOMAIN session = Sessions
      /\ Counted(faults') /\ \A a \in vault : Recorded(a)
      /\ \A k \in copies : Contained(k[1], k[2]) /\ \E a \in Chain(k[1]) : Same(a, k[2].wants)
  BY <1>1 DEF AnchorInv
<1> HIDE DEF c
<1>6. Classify(c) \in {"Corrupt", "ExactReplay", "Appended"}
  BY DEF Classify
<1>7. Classify(c) = "ExactReplay" => c \in vault
  BY DEF Classify
<1>8. Classify(c) = "Appended" =>
        \/ V = {} /\ c.seq = 1
        \/ V # {} /\ c.seq = Newest(s).seq + 1 /\ MayFollow(Newest(s).status, c.status)
  <2>1. V = {a \in vault : a.record = c.record}
    BY <1>3 DEF Chain
  <2>2. Newest(s) = CHOOSE a \in V : \A b \in V : b.seq <= a.seq
    BY DEF Newest
  <2> HIDE DEF V
  <2> QED
    BY <2>1, <2>2 DEF Classify
\* In a session that nothing disturbed there is nothing to object to.
<1>9. faults = Untouched => Classify(c) # "Corrupt"
  <2> SUFFICES ASSUME faults = Untouched PROVE Classify(c) # "Corrupt"
    OBVIOUS
  <2>1. /\ Undisturbed(V, c, session[s], opened[s])
        /\ listedTwice = {} /\ \A a \in vault : RecordOk(a)
    BY DEF AnchorInv, c
  <2>2. V = {a \in vault : a.record = c.record}
    BY <1>3 DEF Chain
  <2>3. ChainOk(V) /\ \A a \in V : a.role = c.role
    BY <1>2, <1>3, LinkedFacts DEF Unbroken, LinkedUpTo
  <2> DEFINE last == CHOOSE a \in V : \A b \in V : b.seq <= a.seq
  <2>4. V # {} => IsLast(V, last) /\ \A n \in V : IsLast(V, n) => n = last
    BY <1>2, LastFacts DEF IsLast
  <2>5. \/ V = {} /\ c.seq = 1 /\ MayFollow("none", c.status)
        \/ V # {} /\ c = last /\ last \in V
        \/ V # {} /\ c.seq = last.seq + 1 /\ MayFollow(last.status, c.status)
    <3>1. CASE V = {}
      BY <2>1, <3>1, <1>4 DEF Undisturbed, MayFollow
    <3>2. CASE V # {}
      <4>1. PICK n \in V : IsLast(V, n) /\ (c = n \/ (OneOn(n, c) /\ MayFollow(n.status, c.status)))
        BY <2>1, <3>2 DEF Undisturbed
      <4>2. n = last
        BY <2>4, <3>2, <4>1
      <4> HIDE DEF last
      <4> QED
        BY <3>2, <4>1, <4>2 DEF OneOn
    <3> QED
      BY <3>1, <3>2
  <2> HIDE DEF V
  <2>6. CASE \E a \in V : a.seq = c.seq
    <3>1. V # {}
      BY <2>6
    <3>2. c \in V
      <4>1. PICK a \in V : a.seq = c.seq
        BY <2>6
      <4>2. a.seq <= last.seq /\ last.seq \in Nat
        BY <2>4, <3>1, <1>2 DEF IsLast, Unbroken, LinkedUpTo
      <4>3. ~(c.seq = last.seq + 1)
        BY <4>1, <4>2
      <4> QED
        BY <2>5, <3>1, <4>3
    <3> QED
      BY <2>1, <2>2, <2>3, <2>6, <3>2, <1>3 DEF Classify
  <2>7. CASE ~ \E a \in V : a.seq = c.seq
    <3>1. c \notin V
      BY <2>7
    <3> QED
      BY <2>1, <2>2, <2>3, <2>5, <2>7, <3>1, <1>3 DEF Classify
  <2> QED
    BY <2>6, <2>7
<1>10. CASE Classify(c) = "Corrupt"
  <2>1. /\ session'[s] = "stuck" /\ DOMAIN session' = Sessions /\ vault' = vault
        /\ \A t \in Sessions \ {s} : session'[t] = session[t]
    BY <1>1, <1>5, <1>10
  <2>2. SessionFits(s, V, container'[s], session'[s])
    BY <1>1, <1>2, <2>1 DEF SessionFits, c
  <2>3. faults' # Untouched
    BY <1>1, <1>9, <1>10
  <2> QED
    BY <1>1, <1>5, <2>1, <2>2, <2>3, OneSession
<1>11. CASE Classify(c) = "ExactReplay"
  <2>1. vault' = vault /\ session' = session
    BY <1>1, <1>7, <1>11
  <2>2. SessionFits(s, V, container'[s], session'[s])
    BY <1>1, <2>1 DEF AnchorInv
  <2>3. faults' = Untouched =>
           Undisturbed(V, container'[s].wants, session'[s], opened'[s])
    BY <1>1, <2>1 DEF AnchorInv
  <2> QED
    BY <1>1, <1>5, <2>1, <2>2, <2>3, OneSession
<1>12. CASE Classify(c) = "Appended"
  <2>1. vault' = vault \cup {c} /\ session' = session
    BY <1>1, <1>12
  <2>2. V # {} => IsLast(V, Newest(s)) /\ \A n \in V : IsLast(V, n) => n = Newest(s)
    BY <1>2, NewestIs
  <2>3. V # {} => OneOn(Newest(s), c)
    <3> SUFFICES ASSUME V # {} PROVE OneOn(Newest(s), c)
      OBVIOUS
    <3>1. PICK n \in V : IsLast(V, n) /\ (Same(n, c) \/ OneOn(n, c))
      BY <1>2 DEF Fresh
    <3>2. n = Newest(s) /\ n.seq \in Nat
      BY <1>2, <2>2, <3>1 DEF Unbroken, LinkedUpTo
    <3>3. c.seq = n.seq + 1
      BY <1>8, <1>12, <3>2
    <3>4. ~Same(n, c)
      BY <3>2, <3>3 DEF Same
    <3> QED
      BY <3>1, <3>2, <3>4
  <2>4. Unbroken(V \cup {c}) /\ IsLast(V \cup {c}, c)
    <3>1. CASE V = {}
      BY <1>2, <1>3, <1>4, <1>8, <1>12, <3>1, LinkedGrows
    <3>2. CASE V # {}
      <4> DEFINE n == Newest(s)
      <4>1. n \in V /\ IsLast(V, n)
        BY <2>2, <3>2 DEF IsLast
      <4>2. c.seq = n.seq + 1 /\ MayFollow(n.status, c.status)
        BY <1>8, <1>12, <3>2
      <4>3. n.gen \in Nat
        BY <4>1, <1>2 DEF Unbroken, LinkedUpTo
      <4>4. n.gen <= c.gen
        BY <2>3, <3>2, <4>3, <1>4 DEF OneOn
      <4> HIDE DEF n
      <4> QED
        BY <4>1, <4>2, <4>4, <1>2, <1>3, <1>4, LinkedGrows
    <3> QED
      BY <3>1, <3>2
  <2>5. Chain(s)' = V \cup {c} /\ \A t : t # s => Chain(t)' = Chain(t)
    BY <2>1, <1>3 DEF Chain
  <2>6. c \in V \cup {c} /\ Same(c, c)
    BY DEF Same
  <2>7. SessionFits(s, V \cup {c}, container[s], session[s])
    BY <1>2, <2>4, <2>6 DEF SessionFits, Stands, Fresh, c
  <2>8. \A t \in Sessions : SessionFits(t, Chain(t)', container'[t], session'[t])
    BY <1>1, <2>1, <2>5, <2>7 DEF AnchorInv
  <2>9. faults' = Untouched =>
           /\ listedTwice' = {} /\ \A a \in vault' : RecordOk(a)
           /\ \A t \in Sessions :
                Undisturbed(Chain(t)', container'[t].wants, session'[t], opened'[t])
    <3> SUFFICES ASSUME faults = Untouched
                 PROVE  /\ listedTwice = {} /\ \A a \in vault' : RecordOk(a)
                        /\ \A t \in Sessions :
                             Undisturbed(Chain(t)', container[t].wants, session[t], opened[t])
      BY <1>1, <2>1
    <3>1. \A t \in Sessions : Undisturbed(Chain(t), container[t].wants, session[t], opened[t])
      BY DEF AnchorInv
    <3>2. Undisturbed(V \cup {c}, c, session[s], opened[s])
      BY <3>1, <1>3, <2>4, <2>6 DEF Undisturbed
    <3>3. \A t \in Sessions :
             Undisturbed(Chain(t)', container[t].wants, session[t], opened[t])
      BY <3>1, <3>2, <2>5 DEF c
    <3> QED
      BY <3>3, <2>1, <1>3 DEF AnchorInv
  <2>10. \A k \in copies' :
            Contained(k[1], k[2]) /\ \E a \in Chain(k[1])' : Same(a, k[2].wants)
    <3>1. \A t : Chain(t) \subseteq Chain(t)'
      BY <2>5
    <3> QED
      BY <3>1, <1>1, <1>5
  <2>11. DOMAIN session' = Sessions /\ \A a \in vault' : Recorded(a)
    BY <1>3, <1>5, <2>1
  <2> QED
    BY <1>5, <2>8, <2>9, <2>10, <2>11 DEF AnchorInv
<1> QED
  BY <1>6, <1>10, <1>11, <1>12

\* A record that the platform damages keeps everything but its HMAC.
LEMMA FaultKeeps ==
    ASSUME AnchorInv, VaultFault
    PROVE  AnchorInv'
<1>1. /\ container' = container /\ copies' = copies /\ session' = session /\ opened' = opened
      /\ faults' = [faults EXCEPT !.vault = @ + 1]
  BY DEF VaultFault
<1>2. Counted(faults') /\ faults' # Untouched
  <2>1. faults.copies \in Nat /\ faults.vault \in Nat
        /\ faults = [copies |-> faults.copies, vault |-> faults.vault]
    BY DEF AnchorInv, Counted
  <2>2. faults' = [copies |-> faults.copies, vault |-> faults.vault + 1]
    BY <1>1, <2>1
  <2>3. faults'.copies = faults.copies /\ faults'.vault = faults.vault + 1
    BY <2>2
  <2>4. Untouched.vault = 0
    BY DEF Untouched
  <2> QED
    BY <2>1, <2>2, <2>3, <2>4 DEF Counted
<1>3. CASE vault' = vault
  <2>1. \A t : Chain(t)' = Chain(t)
    BY <1>3 DEF Chain
  <2>2. \A t \in Sessions : SessionFits(t, Chain(t)', container'[t], session'[t])
    BY <1>1, <2>1 DEF AnchorInv
  <2>3. \A k \in copies' :
           Contained(k[1], k[2]) /\ \E a \in Chain(k[1])' : Same(a, k[2].wants)
    BY <1>1, <2>1 DEF AnchorInv
  <2> QED
    BY <1>1, <1>2, <1>3, <2>2, <2>3 DEF AnchorInv
<1>4. CASE \E a \in vault : vault' = (vault \ {a}) \cup {[a EXCEPT !.good = FALSE]}
  <2>1. PICK a \in vault : vault' = (vault \ {a}) \cup {[a EXCEPT !.good = FALSE]}
    BY <1>4
  <2> DEFINE b == [a EXCEPT !.good = FALSE]
  <2>2. Recorded(a)
    BY DEF AnchorInv
  <2>3. b = [record |-> a.record, session |-> a.session, role |-> a.role, seq |-> a.seq,
             status |-> a.status, gen |-> a.gen, content |-> a.content, rev |-> a.rev,
             transition |-> a.transition, horizon |-> a.horizon, good |-> FALSE]
    BY <2>2, RecordChanges
  <2>4. vault' = (vault \ {a}) \cup {b}
    BY <2>1
  <2> HIDE DEF b
  <2>5. /\ b.record = a.record /\ b.role = a.role /\ b.seq = a.seq /\ b.status = a.status
        /\ b.gen = a.gen /\ b.content = a.content /\ b.rev = a.rev
    BY <2>3
  <2>6. Recorded(b)
    BY <2>3 DEF Recorded
  <2> DEFINE r == a.record  V == Chain(r)  W == (V \ {a}) \cup {b}
  <2>7. Chain(r)' = W /\ a \in V /\ \A t : t # r => Chain(t)' = Chain(t)
    BY <2>4, <2>5 DEF Chain
  <2>8. /\ \A y \in W : \E z \in V : /\ z.seq = y.seq /\ z.status = y.status /\ z.gen = y.gen
                                     /\ z.rev = y.rev /\ z.content = y.content /\ z.role = y.role
        /\ \A z \in V : \E y \in W : /\ z.seq = y.seq /\ z.status = y.status /\ z.gen = y.gen
                                     /\ z.rev = y.rev /\ z.content = y.content /\ z.role = y.role
    BY <2>5, <2>7
  <2>9. Unbroken(V) => Unbroken(W)
    <3> SUFFICES ASSUME NEW N \in Nat, LinkedUpTo(V, N) PROVE LinkedUpTo(W, N)
      BY DEF Unbroken
    <3>1. \A y, z \in W : y.seq = z.seq => y = z
      BY <2>5, <2>7 DEF LinkedUpTo
    <3>2. \A i \in 1 .. N : \E y \in W : y.seq = i
      BY <2>8 DEF LinkedUpTo
    <3>3. /\ \A y \in W : y.seq \in 1 .. N /\ (y.seq = 1 => y.status = "HEAD")
          /\ \A y \in W : y.gen \in Nat /\ y.rev \in Nat /\ y.gen + y.rev + 1 = y.seq
          /\ \A y \in W : y.role = 0
      BY <2>8 DEF LinkedUpTo
    <3>4. \A y, z \in W : z.seq = y.seq + 1 => MayFollow(y.status, z.status)
      BY <2>8 DEF LinkedUpTo
    <3>5. \A y, z \in W : y.seq <= z.seq => y.gen <= z.gen
      BY <2>8 DEF LinkedUpTo
    <3> HIDE DEF W
    <3> QED
      BY <3>1, <3>2, <3>3, <3>4, <3>5 DEF LinkedUpTo
  <2>10. \A w : (\E z \in V : Same(z, w)) => \E y \in W : Same(y, w)
    BY <2>8 DEF Same
  <2>11. \A n \in V : IsLast(V, n) =>
            \E m \in W : /\ IsLast(W, m) /\ m.seq = n.seq /\ m.gen = n.gen /\ m.rev = n.rev
                         /\ m.content = n.content
    BY <2>8 DEF IsLast
  <2>12. W # {}
    OBVIOUS
  <2> HIDE DEF W, V
  <2>13. \A w : Stands(V, w) => Stands(W, w)
    <3> SUFFICES ASSUME NEW w, Stands(V, w) PROVE Stands(W, w)
      OBVIOUS
    <3>1. CASE \E z \in V : Same(z, w)
      BY <3>1, <2>10 DEF Stands
    <3>2. CASE \E n \in V : IsLast(V, n) /\ OneOn(n, w)
      BY <3>2, <2>11 DEF Stands, OneOn
    <3> QED
      BY <3>1, <3>2, <2>7 DEF Stands
  <2>14. \A w : Fresh(V, w) => Fresh(W, w)
    <3> SUFFICES ASSUME NEW w, Fresh(V, w) PROVE Fresh(W, w)
      OBVIOUS
    <3>1. PICK n \in V : IsLast(V, n) /\ ((Same(n, w) /\ n.content = w.content) \/ OneOn(n, w))
      BY <2>7 DEF Fresh
    <3> QED
      BY <3>1, <2>11 DEF Fresh, Same, OneOn
  <2>15. \A t \in Sessions : SessionFits(t, Chain(t), container[t], session[t])
    BY DEF AnchorInv
  <2>16. \A t \in Sessions : SessionFits(t, Chain(t)', container'[t], session'[t])
    BY <1>1, <2>7, <2>9, <2>13, <2>14, <2>15 DEF SessionFits, V
  <2>17. \A k \in copies' :
            Contained(k[1], k[2]) /\ \E y \in Chain(k[1])' : Same(y, k[2].wants)
    BY <1>1, <2>7, <2>10 DEF AnchorInv, V
  <2>18. \A y \in vault' : Recorded(y)
    BY <2>4, <2>6 DEF AnchorInv
  <2>19. DOMAIN container' = Sessions /\ DOMAIN session' = Sessions /\ DOMAIN opened' = Sessions
    BY <1>1 DEF AnchorInv
  <2> QED
    BY <1>2, <2>16, <2>17, <2>18, <2>19 DEF AnchorInv
<1> QED
  BY <1>3, <1>4 DEF VaultFault

\* Of each session the vault holds one unbroken history with at most one end,
\* whatever is retried, set back or damaged; no session goes on from a container
\* that was set back behind it; and a crash alone makes none stuck.
THEOREM AnchorsHold ==
    AnchorSpec => []AnchorSound
<1>1. AnchorInit => AnchorInv
  BY AnchorStarts
<1>2. AnchorInv /\ [AnchorNext]_anchorVars => AnchorInv'
  <2> SUFFICES ASSUME AnchorInv, [AnchorNext]_anchorVars PROVE AnchorInv'
    OBVIOUS
  <2>1. ASSUME NEW s \in Sessions,
               WriteContainer(s) \/ AppendAnchor(s) \/ CloseSession(s) \/ OpenSession(s)
                 \/ SetBack(s)
        PROVE  AnchorInv'
    BY <2>1, WriteKeeps, AppendKeeps, CloseKeeps, OpenAnchorKeeps, SetBackKeeps
  <2>2. CASE VaultFault
    BY <2>2, FaultKeeps
  <2>3. CASE UNCHANGED anchorVars
    BY <2>3 DEF anchorVars, AnchorInv, Chain
  <2> QED
    BY <2>1, <2>2, <2>3 DEF AnchorNext
<1>3. AnchorInv => AnchorSound
  <2> SUFFICES ASSUME AnchorInv PROVE AnchorSound
    OBVIOUS
  <2>1. ASSUME NEW s \in Sessions
        PROVE  /\ ChainOk(Chain(s))
               /\ Cardinality({a.seq : a \in Chain(s)}) = Cardinality(Chain(s))
               /\ \A a, b \in Chain(s) : a.status = "TOMBSTONE" => b.seq <= a.seq
    BY LinkedFacts DEF AnchorInv, SessionFits
  <2>2. ASSUME NEW s \in Sessions, session[s] = "open", Chain(s) # {}
        PROVE  LET a == Newest(s)  f == container[s] IN
               \/ <<f.gen, f.content, f.rev>> = <<a.gen, a.content, a.rev>>
               \/ f.wants.seq = a.seq + 1 /\ f.gen + f.rev = a.gen + a.rev + 1
    <3> DEFINE V == Chain(s)  f == container[s]  w == f.wants  a == Newest(s)
    <3>1. Unbroken(V) /\ Contained(s, f) /\ Fresh(V, w)
      BY <2>2 DEF AnchorInv, SessionFits
    <3>2. f.gen = w.gen /\ f.content = w.content /\ f.rev = w.rev
      BY <3>1, ContainedParts
    <3>3. PICK n \in V : IsLast(V, n) /\ ((Same(n, w) /\ n.content = w.content) \/ OneOn(n, w))
      BY <2>2, <3>1 DEF Fresh
    <3>4. n = a /\ n.gen \in Nat /\ n.rev \in Nat
      BY <2>2, <3>1, <3>3, NewestIs DEF Unbroken, LinkedUpTo
    <3>5. CASE Same(n, w) /\ n.content = w.content
      BY <3>2, <3>4, <3>5 DEF Same
    <3>6. CASE OneOn(n, w)
      <4>1. w.seq = n.seq + 1 /\ w.gen + w.rev = n.gen + n.rev + 1
        BY <3>4, <3>6 DEF OneOn
      <4> QED
        BY <3>2, <3>4, <4>1
    <3> QED
      BY <3>3, <3>5, <3>6
  <2>3. faults = Untouched =>
          \A s \in Sessions : /\ session[s] # "stuck"
                              /\ opened[s] \in {"aligned", "anchor_behind_container"}
    BY DEF AnchorInv, Undisturbed
  <2> QED
    BY <2>1, <2>2, <2>3 DEF AnchorSound, Untouched
<1> QED
  BY <1>1, <1>2, <1>3, PTL DEF AnchorSpec

-----------------------------------------------------------------------------
\* The double ratchet.  Turns are numbered over both parties: Alice's key i is of
\* turn 2i + 1, Bob's of turn 2i, and the root after a turn is one and the same
\* for both, the sequence of the secrets until then.

Turn(p, i) == IF p = Alice THEN 2 * i + 1 ELSE 2 * i
Secret(k)  == {<<Alice, (k - 1) \div 2>>, <<Bob, k \div 2>>}
RootOf(k)    == [i \in 1 .. k |-> Secret(i)]

\* The key of the other party at the turn before.
KeyBefore(p, i) ==
    IF p = Alice THEN <<Bob, i>> ELSE IF i = 0 THEN NoKey ELSE <<Alice, i - 1>>

TurnOf(m)    == Turn(m.from, m.dh[2])
TurnAt(p, s) == Turn(p, s.dhs)

\* Skipped keys are kept within the limit, under their own places: those of p's
\* state at turn T are of earlier turns of the other, in the newest before nr.
SkippedFits(p, T, nr, f) ==
    /\ IsFiniteSet(DOMAIN f) /\ Cardinality(DOMAIN f) <= MaxRetained
    /\ \A k \in DOMAIN f :
          \E j, n \in Nat :
             /\ k = <<<<Other(p), j>>, n>> /\ f[k] = <<RootOf(Turn(Other(p), j)), n>>
             /\ Turn(Other(p), j) < T
             /\ Turn(Other(p), j) = T - 1 => n < nr

\* A state of a party: its keys are those of its turn.
IsState(s) ==
    s = [rk |-> s.rk, dhs |-> s.dhs, dhr |-> s.dhr, cks |-> s.cks, ckr |-> s.ckr,
         ns |-> s.ns, nr |-> s.nr, pn |-> s.pn, skipped |-> s.skipped]

StateFits(p, s) ==
    /\ IsState(s)
    /\ s.dhs \in Nat /\ s.ns \in Nat /\ s.nr \in Nat /\ s.pn \in Nat
    /\ s.rk = RootOf(TurnAt(p, s)) /\ s.dhr = KeyBefore(p, s.dhs)
    /\ s.cks = IF TurnAt(p, s) = 0 THEN NoKey ELSE s.rk
    /\ s.ckr = IF s.dhs = 0 THEN NoKey ELSE RootOf(TurnAt(p, s) - 1)
    /\ SkippedFits(p, TurnAt(p, s), s.nr, s.skipped)

\* A message, seen from the state s of its sender.
MessageFits(m, s) ==
    /\ m = [from |-> m.from, dh |-> m.dh, pn |-> m.pn, n |-> m.n, key |-> m.key]
    /\ m.from \in Parties /\ m.pn \in Nat /\ m.n \in Nat
    /\ m.dh = <<m.from, m.dh[2]>> /\ m.dh[2] \in Nat
    /\ m.key = <<RootOf(TurnOf(m)), m.n>> /\ TurnOf(m) >= 1
    /\ m.dh[2] <= s.dhs
    /\ m.dh[2] = s.dhs => m.n < s.ns /\ m.pn = s.pn
    /\ m.dh[2] + 1 = s.dhs => m.n < s.pn

PairsFit(N) ==
    \A m, o \in N : m.from = o.from =>
        /\ m.dh = o.dh => m.pn = o.pn
        /\ m.dh[2] + 1 = o.dh[2] => m.n < o.pn

\* What a party with state s has read, of the messages N.
Behind(p, s, m) ==
    TurnOf(m) < TurnAt(p, s) - 1 \/ (TurnOf(m) = TurnAt(p, s) - 1 /\ m.n < s.nr)

ReadFits(p, s, N, read) ==
    \A m \in N : m.from = Other(p) =>
        /\ Behind(p, s, m) => (m \in read <=> ~Kept(s, m))
        /\ ~Behind(p, s, m) => m \notin read /\ ~Kept(s, m)

\* The parties are one turn apart; who is behind has read no more than was sent.
TurnsFit(p, s, t) ==
    /\ TurnAt(p, s) - 1 = TurnAt(Other(p), t) \/ TurnAt(p, s) + 1 = TurnAt(Other(p), t)
    /\ TurnAt(p, s) - 1 = TurnAt(Other(p), t) => s.nr <= t.ns

\* A party in state s that has read messages among N, the other being in state t.
Reader(p, s, t, N, read) ==
    /\ StateFits(p, s) /\ StateFits(Other(p), t) /\ TurnsFit(p, s, t)
    /\ PairsFit(N) /\ \A m \in N : m.from = Other(p) => MessageFits(m, t)
    /\ ReadFits(p, s, N, read)

\* The message that is being received.
RecvFits(p, s, N, r, read) ==
    /\ r.state \in {"idle", "derived", "pending", "sql_committed"}
    /\ r.state = "idle" => r = IdleRecv
    /\ r.state # "idle" =>
          /\ r = [state |-> r.state, msg |-> r.msg, key |-> r.key, next |-> r.next]
          /\ r.msg \in N /\ r.msg.from = Other(p) /\ MayDecrypt(p, s, r.msg)
          /\ r.key = KeyFor(p, s, r.msg) /\ r.next = After(p, s, r.msg)
          /\ r.state \in {"pending", "sql_committed"} => r.key = r.msg.key
    /\ r.state = "sql_committed" => r.msg \in read

\* What was read before it.
ReadBefore(r, read) == IF r.state = "sql_committed" THEN read \ {r.msg} ELSE read

RatchetInv ==
    /\ DOMAIN head = Parties /\ DOMAIN recv = Parties /\ DOMAIN ledger = Parties
    /\ \A m \in net : m.from \in Parties
    /\ \A p \in Parties :
          /\ Reader(p, head[p], head[Other(p)], net, ReadBefore(recv[p], ledger[p]))
          /\ RecvFits(p, head[p], net, recv[p], ledger[p])
          /\ ledger[p] \subseteq net

-----------------------------------------------------------------------------
\* Turns and roots.

LEMMA TheOther ==
    ASSUME NEW p \in Parties
    PROVE  Other(p) \in Parties /\ Other(p) # p /\ Other(Other(p)) = p
BY RatchetConstants DEF Parties, Other

LEMMA TurnFacts ==
    ASSUME NEW p \in Parties, NEW i \in Nat, NEW j \in Nat
    PROVE  /\ Turn(p, i) \in Nat
           /\ Turn(p, i + 1) = Turn(p, i) + 2
           /\ Turn(p, i) < Turn(p, j) <=> i < j
           /\ Turn(p, i) # Turn(Other(p), j)
BY RatchetConstants DEF Turn, Parties, Other

\* The key before a turn is the other's key of the turn one less.
LEMMA BeforeFacts ==
    ASSUME NEW p \in Parties, NEW i \in Nat, NEW j \in Nat
    PROVE  /\ KeyBefore(p, i) = <<Other(p), j>> <=> Turn(Other(p), j) = Turn(p, i) - 1
           /\ Turn(Other(p), j) >= 1 /\ Turn(Other(p), j) = Turn(p, i) - 1 => i # 0
           /\ i # 0 => Turn(p, i) - 1 \in Nat
           /\ Turn(Other(p), j) = Turn(p, i) + 1 => KeyBefore(p, i + 1) = <<Other(p), j>>
<1>1. NoKey # <<Alice, j>>
  BY RatchetConstants DEF Parties
<1>2. CASE p = Alice
  BY <1>1, <1>2, RatchetConstants DEF Turn, Parties, Other, KeyBefore
<1>3. CASE p = Bob
  BY <1>1, <1>3, RatchetConstants DEF Turn, Parties, Other, KeyBefore
<1> QED
  BY <1>2, <1>3 DEF Parties

LEMMA SecretFacts ==
    ASSUME NEW p \in Parties, NEW i \in Nat, NEW j \in Nat,
           Turn(Other(p), j) = Turn(p, i) + 1
    PROVE  /\ {<<p, i>>, <<Other(p), j>>} = Secret(Turn(p, i) + 1)
           /\ {<<p, i + 1>>, <<Other(p), j>>} = Secret(Turn(p, i) + 2)
<1>1. CASE p = Alice
  <2>1. Turn(p, i) = 2 * i + 1 /\ j = i + 1 /\ Other(p) = Bob
    BY <1>1, RatchetConstants DEF Turn, Other
  <2>2. (2 * i + 1) \div 2 = i /\ (2 * i + 2) \div 2 = i + 1 /\ (2 * i + 3) \div 2 = i + 1
    OBVIOUS
  <2> QED
    BY <1>1, <2>1, <2>2 DEF Secret
<1>2. CASE p = Bob
  <2>1. Turn(p, i) = 2 * i /\ j = i /\ Other(p) = Alice
    BY <1>2, RatchetConstants DEF Turn, Other
  <2>2. (2 * i) \div 2 = i /\ (2 * i + 1) \div 2 = i /\ (2 * i + 2) \div 2 = i + 1
    OBVIOUS
  <2> QED
    BY <1>2, <2>1, <2>2 DEF Secret
<1> QED
  BY <1>1, <1>2 DEF Parties

LEMMA RootFacts ==
    ASSUME NEW k \in Nat
    PROVE  /\ RootOf(k) \in Seq(SUBSET (Parties \X Nat)) /\ Len(RootOf(k)) = k
           /\ RootOf(k) # NoKey
<1>1. \A i \in 1 .. k : Secret(i) \in SUBSET (Parties \X Nat)
  BY DEF Secret, Parties
<1>2. RootOf(k) \in [1 .. k -> SUBSET (Parties \X Nat)]
  BY <1>1 DEF RootOf
<1>3. RootOf(k) \in Seq(SUBSET (Parties \X Nat)) /\ Len(RootOf(k)) = k
  BY <1>2
<1> QED
  BY <1>3, RatchetConstants

LEMMA RootsDiffer ==
    ASSUME NEW k \in Nat, NEW l \in Nat, RootOf(k) = RootOf(l)
    PROVE  k = l
BY RootFacts

LEMMA RootGrows ==
    ASSUME NEW k \in Nat
    PROVE  Append(RootOf(k), Secret(k + 1)) = RootOf(k + 1)
<1>1. Len(RootOf(k)) = k /\ RootOf(k) \in Seq(SUBSET (Parties \X Nat))
  BY RootFacts
<1>2. Append(RootOf(k), Secret(k + 1)) =
          [i \in 1 .. k + 1 |-> IF i = k + 1 THEN Secret(k + 1) ELSE RootOf(k)[i]]
  BY <1>1
<1>3. \A i \in 1 .. k : RootOf(k)[i] = Secret(i)
  BY DEF RootOf
<1> QED
  BY <1>2, <1>3 DEF RootOf

LEMMA RootTooLong ==
    ASSUME NEW k \in Nat, NEW l \in Nat, l <= k, NEW x \in SUBSET (Parties \X Nat)
    PROVE  Append(RootOf(k), x) # RootOf(l)
<1>1. /\ Len(RootOf(k)) = k /\ RootOf(k) \in Seq(SUBSET (Parties \X Nat))
      /\ Len(RootOf(l)) = l
  BY RootFacts
<1>2. Len(Append(RootOf(k), x)) = k + 1
  BY <1>1
<1> QED
  BY <1>1, <1>2


-----------------------------------------------------------------------------
\* Skipped keys.

LEMMA PassedFacts ==
    ASSUME NEW dh, NEW s, s.nr \in Nat, NEW n \in Nat
    PROVE  /\ IsFiniteSet(Passed(dh, s, n))
           /\ \A d, i : <<d, i>> \in Passed(dh, s, n) <=> d = dh /\ i \in s.nr .. n - 1
           /\ n <= s.nr => Passed(dh, s, n) = {}
<1> DEFINE f == [i \in s.nr .. n - 1 |-> <<dh, i>>]
<1>1. IsFiniteSet(s.nr .. n - 1)
  BY FS_Interval
<1>2. f \in Surjection(s.nr .. n - 1, Passed(dh, s, n))
  BY DEF Passed, Surjection
<1>3. IsFiniteSet(Passed(dh, s, n))
  BY <1>1, <1>2, FS_Surjection
<1> QED
  BY <1>3 DEF Passed

\* Passing over keys of the chain of turn T - 1, with which nr reaches n.
LEMMA KeepingFits ==
    ASSUME NEW p \in Parties, NEW s, NEW T \in Nat, NEW j \in Nat, NEW n \in Nat,
           s.nr \in Nat, n >= s.nr,
           SkippedFits(p, T, s.nr, s.skipped),
           Turn(Other(p), j) = T - 1, s.ckr = RootOf(T - 1),
           MaySkip(s, <<Other(p), j>>, n)
    PROVE  LET g == Keeping(s, Passed(<<Other(p), j>>, s, n)) IN
           /\ SkippedFits(p, T, n, g)
           /\ \A k, i \in Nat :
                 <<<<Other(p), k>>, i>> \in DOMAIN g <=>
                     \/ <<<<Other(p), k>>, i>> \in DOMAIN s.skipped
                     \/ k = j /\ i \in s.nr .. n - 1
<1> DEFINE P == Passed(<<Other(p), j>>, s, n)
           g == Keeping(s, P)
<1>1. /\ IsFiniteSet(P)
      /\ n <= s.nr => P = {}
      /\ \A d, i : <<d, i>> \in P <=> d = <<Other(p), j>> /\ i \in s.nr .. n - 1
  BY PassedFacts
<1>2. DOMAIN g = DOMAIN s.skipped \cup P
  BY DEF Keeping
<1>a. IsFiniteSet(DOMAIN s.skipped) /\ Cardinality(DOMAIN s.skipped) <= MaxRetained
  BY DEF SkippedFits
<1>b. n > s.nr => Cardinality(DOMAIN s.skipped \cup P) <= MaxRetained
  BY DEF MaySkip
<1> HIDE DEF P, g
<1>3. IsFiniteSet(DOMAIN g)
  BY <1>1, <1>2, <1>a, FS_Union
<1>4. Cardinality(DOMAIN g) <= MaxRetained
  <2>1. CASE n > s.nr
    BY <1>2, <1>b, <2>1
  <2>2. CASE n = s.nr
    <3>1. DOMAIN g = DOMAIN s.skipped
      BY <1>1, <1>2, <2>2
    <3> QED
      BY <1>a, <3>1
  <2> QED
    BY <2>1, <2>2
<1>5. ASSUME NEW k \in DOMAIN g
      PROVE  \E l, i \in Nat :
                /\ k = <<<<Other(p), l>>, i>> /\ g[k] = <<RootOf(Turn(Other(p), l)), i>>
                /\ Turn(Other(p), l) < T
                /\ Turn(Other(p), l) = T - 1 => i < n
  <2>1. CASE k \in DOMAIN s.skipped
    <3>1. g[k] = s.skipped[k]
      BY <1>2, <2>1 DEF Keeping, g
    <3>2. PICK l, i \in Nat :
             /\ k = <<<<Other(p), l>>, i>> /\ s.skipped[k] = <<RootOf(Turn(Other(p), l)), i>>
             /\ Turn(Other(p), l) < T
             /\ Turn(Other(p), l) = T - 1 => i < s.nr
      BY <2>1 DEF SkippedFits
    <3> QED
      BY <3>1, <3>2
  <2>2. CASE k \notin DOMAIN s.skipped
    <3>1. k \in P
      BY <1>2, <2>2
    <3>2. PICK i \in s.nr .. n - 1 : k = <<<<Other(p), j>>, i>>
      BY <3>1 DEF Passed, P
    <3>3. g[k] = <<s.ckr, k[2]>>
      BY <1>2, <2>2 DEF Keeping, g
    <3>4. i \in Nat /\ i < n /\ k[2] = i
      BY <3>2
    <3>5. g[k] = <<RootOf(Turn(Other(p), j)), i>> /\ Turn(Other(p), j) < T
      BY <3>3, <3>4
    <3> QED
      BY <3>2, <3>4, <3>5
  <2> QED
    BY <2>1, <2>2
<1>6. SkippedFits(p, T, n, g)
  BY <1>3, <1>4, <1>5 DEF SkippedFits
<1>7. ASSUME NEW k \in Nat, NEW i \in Nat
      PROVE  <<<<Other(p), k>>, i>> \in DOMAIN g <=>
                     \/ <<<<Other(p), k>>, i>> \in DOMAIN s.skipped
                     \/ k = j /\ i \in s.nr .. n - 1
  <2>1. <<Other(p), k>> = <<Other(p), j>> <=> k = j
    OBVIOUS
  <2> QED
    BY <1>1, <1>2, <2>1
<1> QED
  BY <1>6, <1>7 DEF g, P

\* What of a later turn is kept of it.
LEMMA LaterTurn ==
    ASSUME NEW p \in Parties, NEW T \in Nat, NEW U \in Nat, NEW nr, NEW mr, NEW f,
           SkippedFits(p, T, nr, f), T < U
    PROVE  SkippedFits(p, U, mr, f)
<1>1. ASSUME NEW k \in DOMAIN f
      PROVE  \E j, n \in Nat :
                /\ k = <<<<Other(p), j>>, n>> /\ f[k] = <<RootOf(Turn(Other(p), j)), n>>
                /\ Turn(Other(p), j) < U
                /\ Turn(Other(p), j) = U - 1 => n < mr
  <2>1. PICK j, n \in Nat :
           /\ k = <<<<Other(p), j>>, n>> /\ f[k] = <<RootOf(Turn(Other(p), j)), n>>
           /\ Turn(Other(p), j) < T
           /\ Turn(Other(p), j) = T - 1 => n < nr
    BY DEF SkippedFits
  <2>2. Turn(Other(p), j) \in Nat
    BY TurnFacts, TheOther
  <2>3. Turn(Other(p), j) < U /\ Turn(Other(p), j) # U - 1
    BY <2>1, <2>2
  <2> QED
    BY <2>1, <2>3
<1> QED
  BY <1>1 DEF SkippedFits

-----------------------------------------------------------------------------
\* A message of the other party.

LEMMA SeenFrom ==
    ASSUME NEW p \in Parties, NEW s, NEW t, NEW N, NEW read, Reader(p, s, t, N, read),
           NEW m \in N, m.from = Other(p)
    PROVE  /\ m.dh[2] \in Nat /\ m.n \in Nat /\ m.pn \in Nat
           /\ m.dh = <<Other(p), m.dh[2]>> /\ m.key = <<RootOf(TurnOf(m)), m.n>>
           /\ TurnOf(m) = Turn(Other(p), m.dh[2]) /\ TurnOf(m) \in Nat /\ TurnOf(m) >= 1
           /\ TurnAt(p, s) \in Nat
           /\ m.dh = s.dhr <=> TurnOf(m) = TurnAt(p, s) - 1
           /\ TurnOf(m) # TurnAt(p, s) /\ TurnOf(m) <= TurnAt(p, s) + 1
           /\ TurnOf(m) = TurnAt(p, s) - 1 =>
                 s.dhs # 0 /\ s.ckr = RootOf(TurnAt(p, s) - 1) /\ s.ckr # NoKey
<1> DEFINE q == Other(p)
           j == m.dh[2]
<1>1. /\ MessageFits(m, t) /\ StateFits(p, s) /\ StateFits(q, t) /\ TurnsFit(p, s, t)
  BY DEF Reader
<1>2. q \in Parties
  BY TheOther
<1>3. /\ j \in Nat /\ m.n \in Nat /\ m.pn \in Nat /\ m.dh = <<q, j>>
      /\ m.key = <<RootOf(TurnOf(m)), m.n>> /\ TurnOf(m) = Turn(q, j) /\ TurnOf(m) >= 1
      /\ j <= t.dhs
  BY <1>1 DEF MessageFits, TurnOf
<1>4. s.dhs \in Nat /\ t.dhs \in Nat /\ s.dhr = KeyBefore(p, s.dhs)
      /\ s.ckr = IF s.dhs = 0 THEN NoKey ELSE RootOf(TurnAt(p, s) - 1)
  BY <1>1 DEF StateFits
<1>5. Turn(q, j) \in Nat /\ Turn(p, s.dhs) \in Nat /\ Turn(q, t.dhs) \in Nat
  BY <1>2, <1>3, <1>4, TurnFacts
<1>6. TurnAt(p, s) = Turn(p, s.dhs) /\ TurnAt(q, t) = Turn(q, t.dhs)
  BY DEF TurnAt
<1>c. PICK i \in Nat, k \in Nat : i = s.dhs /\ k = j
  BY <1>3, <1>4
<1>d. /\ KeyBefore(p, i) = <<q, k>> <=> Turn(q, k) = Turn(p, i) - 1
      /\ Turn(q, k) >= 1 /\ Turn(q, k) = Turn(p, i) - 1 => i # 0
      /\ i # 0 => Turn(p, i) - 1 \in Nat
  BY BeforeFacts
<1>7. m.dh = s.dhr <=> TurnOf(m) = TurnAt(p, s) - 1
  <2>1. m.dh = <<q, k>> /\ TurnOf(m) = Turn(q, k)
    BY <1>3, <1>c
  <2>2. s.dhr = KeyBefore(p, i) /\ TurnAt(p, s) = Turn(p, i)
    BY <1>4, <1>6, <1>c
  <2> QED
    BY <2>1, <2>2, <1>d
<1>8. TurnOf(m) # TurnAt(p, s)
  BY <1>3, <1>4, <1>6, TurnFacts
<1>9. Turn(q, j) <= Turn(q, t.dhs)
  <2>1. CASE j < t.dhs
    BY <1>2, <1>3, <1>4, <1>5, <2>1, TurnFacts
  <2>2. CASE j = t.dhs
    BY <1>5, <2>2
  <2> QED
    BY <1>3, <1>4, <2>1, <2>2
<1>10. Turn(q, t.dhs) <= Turn(p, s.dhs) + 1
  BY <1>1, <1>5, <1>6 DEF TurnsFit
<1>11. TurnOf(m) <= TurnAt(p, s) + 1
  BY <1>3, <1>5, <1>6, <1>9, <1>10
<1>12. ASSUME TurnOf(m) = TurnAt(p, s) - 1
       PROVE  s.dhs # 0 /\ s.ckr = RootOf(TurnAt(p, s) - 1) /\ s.ckr # NoKey
  <2>1. s.dhs # 0 /\ Turn(p, s.dhs) - 1 \in Nat
    BY <1>3, <1>4, <1>6, <1>12, <1>c, <1>d
  <2>2. s.ckr = RootOf(TurnAt(p, s) - 1) /\ TurnAt(p, s) - 1 \in Nat
    BY <1>4, <1>6, <2>1
  <2> QED
    BY <2>1, <2>2, RootFacts
<1> QED
  BY <1>3, <1>5, <1>6, <1>7, <1>8, <1>11, <1>12

LEMMA TurnsName ==
    ASSUME NEW p \in Parties, NEW i \in Nat, NEW j \in Nat, Turn(p, i) = Turn(p, j)
    PROVE  i = j
BY TurnFacts

\* Messages of one turn and place are one.
LEMMA OneMessage ==
    ASSUME NEW p \in Parties, NEW s, NEW t, NEW N, NEW read, Reader(p, s, t, N, read),
           NEW m \in N, m.from = Other(p), NEW o \in N, o.from = Other(p),
           TurnOf(m) = TurnOf(o)
    PROVE  m.dh = o.dh /\ m.pn = o.pn /\ (m.n = o.n => m = o)
<1>1. m.dh[2] = o.dh[2] /\ m.dh = <<Other(p), m.dh[2]>> /\ o.dh = <<Other(p), o.dh[2]>>
      /\ m.key = <<RootOf(TurnOf(m)), m.n>> /\ o.key = <<RootOf(TurnOf(o)), o.n>>
  BY SeenFrom, TurnsName, TheOther
<1>2. m.dh = o.dh /\ m.pn = o.pn
  BY <1>1 DEF Reader, PairsFit
<1>3. /\ m = [from |-> m.from, dh |-> m.dh, pn |-> m.pn, n |-> m.n, key |-> m.key]
      /\ o = [from |-> o.from, dh |-> o.dh, pn |-> o.pn, n |-> o.n, key |-> o.key]
  BY DEF Reader, MessageFits
<1> QED
  BY <1>1, <1>2, <1>3

\* A key that is kept is the message's own, which was not read.
LEMMA KeptUnread ==
    ASSUME NEW p \in Parties, NEW s, NEW t, NEW N, NEW read, Reader(p, s, t, N, read),
           NEW m \in N, m.from = Other(p), Kept(s, m)
    PROVE  /\ s.skipped[<<m.dh, m.n>>] = m.key
           /\ Behind(p, s, m) /\ m \notin read
<1>1. Behind(p, s, m) /\ m \notin read
  BY DEF Reader, ReadFits
<1>2. PICK j, n \in Nat : /\ <<m.dh, m.n>> = <<<<Other(p), j>>, n>>
                          /\ s.skipped[<<m.dh, m.n>>] = <<RootOf(Turn(Other(p), j)), n>>
  BY DEF Reader, StateFits, SkippedFits, Kept
<1>3. m.n = n /\ m.dh[2] = j
  BY <1>2
<1> QED
  BY <1>1, <1>2, <1>3, SeenFrom

\* A message that may be decrypted and has no kept key: of the current turn, or of
\* the next, with its own key; or of an earlier one, with another key.
LEMMA ThreeTurns ==
    ASSUME NEW p \in Parties, NEW s, NEW t, NEW N, NEW read, Reader(p, s, t, N, read),
           NEW m \in N, m.from = Other(p), ~Kept(s, m), MayDecrypt(p, s, m)
    PROVE  \/ /\ TurnOf(m) = TurnAt(p, s) - 1 /\ m.dh = s.dhr /\ m.n >= s.nr
              /\ KeyFor(p, s, m) = m.key /\ m \notin read
           \/ /\ TurnOf(m) = TurnAt(p, s) + 1 /\ m.dh # s.dhr
              /\ KeyFor(p, s, m) = m.key /\ m \notin read
           \/ KeyFor(p, s, m) # m.key /\ m \in read
<1> DEFINE T == TurnAt(p, s)
<1> HIDE DEF T
<1>1. /\ TurnOf(m) \in Nat /\ T \in Nat /\ m.n \in Nat
      /\ m.dh = s.dhr <=> TurnOf(m) = T - 1
      /\ TurnOf(m) # T /\ TurnOf(m) <= T + 1
      /\ m.key = <<RootOf(TurnOf(m)), m.n>>
      /\ TurnOf(m) = T - 1 => s.ckr = RootOf(T - 1)
  BY SeenFrom DEF T
<1>2. s.nr \in Nat /\ s.dhs \in Nat /\ IsState(s) /\ s.rk = RootOf(T)
  BY DEF Reader, StateFits, T
<1>3. Behind(p, s, m) <=> TurnOf(m) < T - 1 \/ (TurnOf(m) = T - 1 /\ m.n < s.nr)
  BY DEF Behind, T
<1>4. KeyFor(p, s, m) = <<Turned(p, s, m).ckr, m.n>>
  BY DEF KeyFor
<1>5. CASE TurnOf(m) = T - 1
  <2>1. Turned(p, s, m) = s
    BY <1>1, <1>5 DEF Turned
  <2>2. m.n >= s.nr
    BY <2>1 DEF MayDecrypt
  <2>3. m \notin read
    BY <1>1, <1>2, <1>3, <1>5, <2>2 DEF Reader, ReadFits
  <2> QED
    BY <1>1, <1>4, <1>5, <2>1, <2>2, <2>3 DEF T
<1>6. CASE TurnOf(m) # T - 1
  <2>1. Turned(p, s, m).ckr = Append(RootOf(T), {<<p, s.dhs>>, m.dh})
    <3>1. Turned(p, s, m) = NewKey(p, s, m)
      BY <1>1, <1>6 DEF Turned
    <3>2. NewKey(p, s, m).ckr = Append(s.rk, {<<p, s.dhs>>, m.dh})
      BY <1>2 DEF NewKey, IsState, SkipTo
    <3> QED
      BY <1>2, <3>1, <3>2
  <2>2. CASE TurnOf(m) = T + 1
    <3>1. m.dh = <<Other(p), m.dh[2]>> /\ m.dh[2] \in Nat
          /\ Turn(Other(p), m.dh[2]) = T + 1 /\ T = Turn(p, s.dhs)
      BY <2>2, SeenFrom DEF T, TurnAt
    <3>a. PICK i \in Nat, k \in Nat : i = s.dhs /\ k = m.dh[2]
      BY <1>2, <3>1
    <3>b. Turn(Other(p), k) = Turn(p, i) + 1
      BY <3>1, <3>a
    <3>c. {<<p, i>>, <<Other(p), k>>} = Secret(Turn(p, i) + 1)
      BY <3>b, SecretFacts
    <3>2. {<<p, s.dhs>>, m.dh} = Secret(T + 1)
      BY <3>1, <3>a, <3>c
    <3>3. Turned(p, s, m).ckr = RootOf(T + 1)
      BY <1>1, <2>1, <3>2, RootGrows
    <3>4. m \notin read
      BY <1>1, <1>3, <2>2 DEF Reader, ReadFits
    <3> QED
      BY <1>1, <1>4, <1>6, <2>2, <3>3, <3>4 DEF T
  <2>3. CASE TurnOf(m) < T - 1
    <3>1. m \in read
      BY <1>3, <2>3 DEF Reader, ReadFits
    <3>2. {<<p, s.dhs>>, m.dh} \in SUBSET (Parties \X Nat)
      BY <1>2, SeenFrom, TheOther
    <3>3. TurnOf(m) <= T
      BY <1>1, <2>3
    <3>4. Turned(p, s, m).ckr # RootOf(TurnOf(m))
      BY <1>1, <2>1, <3>2, <3>3, RootTooLong
    <3> QED
      BY <1>1, <1>4, <3>1, <3>4
  <2> QED
    BY <1>1, <1>6, <2>2, <2>3
<1> QED
  BY <1>5, <1>6

\* What opens is unread, and what is unread opens.
LEMMA OpensUnread ==
    ASSUME NEW p \in Parties, NEW s, NEW t, NEW N, NEW read, Reader(p, s, t, N, read),
           NEW m \in N, m.from = Other(p), MayDecrypt(p, s, m)
    PROVE  KeyFor(p, s, m) = m.key <=> m \notin read
<1>1. CASE Kept(s, m)
  BY <1>1, KeptUnread DEF KeyFor
<1> QED
  BY <1>1, ThreeTurns

-----------------------------------------------------------------------------
\* What the state after a message is.

WithoutKept(s, m, u) ==
    /\ IsState(u)
    /\ u.rk = s.rk /\ u.dhs = s.dhs /\ u.dhr = s.dhr /\ u.cks = s.cks /\ u.ckr = s.ckr
    /\ u.ns = s.ns /\ u.pn = s.pn /\ u.nr = s.nr
    /\ DOMAIN u.skipped = DOMAIN s.skipped \ {<<m.dh, m.n>>}
    /\ \A k \in DOMAIN u.skipped : u.skipped[k] = s.skipped[k]

LEMMA KeptState ==
    ASSUME NEW p, NEW s, IsState(s), NEW m, Kept(s, m)
    PROVE  WithoutKept(s, m, After(p, s, m))
<1> DEFINE u == After(p, s, m)
<1> DEFINE f == [k \in DOMAIN s.skipped \ {<<m.dh, m.n>>} |-> s.skipped[k]]
<1>1. u = [s EXCEPT !.skipped = f]
  BY DEF After
<1> HIDE DEF u
<1>2. DOMAIN f = DOMAIN s.skipped \ {<<m.dh, m.n>>} /\ \A k \in DOMAIN f : f[k] = s.skipped[k]
  OBVIOUS
<1> HIDE DEF f
<1>3. /\ IsState(u)
      /\ u.rk = s.rk /\ u.dhs = s.dhs /\ u.dhr = s.dhr /\ u.cks = s.cks /\ u.ckr = s.ckr
      /\ u.ns = s.ns /\ u.pn = s.pn /\ u.nr = s.nr /\ u.skipped = f
  BY <1>1 DEF IsState
<1> QED
  BY <1>2, <1>3 DEF WithoutKept, u

LEMMA SameTurnState ==
    ASSUME NEW p, NEW s, IsState(s), NEW m, ~Kept(s, m), m.dh = s.dhr,
           NEW u, u = After(p, s, m)
    PROVE  /\ IsState(u)
           /\ u.rk = s.rk /\ u.dhs = s.dhs /\ u.dhr = s.dhr /\ u.cks = s.cks /\ u.ckr = s.ckr
           /\ u.ns = s.ns /\ u.pn = s.pn /\ u.nr = m.n + 1
           /\ u.skipped = Keeping(s, Passed(m.dh, s, m.n))
<1> DEFINE f == Keeping(s, Passed(m.dh, s, m.n))
<1>1. u = [[s EXCEPT !.skipped = f, !.nr = m.n] EXCEPT !.nr = m.n + 1]
  BY DEF After, Turned, SkipTo
<1> HIDE DEF f
<1>2. IsState(u) /\ u.rk = s.rk /\ u.dhs = s.dhs /\ u.dhr = s.dhr /\ u.cks = s.cks
      /\ u.ckr = s.ckr /\ u.ns = s.ns /\ u.pn = s.pn /\ u.nr = m.n + 1 /\ u.skipped = f
  BY <1>1 DEF IsState
<1> QED
  BY <1>2 DEF f

\* What is left of the old chain.
Left(s, m) == IF s.ckr = NoKey THEN s.skipped ELSE Keeping(s, Passed(s.dhr, s, m.pn))

NewTurn(p, s, m, v) ==
    /\ IsState(v)
    /\ v.rk = Append(Append(s.rk, {<<p, s.dhs>>, m.dh}), {<<p, s.dhs + 1>>, m.dh})
    /\ v.ckr = Append(s.rk, {<<p, s.dhs>>, m.dh}) /\ v.cks = v.rk
    /\ v.dhs = s.dhs + 1 /\ v.dhr = m.dh
    /\ v.ns = 0 /\ v.nr = 0 /\ v.pn = s.ns /\ v.skipped = Left(s, m)

LEMMA TurnedState ==
    ASSUME NEW p, NEW s, IsState(s), NEW m, NEW v, v = NewKey(p, s, m)
    PROVE  NewTurn(p, s, m, v)
<1> DEFINE f == Keeping(s, Passed(s.dhr, s, m.pn))
           r == Append(s.rk, {<<p, s.dhs>>, m.dh})
           q == Append(r, {<<p, s.dhs + 1>>, m.dh})
           kept == IF s.ckr = NoKey THEN s ELSE [s EXCEPT !.skipped = f, !.nr = m.pn]
<1>1. v = [kept EXCEPT !.rk = q, !.dhs = s.dhs + 1, !.dhr = m.dh, !.cks = q, !.ckr = r,
                       !.ns = 0, !.nr = 0, !.pn = s.ns]
  BY DEF NewKey, SkipTo
<1> HIDE DEF f, r, q
<1>2. kept.skipped = (IF s.ckr = NoKey THEN s.skipped ELSE f) /\ IsState(kept)
  BY DEF IsState
<1> HIDE DEF kept
<1>3. /\ IsState(v) /\ v.rk = q /\ v.ckr = r /\ v.cks = q
      /\ v.dhs = s.dhs + 1 /\ v.dhr = m.dh
      /\ v.ns = 0 /\ v.nr = 0 /\ v.pn = s.ns /\ v.skipped = kept.skipped
  BY <1>1, <1>2 DEF IsState
<1> QED
  BY <1>2, <1>3 DEF NewTurn, Left, f, r, q

LEMMA NewTurnState ==
    ASSUME NEW p, NEW s, IsState(s), NEW m, ~Kept(s, m), m.dh # s.dhr,
           NEW v, v = NewKey(p, s, m), NEW u, u = After(p, s, m)
    PROVE  /\ IsState(u)
           /\ u.rk = v.rk /\ u.dhs = v.dhs /\ u.dhr = v.dhr /\ u.cks = v.cks /\ u.ckr = v.ckr
           /\ u.ns = v.ns /\ u.pn = v.pn /\ u.nr = m.n + 1
           /\ u.skipped = Keeping(v, Passed(m.dh, v, m.n))
<1> DEFINE f == Keeping(v, Passed(m.dh, v, m.n))
<1>1. u = [[v EXCEPT !.skipped = f, !.nr = m.n] EXCEPT !.nr = m.n + 1]
  BY DEF After, Turned, SkipTo
<1>2. IsState(v)
  BY TurnedState DEF NewTurn
<1> HIDE DEF f
<1>3. IsState(u) /\ u.rk = v.rk /\ u.dhs = v.dhs /\ u.dhr = v.dhr /\ u.cks = v.cks
      /\ u.ckr = v.ckr /\ u.ns = v.ns /\ u.pn = v.pn /\ u.nr = m.n + 1 /\ u.skipped = f
  BY <1>1, <1>2 DEF IsState
<1> QED
  BY <1>3 DEF f

\* Having read m, p is in state u.
Advances(p, s, t, N, read, m, u) ==
    /\ Reader(p, u, t, N, read \cup {m}) /\ TurnsFit(Other(p), t, u)
    /\ \A o : o.from = p /\ MessageFits(o, s) => MessageFits(o, u)

LEMMA ReadKept ==
    ASSUME NEW p \in Parties, NEW s, NEW t, NEW N, NEW read, Reader(p, s, t, N, read),
           TurnsFit(Other(p), t, s),
           NEW m \in N, m.from = Other(p), Kept(s, m),
           NEW u, u = After(p, s, m)
    PROVE  Advances(p, s, t, N, read, m, u)
<1>1. IsState(s) /\ s.dhs \in Nat /\ s.nr \in Nat
  BY DEF Reader, StateFits
<1>2. /\ IsState(u)
      /\ u.rk = s.rk /\ u.dhs = s.dhs /\ u.dhr = s.dhr /\ u.cks = s.cks /\ u.ckr = s.ckr
      /\ u.ns = s.ns /\ u.pn = s.pn /\ u.nr = s.nr
      /\ DOMAIN u.skipped = DOMAIN s.skipped \ {<<m.dh, m.n>>}
      /\ \A k \in DOMAIN u.skipped : u.skipped[k] = s.skipped[k]
  <2>1. WithoutKept(s, m, u)
    BY <1>1, KeptState
  <2> QED
    BY <2>1 DEF WithoutKept
<1>3. TurnAt(p, u) = TurnAt(p, s)
  BY <1>2 DEF TurnAt
<1>4. SkippedFits(p, TurnAt(p, s), s.nr, u.skipped)
  <2>1. SkippedFits(p, TurnAt(p, s), s.nr, s.skipped)
    BY DEF Reader, StateFits
  <2>2. IsFiniteSet(DOMAIN u.skipped) /\ Cardinality(DOMAIN u.skipped) <= MaxRetained
    <3>1. IsFiniteSet(DOMAIN s.skipped) /\ Cardinality(DOMAIN s.skipped) <= MaxRetained
      BY <2>1 DEF SkippedFits
    <3>2. IsFiniteSet(DOMAIN u.skipped)
          /\ Cardinality(DOMAIN u.skipped) <= Cardinality(DOMAIN s.skipped)
      BY <1>2, <3>1, FS_Subset
    <3>3. Cardinality(DOMAIN u.skipped) \in Nat /\ Cardinality(DOMAIN s.skipped) \in Nat
      BY <3>1, <3>2, FS_CardinalityType
    <3> QED
      BY <3>1, <3>2, <3>3, RatchetConstants
  <2> QED
    BY <1>2, <2>1, <2>2 DEF SkippedFits
<1>5. StateFits(p, u)
  BY <1>2, <1>3, <1>4 DEF Reader, StateFits
<1>6. TurnsFit(p, u, t) /\ TurnsFit(Other(p), t, u)
  BY <1>2, <1>3, TheOther DEF Reader, TurnsFit, TurnAt
<1>7. ReadFits(p, u, N, read \cup {m})
  <2> SUFFICES ASSUME NEW o \in N, o.from = Other(p)
               PROVE  /\ Behind(p, u, o) => (o \in read \cup {m} <=> ~Kept(u, o))
                      /\ ~Behind(p, u, o) => o \notin read \cup {m} /\ ~Kept(u, o)
    BY DEF ReadFits
  <2>1. Behind(p, u, o) <=> Behind(p, s, o)
    BY <1>2, <1>3 DEF Behind
  <2>2. Kept(u, o) <=> Kept(s, o) /\ <<o.dh, o.n>> # <<m.dh, m.n>>
    BY <1>2 DEF Kept
  <2>3. o = m <=> <<o.dh, o.n>> = <<m.dh, m.n>>
    BY OneMessage, SeenFrom
  <2>4. Behind(p, s, m)
    BY KeptUnread
  <2>5. /\ Behind(p, s, o) => (o \in read <=> ~Kept(s, o))
        /\ ~Behind(p, s, o) => o \notin read /\ ~Kept(s, o)
    BY DEF Reader, ReadFits
  <2> QED
    BY <2>1, <2>2, <2>3, <2>4, <2>5
<1>8. \A o : o.from = p /\ MessageFits(o, s) => MessageFits(o, u)
  BY <1>2 DEF MessageFits
<1> QED
  BY <1>5, <1>6, <1>7, <1>8 DEF Reader, Advances

LEMMA ReadSameTurn ==
    ASSUME NEW p \in Parties, NEW s, NEW t, NEW N, NEW read, Reader(p, s, t, N, read),
           TurnsFit(Other(p), t, s),
           NEW m \in N, m.from = Other(p), ~Kept(s, m), MayDecrypt(p, s, m),
           m.dh = s.dhr, m.n >= s.nr,
           NEW u, u = After(p, s, m)
    PROVE  Advances(p, s, t, N, read, m, u)
<1> DEFINE T == TurnAt(p, s)
           q == Other(p)
<1>1. IsState(s) /\ s.dhs \in Nat /\ s.nr \in Nat /\ s.ns \in Nat
  BY DEF Reader, StateFits
<1>2. /\ IsState(u)
      /\ u.rk = s.rk /\ u.dhs = s.dhs /\ u.dhr = s.dhr /\ u.cks = s.cks /\ u.ckr = s.ckr
      /\ u.ns = s.ns /\ u.pn = s.pn /\ u.nr = m.n + 1
      /\ u.skipped = Keeping(s, Passed(m.dh, s, m.n))
  BY <1>1, SameTurnState
<1>3. TurnAt(p, u) = T
  BY <1>2 DEF TurnAt
<1>4. PICK j \in Nat, n \in Nat : /\ j = m.dh[2] /\ n = m.n /\ m.dh = <<q, j>>
                                  /\ TurnOf(m) = Turn(q, j) /\ TurnOf(m) = T - 1
                                  /\ s.ckr = RootOf(T - 1) /\ T \in Nat
  BY SeenFrom
<1> HIDE DEF T
<1>5. MaySkip(s, <<q, j>>, n)
  <2>1. Turned(p, s, m) = s
    BY DEF Turned
  <2> QED
    BY <1>4, <2>1 DEF MayDecrypt
<1>6. /\ SkippedFits(p, T, n, u.skipped)
      /\ \A k, i \in Nat :
            <<<<q, k>>, i>> \in DOMAIN u.skipped <=>
                \/ <<<<q, k>>, i>> \in DOMAIN s.skipped
                \/ k = j /\ i \in s.nr .. n - 1
  <2>1. SkippedFits(p, T, s.nr, s.skipped)
    BY DEF Reader, StateFits, T
  <2>2. u.skipped = Keeping(s, Passed(<<q, j>>, s, n))
    BY <1>2, <1>4
  <2>3. n >= s.nr /\ Turn(q, j) = T - 1
    BY <1>4
  <2> QED
    BY <1>1, <1>4, <1>5, <2>1, <2>2, <2>3, KeepingFits
<1>7. SkippedFits(p, T, n + 1, u.skipped)
  BY <1>6 DEF SkippedFits
<1>8. StateFits(p, u)
  BY <1>2, <1>3, <1>4, <1>7 DEF Reader, StateFits, T
<1>9. MessageFits(m, t) /\ t.dhs \in Nat /\ t.ns \in Nat /\ q \in Parties
  BY TheOther DEF Reader, StateFits
<1>10. TurnAt(q, t) = T - 1 => n + 1 <= t.ns
  <2> SUFFICES ASSUME TurnAt(q, t) = T - 1 PROVE n + 1 <= t.ns
    OBVIOUS
  <2>1. j = t.dhs
    BY <1>4, <1>9, TurnsName DEF TurnAt
  <2> QED
    BY <1>4, <1>9, <2>1 DEF MessageFits
<1>11. TurnsFit(p, u, t) /\ TurnsFit(q, t, u)
  BY <1>2, <1>3, <1>4, <1>10, TheOther DEF Reader, TurnsFit, TurnAt, T
<1>12. ReadFits(p, u, N, read \cup {m})
  <2> SUFFICES ASSUME NEW o \in N, o.from = q
               PROVE  /\ Behind(p, u, o) => (o \in read \cup {m} <=> ~Kept(u, o))
                      /\ ~Behind(p, u, o) => o \notin read \cup {m} /\ ~Kept(u, o)
    BY DEF ReadFits
  <2>1. PICK k \in Nat, i \in Nat : k = o.dh[2] /\ i = o.n /\ o.dh = <<q, k>> /\ TurnOf(o) = Turn(q, k)
    BY SeenFrom
  <2>2. k = j <=> TurnOf(o) = T - 1
    BY <1>4, <1>9, <2>1, TurnsName
  <2>3. TurnOf(o) \in Nat
    BY SeenFrom
  <2>4. o = m <=> k = j /\ i = n
    BY <1>4, <2>1, OneMessage
  <2>5. /\ Behind(p, s, o) => (o \in read <=> ~Kept(s, o))
        /\ ~Behind(p, s, o) => o \notin read /\ ~Kept(s, o)
    BY DEF Reader, ReadFits
  <2>6. Kept(u, o) <=> Kept(s, o) \/ (k = j /\ i \in s.nr .. n - 1)
    BY <1>6, <2>1 DEF Kept
  <2>7. Behind(p, s, o) <=> TurnOf(o) < T - 1 \/ (TurnOf(o) = T - 1 /\ i < s.nr)
    BY <2>1 DEF Behind, T
  <2>8. Behind(p, u, o) <=> TurnOf(o) < T - 1 \/ (TurnOf(o) = T - 1 /\ i < n + 1)
    BY <1>2, <1>3, <1>4, <2>1 DEF Behind
  <2>9. n >= s.nr
    BY <1>4
  <2>10. CASE k = j
    <3>1. TurnOf(o) = T - 1 /\ (o = m <=> i = n)
      BY <2>2, <2>4, <2>10
    <3>2. CASE i < s.nr
      BY <1>1, <2>3, <2>5, <2>6, <2>7, <2>8, <2>9, <2>10, <3>1, <3>2
    <3>3. CASE i >= s.nr /\ i < n
      BY <1>1, <2>3, <2>5, <2>6, <2>7, <2>8, <2>9, <2>10, <3>1, <3>3
    <3>4. CASE i = n
      BY <1>1, <2>3, <2>5, <2>6, <2>7, <2>8, <2>9, <2>10, <3>1, <3>4
    <3>5. CASE i > n
      BY <1>1, <2>3, <2>5, <2>6, <2>7, <2>8, <2>9, <2>10, <3>1, <3>5
    <3> QED
      BY <1>1, <3>2, <3>3, <3>4, <3>5
  <2>11. CASE k # j
    BY <2>2, <2>4, <2>5, <2>6, <2>7, <2>8, <2>11
  <2> QED
    BY <2>10, <2>11
<1>13. \A o : o.from = p /\ MessageFits(o, s) => MessageFits(o, u)
  BY <1>2 DEF MessageFits
<1> QED
  BY <1>8, <1>11, <1>12, <1>13 DEF Reader, Advances

\* The first message of a turn: the old chain is left with its remaining keys
\* kept, and the turn after it begins.
LEMMA OldChainFits ==
    ASSUME NEW p \in Parties, NEW s, NEW t, NEW N, NEW read, Reader(p, s, t, N, read),
           NEW m \in N, m.from = Other(p), m.dh # s.dhr, MayTurn(s, m)
    PROVE  /\ SkippedFits(p, TurnAt(p, s) + 2, 0, Left(s, m))
           /\ \A k, i \in Nat :
                 <<<<Other(p), k>>, i>> \in DOMAIN Left(s, m) <=>
                     \/ <<<<Other(p), k>>, i>> \in DOMAIN s.skipped
                     \/ /\ s.dhs # 0 /\ <<Other(p), k>> = s.dhr
                        /\ i \in s.nr .. m.pn - 1
<1>1. /\ SkippedFits(p, TurnAt(p, s), s.nr, s.skipped) /\ s.dhs \in Nat /\ s.nr \in Nat
      /\ s.dhr = KeyBefore(p, s.dhs)
      /\ s.ckr = IF s.dhs = 0 THEN NoKey ELSE RootOf(TurnAt(p, s) - 1)
  BY DEF Reader, StateFits
<1>2. TurnAt(p, s) \in Nat /\ TurnAt(p, s) + 2 \in Nat /\ TurnAt(p, s) < TurnAt(p, s) + 2
  BY <1>1, TurnFacts DEF TurnAt
<1>3. CASE s.dhs = 0
  <2>1. Left(s, m) = s.skipped
    BY <1>1, <1>3 DEF Left
  <2>2. SkippedFits(p, TurnAt(p, s) + 2, 0, s.skipped)
    BY <1>1, <1>2, LaterTurn
  <2> QED
    BY <1>3, <2>1, <2>2
<1>4. CASE s.dhs # 0
  <2>1. PICK i \in Nat : i = s.dhs /\ i # 0
    BY <1>1, <1>4
  <2>2. \E j \in Nat : KeyBefore(p, i) = <<Other(p), j>>
    <3>1. CASE p = Alice
      BY <3>1 DEF KeyBefore, Other
    <3>2. CASE p # Alice
      <4>1. i - 1 \in Nat /\ Other(p) = Alice
        BY <2>1, <3>2 DEF Other
      <4> QED
        BY <2>1, <3>2, <4>1 DEF KeyBefore
    <3> QED
      BY <3>1, <3>2
  <2>3. PICK j \in Nat : KeyBefore(p, i) = <<Other(p), j>>
    BY <2>2
  <2>4. Turn(Other(p), j) = Turn(p, i) - 1 /\ Turn(p, i) - 1 \in Nat
    BY <2>1, <2>3, BeforeFacts
  <2>5. TurnAt(p, s) = Turn(p, i) /\ s.dhr = <<Other(p), j>> /\ s.ckr = RootOf(TurnAt(p, s) - 1)
        /\ s.ckr # NoKey
    BY <1>1, <1>4, <2>1, <2>3, <2>4, RootFacts DEF TurnAt
  <2>6. PICK n \in Nat : n = m.pn
    BY SeenFrom
  <2>7. n >= s.nr /\ MaySkip(s, <<Other(p), j>>, n)
    BY <2>5, <2>6 DEF MayTurn
  <2>8. LET g == Keeping(s, Passed(<<Other(p), j>>, s, n)) IN
        /\ SkippedFits(p, TurnAt(p, s), n, g)
        /\ \A k, l \in Nat :
              <<<<Other(p), k>>, l>> \in DOMAIN g <=>
                  \/ <<<<Other(p), k>>, l>> \in DOMAIN s.skipped
                  \/ k = j /\ l \in s.nr .. n - 1
    BY <1>1, <1>2, <2>4, <2>5, <2>7, KeepingFits
  <2>9. Left(s, m) = Keeping(s, Passed(<<Other(p), j>>, s, n))
    BY <2>5, <2>6 DEF Left
  <2>10. SkippedFits(p, TurnAt(p, s) + 2, 0, Left(s, m))
    BY <1>2, <2>8, <2>9, LaterTurn
  <2>11. \A k \in Nat : k = j <=> <<Other(p), k>> = s.dhr
    BY <2>5
  <2> QED
    BY <1>4, <2>6, <2>8, <2>9, <2>10, <2>11
<1> QED
  BY <1>3, <1>4

LEMMA ReadNewTurn ==
    ASSUME NEW p \in Parties, NEW s, NEW t, NEW N, NEW read, Reader(p, s, t, N, read),
           TurnsFit(Other(p), t, s),
           NEW m \in N, m.from = Other(p), ~Kept(s, m), MayDecrypt(p, s, m),
           m.dh # s.dhr, TurnOf(m) = TurnAt(p, s) + 1,
           NEW u, u = After(p, s, m)
    PROVE  Advances(p, s, t, N, read, m, u)
<1> DEFINE T == TurnAt(p, s)
           q == Other(p)
<1>0. PICK v : v = NewKey(p, s, m)
  OBVIOUS
<1>1. IsState(s) /\ s.dhs \in Nat /\ s.nr \in Nat /\ s.ns \in Nat /\ s.rk = RootOf(T)
  BY DEF Reader, StateFits
<1>2. /\ v.rk = Append(Append(s.rk, {<<p, s.dhs>>, m.dh}), {<<p, s.dhs + 1>>, m.dh})
      /\ v.ckr = Append(s.rk, {<<p, s.dhs>>, m.dh}) /\ v.cks = v.rk
      /\ v.dhs = s.dhs + 1 /\ v.dhr = m.dh
      /\ v.ns = 0 /\ v.nr = 0 /\ v.pn = s.ns /\ v.skipped = Left(s, m)
  <2>1. NewTurn(p, s, m, v)
    BY <1>0, <1>1, TurnedState
  <2> QED
    BY <2>1 DEF NewTurn
<1>3. /\ IsState(u)
      /\ u.rk = v.rk /\ u.dhs = v.dhs /\ u.dhr = v.dhr /\ u.cks = v.cks /\ u.ckr = v.ckr
      /\ u.ns = v.ns /\ u.pn = v.pn /\ u.nr = m.n + 1
      /\ u.skipped = Keeping(v, Passed(m.dh, v, m.n))
  BY <1>0, <1>1, NewTurnState
<1>4. PICK j \in Nat, n \in Nat, i \in Nat :
         /\ j = m.dh[2] /\ n = m.n /\ m.dh = <<q, j>> /\ i = s.dhs
         /\ TurnOf(m) = Turn(q, j) /\ Turn(q, j) = T + 1 /\ T \in Nat /\ m.pn \in Nat
  BY <1>1, SeenFrom
<1>5. T = Turn(p, i) /\ TurnAt(p, u) = T + 2
  <2>1. Turn(p, i + 1) = Turn(p, i) + 2
    BY TurnFacts
  <2> QED
    BY <1>2, <1>3, <1>4, <2>1 DEF TurnAt
<1>6. MayTurn(s, m) /\ MaySkip(v, <<q, j>>, n)
  <2>1. Turned(p, s, m) = v
    BY <1>0 DEF Turned
  <2> QED
    BY <1>4, <2>1 DEF MayDecrypt
<1> HIDE DEF T
<1>7. v.ckr = RootOf(T + 1) /\ v.rk = RootOf(T + 2)
  <2>1. /\ {<<p, i>>, <<q, j>>} = Secret(Turn(p, i) + 1)
        /\ {<<p, i + 1>>, <<q, j>>} = Secret(Turn(p, i) + 2)
    BY <1>4, <1>5, SecretFacts
  <2>2. v.ckr = Append(RootOf(T), Secret(T + 1))
    BY <1>1, <1>2, <1>4, <1>5, <2>1
  <2>3. v.rk = Append(Append(RootOf(T), Secret(T + 1)), Secret(T + 2))
    BY <1>1, <1>2, <1>4, <1>5, <2>1
  <2>4. Append(RootOf(T), Secret(T + 1)) = RootOf(T + 1)
    BY <1>4, RootGrows
  <2>5. PICK k \in Nat : k = T + 1
    BY <1>4
  <2>6. k + 1 = T + 2
    BY <1>4, <2>5
  <2>7. Append(RootOf(k), Secret(k + 1)) = RootOf(k + 1)
    BY RootGrows
  <2>8. Append(RootOf(T + 1), Secret(T + 2)) = RootOf(T + 2)
    BY <2>5, <2>6, <2>7
  <2> QED
    BY <2>2, <2>3, <2>4, <2>8
<1>8. /\ SkippedFits(p, T + 2, 0, Left(s, m))
      /\ \A k, l \in Nat :
            <<<<q, k>>, l>> \in DOMAIN Left(s, m) <=>
                \/ <<<<q, k>>, l>> \in DOMAIN s.skipped
                \/ s.dhs # 0 /\ <<q, k>> = s.dhr /\ l \in s.nr .. m.pn - 1
  BY <1>6, OldChainFits DEF T
<1>9. /\ SkippedFits(p, T + 2, n, u.skipped)
      /\ \A k, l \in Nat :
            <<<<q, k>>, l>> \in DOMAIN u.skipped <=>
                \/ <<<<q, k>>, l>> \in DOMAIN Left(s, m)
                \/ k = j /\ l \in 0 .. n - 1
  <2>1. PICK W \in Nat : W = T + 2
    BY <1>4
  <2>2. SkippedFits(p, W, v.nr, v.skipped) /\ v.nr \in Nat /\ n >= v.nr
    BY <1>2, <1>8, <2>1
  <2>3. Turn(q, j) = W - 1 /\ v.ckr = RootOf(W - 1)
    BY <1>4, <1>7, <2>1
  <2>4. LET g == Keeping(v, Passed(<<q, j>>, v, n)) IN
        /\ SkippedFits(p, W, n, g)
        /\ \A k, l \in Nat :
              <<<<q, k>>, l>> \in DOMAIN g <=>
                  \/ <<<<q, k>>, l>> \in DOMAIN v.skipped
                  \/ k = j /\ l \in v.nr .. n - 1
    BY <1>6, <2>2, <2>3, KeepingFits
  <2>5. u.skipped = Keeping(v, Passed(<<q, j>>, v, n))
    BY <1>3, <1>4
  <2> QED
    BY <1>2, <2>1, <2>4, <2>5
<1>10. SkippedFits(p, T + 2, n + 1, u.skipped)
  BY <1>9 DEF SkippedFits
<1>11. StateFits(p, u)
  <2>1. KeyBefore(p, i + 1) = <<q, j>>
    BY <1>4, <1>5, BeforeFacts
  <2>2. u.dhs = i + 1 /\ u.dhs # 0 /\ T + 2 # 0 /\ T + 2 - 1 = T + 1
    BY <1>2, <1>3, <1>4
  <2>a. TurnAt(p, u) - 1 = T + 1
    BY <1>4, <1>5
  <2>b. u.rk = v.rk /\ u.cks = v.rk /\ u.ckr = v.ckr
    BY <1>2, <1>3
  <2>3. u.rk = RootOf(TurnAt(p, u)) /\ u.cks = u.rk /\ u.ckr = RootOf(TurnAt(p, u) - 1)
    BY <1>5, <1>7, <2>a, <2>b
  <2>4. u.dhr = KeyBefore(p, u.dhs)
    BY <1>2, <1>3, <1>4, <2>1, <2>2
  <2>c. u.ns = 0 /\ u.pn = s.ns /\ u.nr = m.n + 1
    BY <1>2, <1>3
  <2>5. u.dhs \in Nat /\ u.ns \in Nat /\ u.nr \in Nat /\ u.pn \in Nat /\ u.nr = n + 1
    BY <1>1, <1>4, <2>2, <2>c
  <2> QED
    BY <1>3, <1>4, <1>5, <1>10, <2>2, <2>3, <2>4, <2>5 DEF StateFits
<1>12. MessageFits(m, t) /\ t.dhs \in Nat /\ t.ns \in Nat /\ q \in Parties
  BY TheOther DEF Reader, StateFits
<1>13. TurnAt(q, t) = T + 1 /\ n + 1 <= t.ns
  <2>1. PICK k \in Nat : k = t.dhs
    BY <1>12
  <2>2. j <= k
    BY <1>4, <1>12, <2>1 DEF MessageFits
  <2>3. Turn(q, k) \in Nat /\ (j < k => Turn(q, j) < Turn(q, k))
    BY <1>12, TurnFacts
  <2>4. TurnAt(q, t) = Turn(q, k) /\ (T - 1 = Turn(q, k) \/ T + 1 = Turn(q, k))
    BY <2>1 DEF Reader, TurnsFit, TurnAt, T
  <2>5. j = k
    BY <1>4, <2>2, <2>3, <2>4
  <2> QED
    BY <1>4, <1>12, <2>1, <2>4, <2>5 DEF MessageFits
<1>14. TurnsFit(p, u, t) /\ TurnsFit(q, t, u)
  BY <1>3, <1>4, <1>5, <1>13, TheOther DEF TurnsFit
<1>15. ReadFits(p, u, N, read \cup {m})
  <2> SUFFICES ASSUME NEW o \in N, o.from = q
               PROVE  /\ Behind(p, u, o) => (o \in read \cup {m} <=> ~Kept(u, o))
                      /\ ~Behind(p, u, o) => o \notin read \cup {m} /\ ~Kept(u, o)
    BY DEF ReadFits
  <2>1. PICK k \in Nat, l \in Nat :
           /\ k = o.dh[2] /\ l = o.n /\ o.dh = <<q, k>> /\ TurnOf(o) = Turn(q, k)
           /\ TurnOf(o) \in Nat
           /\ o.dh = s.dhr <=> TurnOf(o) = T - 1
           /\ TurnOf(o) # T /\ TurnOf(o) <= T + 1
           /\ TurnOf(o) = T - 1 => s.dhs # 0
    BY SeenFrom DEF T
  <2>2. k = j <=> TurnOf(o) = T + 1
    BY <1>4, <1>12, <2>1, TurnsName
  <2>3. o = m <=> k = j /\ l = n
    BY <1>4, <2>1, OneMessage
  <2>4. /\ Behind(p, s, o) => (o \in read <=> ~Kept(s, o))
        /\ ~Behind(p, s, o) => o \notin read /\ ~Kept(s, o)
    BY DEF Reader, ReadFits
  <2>5. Kept(u, o) <=> \/ Kept(s, o)
                       \/ TurnOf(o) = T - 1 /\ l \in s.nr .. m.pn - 1
                       \/ k = j /\ l \in 0 .. n - 1
    BY <1>8, <1>9, <2>1 DEF Kept
  <2>6. Behind(p, s, o) <=> TurnOf(o) < T - 1 \/ (TurnOf(o) = T - 1 /\ l < s.nr)
    BY <2>1 DEF Behind, T
  <2>7. Behind(p, u, o) <=> TurnOf(o) < T + 1 \/ (TurnOf(o) = T + 1 /\ l < n + 1)
    BY <1>3, <1>4, <1>5, <2>1 DEF Behind
  <2>8. TurnOf(o) = T - 1 => l < m.pn
    <3> SUFFICES ASSUME TurnOf(o) = T - 1 PROVE l < m.pn
      OBVIOUS
    <3>1. Turn(q, k + 1) = Turn(q, k) + 2
      BY <1>12, TurnFacts
    <3>2. PICK k1 \in Nat : k1 = k + 1
      OBVIOUS
    <3>3. k1 = j
      BY <1>4, <1>12, <2>1, <3>1, <3>2, TurnsName
    <3>4. o.dh[2] + 1 = m.dh[2]
      BY <1>4, <2>1, <3>2, <3>3
    <3> QED
      BY <2>1, <3>4 DEF Reader, PairsFit
  <2>9. CASE TurnOf(o) < T - 1
    BY <1>4, <2>1, <2>2, <2>3, <2>4, <2>5, <2>6, <2>7, <2>9
  <2>10. CASE TurnOf(o) = T - 1
    <3>1. k # j /\ o # m
      BY <1>4, <2>2, <2>3, <2>10
    <3>2. CASE l < s.nr
      BY <1>1, <1>4, <2>1, <2>4, <2>5, <2>6, <2>7, <2>10, <3>1, <3>2
    <3>3. CASE l >= s.nr
      BY <1>1, <1>4, <2>1, <2>4, <2>5, <2>6, <2>7, <2>8, <2>10, <3>1, <3>3
    <3> QED
      BY <1>1, <3>2, <3>3
  <2>11. CASE TurnOf(o) = T + 1
    <3>1. k = j /\ (o = m <=> l = n) /\ ~Behind(p, s, o)
      BY <1>4, <2>1, <2>2, <2>3, <2>6, <2>11
    <3>2. Kept(u, o) <=> l < n
      BY <1>4, <2>1, <2>4, <2>5, <2>11, <3>1
    <3> QED
      BY <1>4, <2>1, <2>4, <2>7, <2>11, <3>1, <3>2
  <2> QED
    BY <1>4, <2>1, <2>9, <2>10, <2>11
<1>16. \A o : o.from = p /\ MessageFits(o, s) => MessageFits(o, u)
  <2>1. u.dhs = s.dhs + 1 /\ u.pn = s.ns
    BY <1>2, <1>3
  <2> QED
    BY <1>1, <2>1 DEF MessageFits
<1> QED
  BY <1>11, <1>14, <1>15, <1>16 DEF Reader, Advances

LEMMA Reading ==
    ASSUME NEW p \in Parties, NEW s, NEW t, NEW N, NEW read, Reader(p, s, t, N, read),
           TurnsFit(Other(p), t, s),
           NEW m \in N, m.from = Other(p), MayDecrypt(p, s, m), KeyFor(p, s, m) = m.key
    PROVE  Advances(p, s, t, N, read, m, After(p, s, m))
<1>1. CASE Kept(s, m)
  BY <1>1, ReadKept
<1>2. CASE ~Kept(s, m) /\ m.dh = s.dhr /\ m.n >= s.nr
  BY <1>2, ReadSameTurn
<1>3. CASE ~Kept(s, m) /\ m.dh # s.dhr /\ TurnOf(m) = TurnAt(p, s) + 1
  BY <1>3, ReadNewTurn
<1> QED
  BY <1>1, <1>2, <1>3, ThreeTurns

-----------------------------------------------------------------------------
\* The invariant.

PartyFits(p, h, N, r, read) ==
    /\ Reader(p, h[p], h[Other(p)], N, ReadBefore(r, read))
    /\ RecvFits(p, h[p], N, r, read) /\ read \subseteq N

LEMMA InvFacts ==
    RatchetInv <=>
        /\ DOMAIN head = Parties /\ DOMAIN recv = Parties /\ DOMAIN ledger = Parties
        /\ \A m \in net : m.from \in Parties
        /\ \A p \in Parties : PartyFits(p, head, net, recv[p], ledger[p])
BY DEF RatchetInv, PartyFits

LEMMA StartsFit ==
    ASSUME NEW p \in Parties, NEW s,
           s = [rk |-> IF p = Alice THEN <<{<<Alice, 0>>, <<Bob, 0>>}>> ELSE <<>>,
                dhs |-> 0,
                dhr |-> IF p = Alice THEN <<Bob, 0>> ELSE NoKey,
                cks |-> IF p = Alice THEN <<{<<Alice, 0>>, <<Bob, 0>>}>> ELSE NoKey,
                ckr |-> NoKey,
                ns |-> 0, nr |-> 0, pn |-> 0, skipped |-> <<>>]
    PROVE  StateFits(p, s) /\ TurnAt(p, s) = IF p = Alice THEN 1 ELSE 0
<1>1. IsState(s) /\ s.dhs = 0 /\ s.ns = 0 /\ s.nr = 0 /\ s.pn = 0 /\ s.ckr = NoKey
  BY DEF IsState
<1>2. TurnAt(p, s) = IF p = Alice THEN 1 ELSE 0
  BY <1>1 DEF TurnAt, Turn
<1>3. RootOf(0) = <<>>
  BY DEF RootOf
<1>4. RootOf(1) = <<{<<Alice, 0>>, <<Bob, 0>>}>>
  <2>1. (1 - 1) \div 2 = 0 /\ 1 \div 2 = 0
    OBVIOUS
  <2>2. Secret(1) = {<<Alice, 0>>, <<Bob, 0>>}
    BY <2>1 DEF Secret
  <2>3. RootOf(1) = [i \in 1 .. 1 |-> Secret(i)]
    BY DEF RootOf
  <2>4. \A i \in 1 .. 1 : Secret(i) = Secret(1)
    OBVIOUS
  <2>5. RootOf(1) = [i \in 1 .. 1 |-> Secret(1)]
    BY <2>3, <2>4
  <2> QED
    BY <2>2, <2>5
<1>5. s.rk = RootOf(TurnAt(p, s)) /\ s.cks = IF TurnAt(p, s) = 0 THEN NoKey ELSE s.rk
  <2>1. CASE p = Alice
    <3>1. s.rk = RootOf(1) /\ s.cks = RootOf(1) /\ TurnAt(p, s) = 1
      BY <1>2, <1>4, <2>1
    <3>2. TurnAt(p, s) # 0 /\ RootOf(TurnAt(p, s)) = RootOf(1)
      BY <3>1
    <3> QED
      BY <3>1, <3>2
  <2>2. CASE p # Alice
    <3>1. s.rk = RootOf(0) /\ s.cks = NoKey /\ TurnAt(p, s) = 0
      BY <1>2, <1>3, <2>2
    <3>2. RootOf(TurnAt(p, s)) = RootOf(0)
      BY <3>1
    <3> QED
      BY <3>1, <3>2
  <2> QED
    BY <2>1, <2>2
<1>6. s.dhr = KeyBefore(p, 0)
  BY DEF KeyBefore
<1>7. SkippedFits(p, TurnAt(p, s), s.nr, s.skipped)
  <2>1. DOMAIN s.skipped = {}
    OBVIOUS
  <2> QED
    BY <2>1, FS_EmptySet, RatchetConstants DEF SkippedFits
<1> QED
  BY <1>1, <1>2, <1>5, <1>6, <1>7 DEF StateFits

LEMMA InitFits ==
    ASSUME RatchetInit
    PROVE  RatchetInv
<1>1. DOMAIN head = Parties /\ DOMAIN recv = Parties /\ DOMAIN ledger = Parties /\ net = {}
  BY DEF RatchetInit
<1>2. ASSUME NEW p \in Parties
      PROVE  PartyFits(p, head, net, recv[p], ledger[p])
  <2>1. recv[p] = IdleRecv /\ ledger[p] = {}
    BY DEF RatchetInit
  <2>2. \A q \in Parties : /\ StateFits(q, head[q])
                           /\ TurnAt(q, head[q]) = IF q = Alice THEN 1 ELSE 0
                           /\ head[q].nr = 0 /\ head[q].ns = 0
    <3> SUFFICES ASSUME NEW q \in Parties
                 PROVE  /\ StateFits(q, head[q])
                        /\ TurnAt(q, head[q]) = IF q = Alice THEN 1 ELSE 0
                        /\ head[q].nr = 0 /\ head[q].ns = 0
      OBVIOUS
    <3>1. head[q] =
               [rk |-> IF q = Alice THEN <<{<<Alice, 0>>, <<Bob, 0>>}>> ELSE <<>>,
                dhs |-> 0,
                dhr |-> IF q = Alice THEN <<Bob, 0>> ELSE NoKey,
                cks |-> IF q = Alice THEN <<{<<Alice, 0>>, <<Bob, 0>>}>> ELSE NoKey,
                ckr |-> NoKey,
                ns |-> 0, nr |-> 0, pn |-> 0, skipped |-> <<>>]
      BY DEF RatchetInit
    <3> QED
      BY <3>1, StartsFit
  <2>3. TurnsFit(p, head[p], head[Other(p)])
    BY <2>2, TheOther, RatchetConstants DEF TurnsFit, Parties, Other
  <2>4. Reader(p, head[p], head[Other(p)], net, ReadBefore(recv[p], ledger[p]))
    BY <1>1, <2>2, <2>3, TheOther DEF Reader, PairsFit, ReadFits
  <2>5. RecvFits(p, head[p], net, recv[p], ledger[p])
    BY <2>1 DEF RecvFits, IdleRecv
  <2> QED
    BY <1>1, <2>1, <2>4, <2>5 DEF PartyFits
<1> QED
  BY <1>1, <1>2, InvFacts

\* A step of p's receive pipeline.
LEMMA ReceiverStep ==
    ASSUME RatchetInv, NEW p \in Parties, NEW r, NEW read,
           recv' = [recv EXCEPT ![p] = r], DOMAIN ledger' = Parties, ledger'[p] = read,
           \A q \in Parties \ {p} : ledger'[q] = ledger[q],
           ReadBefore(r, read) = ReadBefore(recv[p], ledger[p]),
           RecvFits(p, head[p], net, r, read), read \subseteq net,
           UNCHANGED <<head, net>>
    PROVE  RatchetInv'
<1>1. /\ DOMAIN recv' = Parties /\ recv'[p] = r
      /\ \A q \in Parties \ {p} : recv'[q] = recv[q]
  BY DEF RatchetInv
<1>2. head' = head /\ net' = net
  OBVIOUS
<1>3. \A q \in Parties : PartyFits(q, head, net, recv[q], ledger[q])
  BY InvFacts
<1>4. ASSUME NEW q \in Parties
      PROVE  PartyFits(q, head', net', recv'[q], ledger'[q])
  <2>1. CASE q = p
    <3>1. PartyFits(p, head, net, r, read)
      BY <1>3 DEF PartyFits
    <3> QED
      BY <1>1, <1>2, <2>1, <3>1
  <2>2. CASE q # p
    BY <1>1, <1>2, <1>3, <2>2
  <2> QED
    BY <2>1, <2>2
<1> QED
  BY <1>1, <1>2, <1>4, TheOther DEF RatchetInv, PartyFits

LEMMA DeriveFits ==
    ASSUME RatchetInv, NEW p \in Parties, NEW m \in net, Derive(p, m)
    PROVE  RatchetInv'
<1> DEFINE r == [state |-> "derived", msg |-> m, key |-> KeyFor(p, head[p], m),
                 next |-> After(p, head[p], m)]
<1>1. recv[p] = IdleRecv /\ m.from = Other(p) /\ MayDecrypt(p, head[p], m)
      /\ recv' = [recv EXCEPT ![p] = r] /\ UNCHANGED <<head, net, ledger>>
  BY DEF Derive
<1>2. r.state = "derived" /\ IdleRecv.state = "idle"
  BY DEF IdleRecv
<1>3. RecvFits(p, head[p], net, r, ledger[p])
  BY <1>1 DEF RecvFits
<1>4. ReadBefore(r, ledger[p]) = ReadBefore(recv[p], ledger[p])
  BY <1>1, <1>2 DEF ReadBefore
<1>5. ledger[p] \subseteq net /\ DOMAIN ledger' = Parties
  BY <1>1 DEF RatchetInv
<1> HIDE DEF r
<1> QED
  BY <1>1, <1>3, <1>4, <1>5, ReceiverStep

LEMMA OpenFits ==
    ASSUME RatchetInv, NEW p \in Parties, Open(p)
    PROVE  RatchetInv'
<1> DEFINE r == IF recv[p].key = recv[p].msg.key
                THEN [recv[p] EXCEPT !.state = "pending"] ELSE IdleRecv
<1>1. recv[p].state = "derived" /\ recv' = [recv EXCEPT ![p] = r]
      /\ UNCHANGED <<head, net, ledger>>
  BY DEF Open
<1>2. RecvFits(p, head[p], net, recv[p], ledger[p]) /\ ledger[p] \subseteq net
      /\ DOMAIN ledger' = Parties
  BY <1>1 DEF RatchetInv
<1>3. r.state # "sql_committed"
  <2>1. recv[p] = [state |-> recv[p].state, msg |-> recv[p].msg, key |-> recv[p].key,
                   next |-> recv[p].next]
    BY <1>1, <1>2 DEF RecvFits
  <2> QED
    BY <2>1 DEF IdleRecv
<1>4. RecvFits(p, head[p], net, r, ledger[p])
  <2>1. CASE recv[p].key = recv[p].msg.key
    <3>1. recv[p] = [state |-> recv[p].state, msg |-> recv[p].msg, key |-> recv[p].key,
                     next |-> recv[p].next]
      BY <1>1, <1>2 DEF RecvFits
    <3>2. r = [state |-> "pending", msg |-> recv[p].msg, key |-> recv[p].key,
               next |-> recv[p].next]
      BY <2>1, <3>1
    <3> HIDE DEF r
    <3> QED
      BY <1>1, <1>2, <2>1, <3>2 DEF RecvFits
  <2>2. CASE recv[p].key # recv[p].msg.key
    <3>1. r = IdleRecv
      BY <2>2
    <3> HIDE DEF r
    <3> QED
      BY <3>1 DEF RecvFits, IdleRecv
  <2> QED
    BY <2>1, <2>2
<1>5. ReadBefore(r, ledger[p]) = ReadBefore(recv[p], ledger[p])
  BY <1>1, <1>3 DEF ReadBefore
<1> HIDE DEF r
<1> QED
  BY <1>1, <1>2, <1>4, <1>5, ReceiverStep

LEMMA CommitFits ==
    ASSUME RatchetInv, NEW p \in Parties, Commit(p)
    PROVE  RatchetInv'
<1> DEFINE r == [recv[p] EXCEPT !.state = "sql_committed"]
           m == recv[p].msg
<1>1. recv[p].state = "pending" /\ recv' = [recv EXCEPT ![p] = r]
      /\ ledger' = [ledger EXCEPT ![p] = @ \cup {m}] /\ UNCHANGED <<head, net>>
  BY DEF Commit
<1>2. /\ Reader(p, head[p], head[Other(p)], net, ReadBefore(recv[p], ledger[p]))
      /\ RecvFits(p, head[p], net, recv[p], ledger[p]) /\ ledger[p] \subseteq net
      /\ DOMAIN ledger = Parties
  BY DEF RatchetInv
<1>3. /\ recv[p] = [state |-> "pending", msg |-> m, key |-> recv[p].key,
                    next |-> recv[p].next]
      /\ m \in net /\ m.from = Other(p) /\ MayDecrypt(p, head[p], m)
      /\ recv[p].key = KeyFor(p, head[p], m) /\ recv[p].next = After(p, head[p], m)
      /\ recv[p].key = m.key
  BY <1>1, <1>2 DEF RecvFits
<1>4. ReadBefore(recv[p], ledger[p]) = ledger[p]
  BY <1>1 DEF ReadBefore
<1>5. m \notin ledger[p]
  <2>1. Reader(p, head[p], head[Other(p)], net, ledger[p])
    BY <1>2, <1>4
  <2>2. KeyFor(p, head[p], m) = m.key
    BY <1>3
  <2> HIDE DEF m
  <2> QED
    BY <1>3, <2>1, <2>2, OpensUnread
<1>6. r = [state |-> "sql_committed", msg |-> m, key |-> recv[p].key, next |-> recv[p].next]
  BY <1>3
<1>7. r.state = "sql_committed" /\ r.msg = m
  BY <1>6
<1>8. ReadBefore(r, ledger[p] \cup {m}) = ledger[p]
  BY <1>5, <1>7 DEF ReadBefore
<1>9. RecvFits(p, head[p], net, r, ledger[p] \cup {m})
  <2> HIDE DEF r, m
  <2> QED
    BY <1>3, <1>6 DEF RecvFits
<1>10. /\ DOMAIN ledger' = Parties /\ ledger'[p] = ledger[p] \cup {m}
       /\ \A q \in Parties \ {p} : ledger'[q] = ledger[q]
       /\ ledger[p] \cup {m} \subseteq net
  BY <1>1, <1>2, <1>3
<1> HIDE DEF r, m
<1> QED
  <2>1. /\ recv' = [recv EXCEPT ![p] = r] /\ UNCHANGED <<head, net>>
        /\ ReadBefore(r, ledger[p] \cup {m}) = ReadBefore(recv[p], ledger[p])
    BY <1>1, <1>4, <1>8
  <2> QED
    BY <1>9, <1>10, <2>1, ReceiverStep

LEMMA RestartFits ==
    ASSUME RatchetInv, NEW p \in Parties, Restart(p)
    PROVE  RatchetInv'
<1> DEFINE r == IF recv[p].state = "derived" THEN IdleRecv ELSE recv[p]
<1>1. recv' = [recv EXCEPT ![p] = r] /\ UNCHANGED <<head, net, ledger>>
  BY DEF Restart
<1>2. RecvFits(p, head[p], net, recv[p], ledger[p]) /\ ledger[p] \subseteq net
      /\ DOMAIN ledger' = Parties
  BY <1>1 DEF RatchetInv
<1>3. RecvFits(p, head[p], net, r, ledger[p])
  BY <1>2 DEF RecvFits, IdleRecv
<1>4. ReadBefore(r, ledger[p]) = ReadBefore(recv[p], ledger[p])
  BY DEF ReadBefore, IdleRecv
<1> HIDE DEF r
<1> QED
  BY <1>1, <1>2, <1>3, <1>4, ReceiverStep

\* A message that was sent, in the state from which it was.
SentFrom(p, s, m) ==
    /\ m = [from |-> p, dh |-> <<p, s.dhs>>, pn |-> s.pn, n |-> s.ns, key |-> <<s.cks, s.ns>>]
    /\ s.cks # NoKey

LEMMA NewMessageFits ==
    ASSUME NEW p \in Parties, NEW s, StateFits(p, s), NEW m, SentFrom(p, s, m),
           NEW u, IsState(u), u.dhs = s.dhs, u.pn = s.pn, u.ns = s.ns + 1
    PROVE  /\ MessageFits(m, u)
           /\ TurnOf(m) = TurnAt(p, s) /\ m.from = p /\ m.n = s.ns /\ m.dh[2] = s.dhs
           /\ m.dh = <<p, s.dhs>>
           /\ \A o : o.from = p /\ MessageFits(o, s) =>
                 MessageFits(o, u) /\ o # m /\ PairsFit({o, m})
<1>1. /\ m.from = p /\ m.dh = <<p, s.dhs>> /\ m.pn = s.pn /\ m.n = s.ns /\ m.dh[2] = s.dhs
      /\ m.key = <<s.cks, s.ns>>
      /\ m = [from |-> m.from, dh |-> m.dh, pn |-> m.pn, n |-> m.n, key |-> m.key]
  BY DEF SentFrom
<1>2. s.dhs \in Nat /\ s.ns \in Nat /\ s.pn \in Nat
      /\ s.rk = RootOf(TurnAt(p, s)) /\ s.cks = IF TurnAt(p, s) = 0 THEN NoKey ELSE s.rk
  BY DEF StateFits
<1>3. TurnOf(m) = TurnAt(p, s) /\ TurnAt(p, s) \in Nat
  BY <1>1, <1>2, TurnFacts DEF TurnOf, TurnAt
<1>4. s.cks = RootOf(TurnOf(m)) /\ TurnOf(m) >= 1
  <2>1. s.cks # NoKey
    BY DEF SentFrom
  <2>2. TurnAt(p, s) # 0 /\ s.cks = s.rk
    BY <1>2, <2>1
  <2> QED
    BY <1>2, <1>3, <2>2
<1>5. MessageFits(m, u)
  <2>1. m.key = <<RootOf(TurnOf(m)), m.n>>
    BY <1>1, <1>4
  <2> QED
    BY <1>1, <1>2, <1>4, <2>1 DEF MessageFits
<1>6. ASSUME NEW o, o.from = p, MessageFits(o, s)
      PROVE  MessageFits(o, u) /\ o # m /\ PairsFit({o, m})
  <2>1. /\ o.dh[2] \in Nat /\ o.n \in Nat /\ o.pn \in Nat /\ o.dh[2] <= s.dhs
        /\ o.dh = <<p, o.dh[2]>>
        /\ o.dh[2] = s.dhs => o.n < s.ns /\ o.pn = s.pn
        /\ o.dh[2] + 1 = s.dhs => o.n < s.pn
    BY <1>6 DEF MessageFits
  <2>2. MessageFits(o, u)
    BY <1>2, <1>6, <2>1 DEF MessageFits
  <2>3. o # m
    BY <1>1, <1>2, <2>1
  <2>4. /\ m.dh = o.dh => m.pn = o.pn
        /\ o.dh[2] + 1 = m.dh[2] => o.n < m.pn
        /\ m.dh[2] + 1 # o.dh[2]
        /\ o.dh[2] + 1 # o.dh[2] /\ m.dh[2] + 1 # m.dh[2]
    BY <1>1, <1>2, <2>1
  <2>5. PairsFit({o, m})
    BY <2>4 DEF PairsFit
  <2> QED
    BY <2>2, <2>3, <2>5
<1> QED
  BY <1>1, <1>3, <1>5, <1>6

LEMMA EncryptFits ==
    ASSUME RatchetInv, NEW p \in Parties, Encrypt(p)
    PROVE  RatchetInv'
<1> DEFINE q == Other(p)
           s == head[p]
           t == head[q]
           m == [from |-> p, dh |-> <<p, s.dhs>>, pn |-> s.pn, n |-> s.ns,
                 key |-> <<s.cks, s.ns>>]
           u == [s EXCEPT !.ns = @ + 1]
<1>1. /\ s.cks # NoKey /\ recv[p] = IdleRecv /\ net' = net \cup {m}
      /\ head' = [head EXCEPT ![p] = u] /\ UNCHANGED <<recv, ledger>>
  BY DEF Encrypt
<1>2. q \in Parties /\ q # p /\ Other(q) = p /\ Parties = {p, q}
  BY TheOther DEF Parties, Other
<1>3. /\ Reader(p, s, t, net, ReadBefore(recv[p], ledger[p]))
      /\ Reader(q, t, s, net, ReadBefore(recv[q], ledger[q]))
      /\ RecvFits(q, t, net, recv[q], ledger[q])
      /\ ledger[p] \subseteq net /\ ledger[q] \subseteq net
      /\ DOMAIN head = Parties /\ DOMAIN recv = Parties /\ DOMAIN ledger = Parties
      /\ \A o \in net : o.from \in Parties
  BY <1>2 DEF RatchetInv
<1>4. SentFrom(p, s, m)
  BY <1>1 DEF SentFrom
<1>5. head'[p] = u /\ head'[q] = t /\ DOMAIN head' = Parties
  BY <1>1, <1>2, <1>3
<1>6. /\ IsState(u)
      /\ u.rk = s.rk /\ u.dhs = s.dhs /\ u.dhr = s.dhr /\ u.cks = s.cks /\ u.ckr = s.ckr
      /\ u.ns = s.ns + 1 /\ u.pn = s.pn /\ u.nr = s.nr /\ u.skipped = s.skipped
  <2>1. IsState(s)
    BY <1>3 DEF Reader, StateFits
  <2> HIDE DEF s
  <2> QED
    BY <2>1 DEF IsState
<1> HIDE DEF m, u, s, t, q
<1>7. /\ MessageFits(m, u)
      /\ TurnOf(m) = TurnAt(p, s) /\ m.from = p /\ m.n = s.ns /\ m.dh = <<p, s.dhs>>
      /\ \A o : o.from = p /\ MessageFits(o, s) =>
            MessageFits(o, u) /\ o # m /\ PairsFit({o, m})
  BY <1>3, <1>4, <1>6, NewMessageFits DEF Reader
<1>8. m \notin net
  BY <1>2, <1>3, <1>7 DEF Reader
<1>9. TurnAt(p, u) = TurnAt(p, s)
  BY <1>6 DEF TurnAt
<1>10. StateFits(p, u) /\ StateFits(q, t) /\ s.ns \in Nat
  BY <1>2, <1>3, <1>6, <1>9 DEF Reader, StateFits
<1>11. TurnsFit(p, u, t) /\ TurnsFit(q, t, u)
  <2>1. t.nr \in Nat
    BY <1>10 DEF StateFits
  <2> QED
    BY <1>2, <1>3, <1>6, <1>9, <1>10, <2>1 DEF Reader, TurnsFit, q
<1>12. PairsFit(net \cup {m})
  <2> SUFFICES ASSUME NEW a \in net \cup {m}, NEW b \in net \cup {m}, a.from = b.from
               PROVE  /\ a.dh = b.dh => a.pn = b.pn
                      /\ a.dh[2] + 1 = b.dh[2] => a.n < b.pn
    BY DEF PairsFit
  <2>1. CASE a \in net /\ b \in net
    BY <1>3, <2>1 DEF Reader, PairsFit
  <2>2. CASE a = m /\ b = m
    <3>1. m.dh[2] \in Nat
      BY <1>7 DEF MessageFits
    <3> QED
      BY <2>2, <3>1
  <2>3. CASE a \in net /\ b = m
    <3>1. a.from = p /\ MessageFits(a, s)
      BY <1>2, <1>3, <1>7, <2>3 DEF Reader
    <3>2. PairsFit({a, m})
      BY <1>7, <3>1
    <3> QED
      BY <2>3, <3>2 DEF PairsFit
  <2>4. CASE a = m /\ b \in net
    <3>1. b.from = p /\ MessageFits(b, s)
      BY <1>2, <1>3, <1>7, <2>4 DEF Reader
    <3>2. PairsFit({b, m})
      BY <1>7, <3>1
    <3> QED
      BY <2>4, <3>2 DEF PairsFit
  <2> QED
    BY <2>1, <2>2, <2>3, <2>4
<1>13. Reader(p, u, t, net \cup {m}, ReadBefore(recv[p], ledger[p]))
  <2>1. \A o \in net \cup {m} : o.from = q => o \in net /\ MessageFits(o, t)
    BY <1>2, <1>3, <1>7 DEF Reader, q
  <2>2. \A o : (Behind(p, u, o) <=> Behind(p, s, o)) /\ (Kept(u, o) <=> Kept(s, o))
    BY <1>6, <1>9 DEF Behind, Kept
  <2>3. ReadFits(p, u, net \cup {m}, ReadBefore(recv[p], ledger[p]))
    BY <1>3, <2>1, <2>2 DEF Reader, ReadFits, q
  <2> QED
    BY <1>10, <1>11, <1>12, <2>1, <2>3 DEF Reader, q
<1>14. ~Behind(q, t, m) /\ ~Kept(t, m)
  <2>1. PICK T \in Nat, U \in Nat : T = TurnAt(p, s) /\ U = TurnAt(q, t) /\ T = Turn(p, s.dhs)
    BY <1>2, <1>3, <1>10, TurnFacts DEF Reader, StateFits, TurnAt
  <2>2. /\ U - 1 = T \/ U + 1 = T
        /\ U - 1 = T => t.nr <= s.ns
    BY <1>2, <1>3, <2>1 DEF Reader, TurnsFit
  <2>3. t.nr \in Nat /\ SkippedFits(q, U, t.nr, t.skipped)
    BY <1>10, <2>1 DEF StateFits
  <2>4. ~Behind(q, t, m)
    BY <1>7, <1>10, <2>1, <2>2, <2>3 DEF Behind
  <2>5. ASSUME Kept(t, m)
        PROVE  FALSE
    <3>1. PICK j, n \in Nat : /\ <<m.dh, m.n>> = <<<<p, j>>, n>>
                              /\ Turn(p, j) < U
                              /\ Turn(p, j) = U - 1 => n < t.nr
      BY <1>2, <2>3, <2>5 DEF SkippedFits, Kept
    <3>2. j = s.dhs /\ n = s.ns
      BY <1>7, <3>1
    <3> QED
      BY <1>10, <2>1, <2>2, <2>3, <3>1, <3>2
  <2> QED
    BY <2>4, <2>5
<1>15. Reader(q, t, u, net \cup {m}, ReadBefore(recv[q], ledger[q]))
  <2>1. \A o \in net \cup {m} : o.from = p => MessageFits(o, u)
    BY <1>2, <1>3, <1>7 DEF Reader
  <2>2. m \notin ReadBefore(recv[q], ledger[q])
    BY <1>3, <1>8 DEF ReadBefore
  <2>3. ReadFits(q, t, net \cup {m}, ReadBefore(recv[q], ledger[q]))
    BY <1>2, <1>3, <1>14, <2>2 DEF Reader, ReadFits
  <2> QED
    BY <1>2, <1>10, <1>11, <1>12, <2>1, <2>3 DEF Reader
<1>16. RecvFits(p, u, net \cup {m}, recv[p], ledger[p])
  BY <1>1 DEF RecvFits, IdleRecv
<1>17. RecvFits(q, t, net \cup {m}, recv[q], ledger[q])
  BY <1>3 DEF RecvFits
<1>18. /\ PartyFits(p, head', net', recv'[p], ledger'[p])
       /\ PartyFits(q, head', net', recv'[q], ledger'[q])
  BY <1>1, <1>2, <1>3, <1>5, <1>13, <1>15, <1>16, <1>17 DEF PartyFits, q
<1>19. /\ DOMAIN head' = Parties /\ DOMAIN recv' = Parties /\ DOMAIN ledger' = Parties
       /\ \A o \in net' : o.from \in Parties
  BY <1>1, <1>3, <1>5, <1>7
<1> QED
  BY <1>2, <1>18, <1>19 DEF RatchetInv, PartyFits

LEMMA FinalizeFits ==
    ASSUME RatchetInv, NEW p \in Parties, Finalize(p)
    PROVE  RatchetInv'
<1> DEFINE q == Other(p)
           s == head[p]
           t == head[q]
           m == recv[p].msg
           u == recv[p].next
           before == ledger[p] \ {m}
<1>1. /\ recv[p].state = "sql_committed" /\ head' = [head EXCEPT ![p] = u]
      /\ recv' = [recv EXCEPT ![p] = IdleRecv] /\ UNCHANGED <<net, ledger>>
  BY DEF Finalize
<1>2. q \in Parties /\ q # p /\ Other(q) = p /\ Parties = {p, q}
  BY TheOther DEF Parties, Other
<1>3. /\ Reader(p, s, t, net, before)
      /\ Reader(q, t, s, net, ReadBefore(recv[q], ledger[q]))
      /\ RecvFits(q, t, net, recv[q], ledger[q])
      /\ ledger[p] \subseteq net /\ ledger[q] \subseteq net
      /\ DOMAIN head = Parties /\ DOMAIN recv = Parties /\ DOMAIN ledger = Parties
      /\ \A o \in net : o.from \in Parties
  BY <1>1, <1>2 DEF RatchetInv, ReadBefore
<1>4. /\ m \in net /\ m.from = q /\ MayDecrypt(p, s, m) /\ KeyFor(p, s, m) = m.key
      /\ u = After(p, s, m) /\ m \in ledger[p]
  BY <1>1 DEF RatchetInv, RecvFits
<1>5. /\ head'[p] = u /\ head'[q] = t /\ DOMAIN head' = Parties
      /\ recv'[p] = IdleRecv /\ recv'[q] = recv[q] /\ DOMAIN recv' = Parties
  BY <1>1, <1>2, <1>3
<1>6. ledger[p] = before \cup {m}
  BY <1>4
<1> HIDE DEF m, u, s, t, before, q
<1>7. Advances(p, s, t, net, before, m, u)
  BY <1>2, <1>3, <1>4, Reading DEF Reader, q
<1>8. Reader(p, u, t, net, ledger[p])
  BY <1>6, <1>7 DEF Advances
<1>9. Reader(q, t, u, net, ReadBefore(recv[q], ledger[q]))
  BY <1>2, <1>3, <1>7, <1>8 DEF Advances, Reader, q
<1>10. RecvFits(p, u, net, IdleRecv, ledger[p]) /\ ReadBefore(IdleRecv, ledger[p]) = ledger[p]
  BY DEF RecvFits, IdleRecv, ReadBefore
<1>11. /\ PartyFits(p, head', net', recv'[p], ledger'[p])
       /\ PartyFits(q, head', net', recv'[q], ledger'[q])
  BY <1>1, <1>2, <1>3, <1>5, <1>8, <1>9, <1>10 DEF PartyFits, q
<1> QED
  BY <1>1, <1>2, <1>3, <1>5, <1>11 DEF RatchetInv, PartyFits

LEMMA RatchetStepFits ==
    ASSUME RatchetInv, [RatchetNext]_ratchetVars
    PROVE  RatchetInv'
<1>1. CASE UNCHANGED ratchetVars
  BY <1>1 DEF ratchetVars, RatchetInv
<1>2. CASE RatchetNext
  BY <1>2, EncryptFits, OpenFits, CommitFits, FinalizeFits, RestartFits, DeriveFits
     DEF RatchetNext
<1> QED
  BY <1>1, <1>2

LEMMA InvIsSound ==
    ASSUME RatchetInv
    PROVE  RatchetSound
<1>1. \A p \in Parties : /\ Reader(p, head[p], head[Other(p)], net, ReadBefore(recv[p], ledger[p]))
                         /\ \A m \in net : m.from \in Parties
  BY DEF RatchetInv
<1>2. ASSUME NEW m \in net, NEW o \in net, m.key = o.key
      PROVE  m = o
  <2>1. \A x \in net : /\ x.from \in Parties /\ x.dh[2] \in Nat
                       /\ x.key = <<RootOf(Turn(x.from, x.dh[2])), x.n>>
                       /\ TurnOf(x) = Turn(x.from, x.dh[2])
    <3> SUFFICES ASSUME NEW x \in net
                 PROVE  /\ x.from \in Parties /\ x.dh[2] \in Nat
                        /\ x.key = <<RootOf(Turn(x.from, x.dh[2])), x.n>>
                        /\ TurnOf(x) = Turn(x.from, x.dh[2])
      OBVIOUS
    <3>1. MessageFits(x, head[x.from])
      BY <1>1, TheOther DEF Reader, Parties
    <3> QED
      BY <3>1 DEF MessageFits, TurnOf
  <2>2. RootOf(TurnOf(m)) = RootOf(TurnOf(o)) /\ m.n = o.n
    BY <1>2, <2>1
  <2>3. PICK i \in Nat, j \in Nat : i = m.dh[2] /\ j = o.dh[2]
    BY <2>1
  <2>4. Turn(m.from, i) = Turn(o.from, j)
    BY <2>1, <2>2, <2>3, TurnFacts, RootsDiffer
  <2>5. m.from = o.from
    <3> SUFFICES ASSUME m.from # o.from PROVE FALSE
      OBVIOUS
    <3>1. o.from = Other(m.from)
      BY <2>1 DEF Parties, Other
    <3> QED
      BY <2>1, <2>4, <3>1, TurnFacts
  <2>6. PICK p \in Parties : p = Other(m.from)
    BY <2>1, TheOther
  <2>7. m.from = Other(p) /\ o.from = Other(p) /\ TurnOf(m) = TurnOf(o)
    BY <2>1, <2>3, <2>4, <2>5, <2>6, TheOther
  <2> QED
    BY <1>1, <2>2, <2>7, OneMessage
<1>3. ASSUME NEW p \in Parties
      PROVE  Cardinality(DOMAIN head[p].skipped) <= MaxRetained
  BY <1>1 DEF Reader, StateFits, SkippedFits
<1>4. ASSUME NEW p \in Parties, recv[p] = IdleRecv,
             NEW m \in net, m.from = Other(p), MayDecrypt(p, head[p], m)
      PROVE  KeyFor(p, head[p], m) = m.key <=> m \notin ledger[p]
  <2>1. ReadBefore(recv[p], ledger[p]) = ledger[p]
    BY <1>4 DEF ReadBefore, IdleRecv
  <2>2. Reader(p, head[p], head[Other(p)], net, ledger[p])
    BY <1>1, <2>1
  <2> QED
    BY <1>4, <2>2, OpensUnread
<1> QED
  BY <1>2, <1>3, <1>4 DEF RatchetSound

\* Whatever the network loses, repeats and reorders, and wherever a receiver
\* crashes: no two messages have one key, what the limits let be decrypted opens if
\* and only if it was not read before, and skipped keys keep their bound.
THEOREM RatchetHolds == RatchetSpec => []RatchetSound
<1>1. RatchetInit => RatchetInv
  BY InitFits
<1>2. RatchetInv /\ [RatchetNext]_ratchetVars => RatchetInv'
  BY RatchetStepFits
<1>3. RatchetInv => RatchetSound
  BY InvIsSound
<1> QED
  BY <1>1, <1>2, <1>3, PTL DEF RatchetSpec

-----------------------------------------------------------------------------
\* The braid session.  An epoch has one side that sends its header, the other
\* sends CT1 and CT2; which is which changes from epoch to epoch.

HeaderAgents == {"KeysUnsampled", "KeysSampled", "EkSentCt1Received"}
CtAgents     == {"NoHeaderReceived", "HeaderReceived", "Ct1Sampled", "Ct2Sampled"}

\* The side that sends the header of an epoch.
Heads(p, e) == (p = FirstSender) <=> (e % 2 = 1)

\* A side that has mixed the output key of its epoch before its peer has.
HasMixed(s) == s.agent \in {"Ct1Sampled", "Ct2Sampled"}

\* Sequences of terms, whatever the terms are.
Listed(q) == q \in Seq({q[i] : i \in DOMAIN q})

Shaped(s) ==
    s \in [agent : {s.agent}, epoch : Nat \ {0}, sendEpoch : Nat, recvEpoch : Nat,
           generation : Nat, phase : 0 .. 2, replays : {s.replays}, sets : {s.sets},
           active : {s.active}, tlvs : {s.tlvs}, auth : {s.auth},
           scka : [root : {s.scka.root}, send : {s.scka.send}, recv : {s.scka.recv}],
           ec : [dh : Nat \ {0}, dhr : {s.ec.dhr}, ns : Nat, nr : {s.ec.nr}, pn : {s.ec.pn}]]

\* Each generation has one replay record, that of the pending transition included.
ReplaysFit(s) ==
    /\ s.replays = 0 .. (IF s.phase = 0 THEN s.generation - 1 ELSE s.generation)
    /\ Cardinality(s.replays) <= MaxReplays

RoleFits(p, s) ==
    /\ IF Heads(p, s.epoch) THEN s.agent \in HeaderAgents ELSE s.agent \in CtAgents
    /\ s.sendEpoch < s.epoch /\ s.recvEpoch < s.epoch
    /\ DOMAIN s.tlvs = Tags(s.agent)

\* At most one inbound set is open, that of the source a side waits for.
SetFits(i, kind, epoch) ==
    /\ i = [kind |-> kind, epoch |-> epoch, chunks |-> i.chunks]
    /\ \A c \in i.chunks : c = [index |-> c.index, payload |-> c.payload]
    /\ \A c, d \in i.chunks : c.index = d.index => c = d

OneSet(S, kind, epoch) ==
    /\ \A i \in S : SetFits(i, kind, epoch)
    /\ \A i, j \in S : i = j

SetsFit(s) ==
    /\ s.agent = "NoHeaderReceived" => OneSet(s.sets, "HDR", s.epoch)
    /\ s.agent = "EkSentCt1Received" => OneSet(s.sets, "CT2", s.epoch)
    /\ s.agent \notin {"NoHeaderReceived", "EkSentCt1Received"} => s.sets = {}

ActiveFits(s) ==
    s.agent = "KeysSampled" =>
       /\ s.active = [kind |-> "HDR", source |-> s.active.source, next |-> s.active.next]
       /\ s.active.next \in Nat \ {0}

\* Root and authenticator have one key for each epoch; chains are of these
\* epochs, the sending ones of those whose header came from the peer.
RootsFit(p, s) ==
    /\ Listed(s.scka.root) /\ s.auth = s.scka.root
    /\ Len(s.scka.root) = (IF HasMixed(s) THEN s.epoch ELSE s.epoch - 1)
    /\ s.scka.send \subseteq 1 .. Len(s.scka.root)
    /\ s.scka.recv \subseteq 1 .. Len(s.scka.root)
    /\ \A e \in s.scka.send : ~Heads(p, e)
    /\ \A e \in s.scka.recv : Heads(p, e)
    /\ Len(s.scka.root) # 0 => Len(s.scka.root) \in s.scka.send \cup s.scka.recv
    /\ s.agent = "Ct1Sampled" => s.scka.root[s.epoch] = <<s.tlvs[6], s.epoch>>
    /\ ChainsFit(s)

SideFits(p, s) ==
    /\ Shaped(s) /\ ReplaysFit(s) /\ RoleFits(p, s)
    /\ SetsFit(s) /\ ActiveFits(s) /\ RootsFit(p, s)

-----------------------------------------------------------------------------
\* Frames that were sent, or will be when a persisted transition is promoted.

Sent(p, i, F) == {f \in F : f.from = p} \cup (IF i.kind = "persisted" THEN i.out ELSE {})

\* A seal is older than the sealing side's counters.
SealedBefore(f, s) ==
    /\ f.seal.dh \in Nat \ {0} /\ f.seal.n \in Nat
    /\ f.seal.dh < s.ec.dh \/ (f.seal.dh = s.ec.dh /\ f.seal.n < s.ec.ns)

\* The agent has sent a frame of its own epoch.
Placed(s, f) ==
    \/ f.kind = "HDR" /\ s.agent = "EkSentCt1Received"
    \/ f.kind = "HDR" /\ s.agent = "KeysSampled" /\ f.index < s.active.next
    \/ f.kind = "CT1" /\ HasMixed(s)
    \/ f.kind = "CT2" /\ s.agent = "Ct2Sampled"

FrameFits(p, s, f) ==
    /\ f.from = p /\ f.epoch \in Nat /\ f.kind \in {"HDR", "CT1", "CT2"} /\ f.index \in Nat
    /\ IF f.kind = "HDR" THEN f.seal = NoSeal ELSE SealedBefore(f, s)
    /\ f.epoch < s.epoch \/ (f.epoch = s.epoch /\ Placed(s, f))
    /\ f.kind = "CT1" => /\ f.epoch \in 1 .. Len(s.scka.root)
                         /\ s.scka.root[f.epoch] = <<f.payload[1], f.epoch>>

Apart(f, g) ==
    /\ <<f.kind, f.epoch, f.index>> # <<g.kind, g.epoch, g.index>>
    /\ f.seal = NoSeal \/ g.seal = NoSeal \/ <<f.seal.dh, f.seal.n>> # <<g.seal.dh, g.seal.n>>

SendingFits(p, s, S) ==
    /\ \A f \in S : FrameFits(p, s, f)
    /\ \A f, g \in S : f = g \/ Apart(f, g)

-----------------------------------------------------------------------------
\* What a transition that is prepared makes of the state s: n, and frames out.

Planned(s, n) ==
    /\ n.generation = s.generation /\ n.replays = s.replays \cup {s.generation} /\ n.phase = 1
    /\ Encodable(n) /\ Shaped(n)

DraftHeader(p, s, n, out) ==
    /\ s.agent = "KeysUnsampled" /\ n.agent = "KeysSampled"
    /\ n.epoch = s.epoch /\ n.sendEpoch = s.epoch - 1 /\ n.recvEpoch = s.recvEpoch
    /\ n.sets = s.sets /\ n.auth = s.auth /\ n.scka = s.scka /\ n.ec = s.ec
    /\ n.active = [kind |-> "HDR", source |-> n.active.source, next |-> 1]
    /\ \E f \in out : /\ out = {f} /\ f.from = p /\ f.kind = "HDR" /\ f.epoch = s.epoch
                      /\ f.index = 0 /\ f.seal = NoSeal

DraftChunk(p, s, n, out) ==
    /\ s.agent = "NoHeaderReceived" /\ n.agent = "NoHeaderReceived"
    /\ n.epoch = s.epoch /\ n.sendEpoch = s.sendEpoch /\ n.recvEpoch = s.epoch - 1
    /\ n.auth = s.auth /\ n.scka = s.scka /\ n.ec = s.ec
    /\ OneSet(n.sets, "HDR", s.epoch)
    /\ out = {}

DraftCt1(p, s, n, out) ==
    /\ s.agent = "HeaderReceived" /\ n.agent = "Ct1Sampled"
    /\ n.epoch = s.epoch /\ n.sendEpoch = s.epoch - 1 /\ n.recvEpoch = s.recvEpoch
    /\ n.sets = s.sets
    /\ n.auth = Append(s.auth, <<n.tlvs[6], s.epoch>>)
    /\ n.scka.root = Append(s.scka.root, <<n.tlvs[6], s.epoch>>)
    /\ n.scka.send = Linked(s.scka.send, s.epoch) /\ n.scka.recv = s.scka.recv
    /\ n.ec.dh = s.ec.dh /\ n.ec.ns = s.ec.ns + 1
    /\ \E f \in out : /\ out = {f} /\ f.from = p /\ f.kind = "CT1" /\ f.epoch = s.epoch
                      /\ f.index = 0 /\ f.payload[1] = n.tlvs[6]
                      /\ f.seal.dh = s.ec.dh /\ f.seal.n = s.ec.ns

DraftEpoch(p, s, n, out) ==
    /\ s.agent = "EkSentCt1Received" /\ n.agent = "NoHeaderReceived"
    /\ n.epoch = s.epoch + 1 /\ n.sendEpoch = s.sendEpoch /\ n.recvEpoch = s.epoch - 1
    /\ n.sets = {EmptySet("HDR", s.epoch + 1)}
    /\ n.auth = Append(s.auth, <<s.tlvs[6], s.epoch>>)
    /\ n.scka.root = Append(s.scka.root, <<s.tlvs[6], s.epoch>>)
    /\ n.scka.send = s.scka.send /\ n.scka.recv = Linked(s.scka.recv, s.epoch)
    /\ n.ec.dh > s.ec.dh \/ (n.ec.dh = s.ec.dh /\ n.ec.ns = s.ec.ns)
    /\ out = {}

Draft(p, s, n, out) ==
    \/ DraftHeader(p, s, n, out) \/ DraftChunk(p, s, n, out)
    \/ DraftCt1(p, s, n, out) \/ DraftEpoch(p, s, n, out)

IntentFits(p, s, i, F) ==
    \/ i = NoIntent /\ s.phase = 0
    \/ /\ i = [kind |-> "prepared", next |-> i.next, out |-> i.out] /\ s.phase = 0
       /\ Planned(s, i.next) /\ Draft(p, s, i.next, i.out)
    \/ /\ i = [kind |-> "persisted", next |-> i.next, out |-> i.out] /\ s.phase # 0
       /\ s.phase = 2 => i.out \subseteq F

\* The two sides: at most an epoch apart, and of one mind about the output keys.
Together(s, t) ==
    /\ s.epoch <= t.epoch + 1
    /\ s.epoch = t.epoch + 1 => s.agent = "NoHeaderReceived" /\ HasMixed(t)
    /\ \A k \in 1 .. Len(s.scka.root) : k <= Len(t.scka.root) => s.scka.root[k] = t.scka.root[k]
    /\ s.agent = "EkSentCt1Received" =>
          s.epoch = t.epoch /\ HasMixed(t) /\ t.scka.root[t.epoch] = <<s.tlvs[6], s.epoch>>

EndFits(p, s, i, F) ==
    /\ SideFits(p, s) /\ IntentFits(p, s, i, F) /\ SendingFits(p, s, Sent(p, i, F))

BraidInv ==
    /\ braid = [p \in Sides |-> braid[p]] /\ intent = [p \in Sides |-> intent[p]]
    /\ \A p \in Sides : /\ EndFits(p, braid[p], intent[p], frames)
                        /\ Together(braid[p], braid[Facing(p)])
    /\ \A f \in frames : f.from \in Sides

-----------------------------------------------------------------------------
\* Sides, sequences and chains.

LEMMA TwoSides ==
    ASSUME NEW p \in Sides
    PROVE  /\ Facing(p) \in Sides /\ Facing(p) # p /\ Facing(Facing(p)) = p
           /\ \A q \in Sides : q = p \/ q = Facing(p)
           /\ \A e \in Nat : Heads(Facing(p), e) <=> ~Heads(p, e)
           /\ \A e \in Nat : Heads(p, e + 1) <=> ~Heads(p, e)
<1>1. /\ Facing(p) \in Sides /\ Facing(p) # p /\ Facing(Facing(p)) = p
      /\ \A q \in Sides : q = p \/ q = Facing(p)
      /\ p = FirstSender <=> Facing(p) # FirstSender
  BY BraidConstants DEF Sides, Facing
<1>2. \A e \in Nat : (e % 2 = 1) <=> ~((e + 1) % 2 = 1)
  OBVIOUS
<1> QED
  BY <1>1, <1>2 DEF Heads

LEMMA ListedGrows ==
    ASSUME NEW q, Listed(q), NEW x
    PROVE  /\ Len(q) \in Nat /\ Listed(Append(q, x)) /\ Len(Append(q, x)) = Len(q) + 1
           /\ \A k \in 1 .. Len(q) : Append(q, x)[k] = q[k]
           /\ Append(q, x)[Len(q) + 1] = x
<1> DEFINE R == {q[k] : k \in DOMAIN q}
           T == R \cup {x}
           a == Append(q, x)
<1>1. q \in Seq(R) /\ q \in Seq(T) /\ x \in T
  BY SeqMonotonic DEF Listed
<1>2. /\ a \in Seq(T) /\ Len(a) = Len(q) + 1
      /\ \A k \in 1 .. Len(q) : a[k] = q[k]
      /\ a[Len(q) + 1] = x
  <2> HIDE DEF T
  <2> QED
    BY <1>1, AppendProperties
<1>3. Len(q) \in Nat /\ DOMAIN q = 1 .. Len(q) /\ DOMAIN a = 1 .. Len(a)
  <2> HIDE DEF R, T, a
  <2> QED
    BY <1>1, <1>2, LenProperties
<1>4. T = {a[k] : k \in DOMAIN a}
  <2> HIDE DEF a
  <2>1. ASSUME NEW y \in T PROVE \E k \in DOMAIN a : y = a[k]
    <3>1. CASE y = x
      BY <3>1, <1>2, <1>3
    <3>2. CASE y # x
      <4>1. PICK k \in DOMAIN q : y = q[k]
        BY <3>2, <2>1
      <4> QED
        BY <4>1, <1>2, <1>3
    <3> QED
      BY <3>1, <3>2
  <2>2. ASSUME NEW k \in DOMAIN a PROVE a[k] \in T
    <3>1. k \in 1 .. Len(q) \/ k = Len(q) + 1
      BY <1>2, <1>3
    <3> QED
      BY <3>1, <1>2, <1>3
  <2> HIDE DEF T
  <2> QED
    BY <2>1, <2>2
<1> QED
  <2>1. Listed(a)
    BY <1>2, <1>4 DEF Listed
  <2> QED
    BY <2>1, <1>2, <1>3

\* The newest epoch stays in its chain.
LEMMA NewestLinked ==
    ASSUME NEW chain, NEW e \in Nat \ {0}, chain \subseteq 1 .. e - 1
    PROVE  /\ e \in Linked(chain, e) /\ Linked(chain, e) \subseteq chain \cup {e}
<1> DEFINE all == (chain \ {e}) \cup {e}
<1>1. Linked(chain, e) = (IF Cardinality(all) > MaxChain THEN all \ {Min(all)} ELSE all)
  BY DEF Linked
<1>2. all \subseteq chain \cup {e} /\ e \in all /\ all \subseteq 1 .. e
  OBVIOUS
<1> HIDE DEF all
<1>3. CASE Cardinality(all) > MaxChain
  <2>1. IsFiniteSet(1 .. e)
    BY FS_Interval
  <2>2. IsFiniteSet(all)
    BY <2>1, <1>2, FS_Subset
  <2>3. all # {e}
    <3>1. Cardinality({e}) = 1
      BY FS_Singleton
    <3> QED
      BY <3>1, <1>3, BraidConstants
  <2>4. PICK x \in all : x # e
    BY <2>3, <1>2
  <2>5. \E y \in all : \A z \in all : y <= z
    <3>1. all \subseteq Nat /\ all # {}
      BY <1>2
    <3> QED
      BY <3>1, LeastNumber, Zenon
  <2>6. Min(all) \in all /\ \A z \in all : Min(all) =< z
    BY <2>5 DEF Min
  <2>7. Min(all) # e
    BY <2>4, <2>6, <1>2
  <2> QED
    BY <2>6, <2>7, <1>1, <1>2, <1>3
<1>4. CASE ~(Cardinality(all) > MaxChain)
  BY <1>4, <1>1, <1>2
<1> QED
  BY <1>3, <1>4

-----------------------------------------------------------------------------
\* A step of one side.

LEMMA SideMoves ==
    ASSUME BraidInv, NEW p \in Sides, NEW n, NEW i,
           braid' = [braid EXCEPT ![p] = n], intent' = [intent EXCEPT ![p] = i],
           frames \subseteq frames', \A f \in frames' : f \in frames \/ f.from = p,
           EndFits(p, n, i, frames'),
           Together(n, braid[Facing(p)]), Together(braid[Facing(p)], n)
    PROVE  BraidInv'
<1> DEFINE q == Facing(p)
<1>1. /\ q \in Sides /\ q # p /\ Facing(q) = p /\ \A x \in Sides : x = p \/ x = q
  BY TwoSides, Zenon
<1>2. /\ braid' = [x \in Sides |-> braid'[x]] /\ intent' = [x \in Sides |-> intent'[x]]
      /\ braid'[p] = n /\ braid'[q] = braid[q] /\ intent'[p] = i /\ intent'[q] = intent[q]
  BY <1>1 DEF BraidInv
<1> HIDE DEF q
<1>3. EndFits(q, braid[q], intent[q], frames')
  <2>1. EndFits(q, braid[q], intent[q], frames)
    BY <1>1 DEF BraidInv
  <2>2. Sent(q, intent[q], frames') = Sent(q, intent[q], frames)
    BY <1>1 DEF Sent
  <2>3. IntentFits(q, braid[q], intent[q], frames')
    BY <2>1 DEF EndFits, IntentFits
  <2> QED
    BY <2>1, <2>2, <2>3 DEF EndFits
<1>4. Together(n, braid[q]) /\ Together(braid[q], n)
  BY DEF q
<1>5. \A f \in frames' : f.from \in Sides
  BY DEF BraidInv
<1>6. \A x \in Sides : /\ EndFits(x, braid'[x], intent'[x], frames')
                       /\ Together(braid'[x], braid'[Facing(x)])
  <2> TAKE x \in Sides
  <2>1. CASE x = p
    BY <2>1, <1>2, <1>4 DEF q
  <2>2. CASE x = q
    BY <2>2, <1>1, <1>2, <1>3, <1>4
  <2> QED
    BY <2>1, <2>2, <1>1
<1> QED
  BY <1>2, <1>5, <1>6 DEF BraidInv

\* What both sides are before it.
LEMMA BothFit ==
    ASSUME BraidInv, NEW p \in Sides
    PROVE  /\ EndFits(p, braid[p], intent[p], frames)
           /\ EndFits(Facing(p), braid[Facing(p)], intent[Facing(p)], frames)
           /\ Together(braid[p], braid[Facing(p)]) /\ Together(braid[Facing(p)], braid[p])
           /\ braid = [braid EXCEPT ![p] = braid[p]]
           /\ intent = [intent EXCEPT ![p] = intent[p]]
<1>1. Facing(p) \in Sides /\ Facing(Facing(p)) = p
  BY TwoSides
<1>2. \A x \in Sides : /\ EndFits(x, braid[x], intent[x], frames)
                       /\ Together(braid[x], braid[Facing(x)])
  BY DEF BraidInv
<1>3. braid = [braid EXCEPT ![p] = braid[p]] /\ intent = [intent EXCEPT ![p] = intent[p]]
  BY DEF BraidInv
<1> QED
  BY <1>1, <1>2, <1>3

\* The role of a side follows from its agent, and so does how many keys it has.
LEMMA SideFacts ==
    ASSUME NEW p \in Sides, NEW s, SideFits(p, s)
    PROVE  /\ s.epoch \in Nat \ {0} /\ s.sendEpoch \in Nat /\ s.recvEpoch \in Nat
           /\ s.generation \in Nat /\ s.phase \in 0 .. 2
           /\ s.ec.dh \in Nat \ {0} /\ s.ec.ns \in Nat
           /\ s.agent \in HeaderAgents <=> Heads(p, s.epoch)
           /\ s.agent \in CtAgents <=> ~Heads(p, s.epoch)
           /\ Len(s.scka.root) \in Nat
           /\ Len(s.scka.root) = (IF HasMixed(s) THEN s.epoch ELSE s.epoch - 1)
<1>1. Shaped(s) /\ RoleFits(p, s) /\ RootsFit(p, s)
  BY DEF SideFits
<1>2. /\ s.epoch \in Nat \ {0} /\ s.sendEpoch \in Nat /\ s.recvEpoch \in Nat
      /\ s.generation \in Nat /\ s.phase \in 0 .. 2
      /\ s.ec.dh \in Nat \ {0} /\ s.ec.ns \in Nat
  BY <1>1 DEF Shaped
<1>3. /\ s.agent \in HeaderAgents <=> Heads(p, s.epoch)
      /\ s.agent \in CtAgents <=> ~Heads(p, s.epoch)
  BY <1>1 DEF RoleFits, HeaderAgents, CtAgents
<1>4. Len(s.scka.root) = (IF HasMixed(s) THEN s.epoch ELSE s.epoch - 1)
  BY <1>1 DEF RootsFit
<1>5. Len(s.scka.root) \in Nat
  BY <1>2, <1>4
<1> QED
  BY <1>2, <1>3, <1>4, <1>5

\* The two sides of one epoch, or of two that follow each other.
LEMMA PairFacts ==
    ASSUME NEW p \in Sides, NEW s, NEW t, SideFits(p, s), SideFits(Facing(p), t),
           Together(s, t), Together(t, s)
    PROVE  /\ s.epoch = t.epoch \/ s.epoch = t.epoch + 1 \/ t.epoch = s.epoch + 1
           /\ s.epoch = t.epoch => (s.agent \in HeaderAgents <=> t.agent \in CtAgents)
           /\ s.epoch = t.epoch + 1 => s.agent = "NoHeaderReceived" /\ HasMixed(t)
           /\ t.epoch = s.epoch + 1 => t.agent = "NoHeaderReceived" /\ HasMixed(s)
<1>1. /\ s.epoch \in Nat /\ t.epoch \in Nat
      /\ s.agent \in HeaderAgents <=> Heads(p, s.epoch)
      /\ t.agent \in CtAgents <=> ~Heads(Facing(p), t.epoch)
  BY SideFacts, TwoSides
<1>2. \A e \in Nat : Heads(Facing(p), e) <=> ~Heads(p, e)
  BY TwoSides
<1>3. s.epoch <= t.epoch + 1 /\ t.epoch <= s.epoch + 1
  BY DEF Together
<1> QED
  BY <1>1, <1>2, <1>3 DEF Together

-----------------------------------------------------------------------------
\* Frames stay what they are when their side goes on.

LEMMA FramesStay ==
    ASSUME NEW p \in Sides, NEW s, NEW n, SideFits(p, s), SideFits(p, n),
           NEW S, SendingFits(p, s, S),
           n.ec.dh > s.ec.dh \/ (n.ec.dh = s.ec.dh /\ n.ec.ns >= s.ec.ns),
           Len(s.scka.root) <= Len(n.scka.root),
           \A k \in 1 .. Len(s.scka.root) : n.scka.root[k] = s.scka.root[k],
           \/ n.epoch > s.epoch
           \/ n.epoch = s.epoch /\ \A f \in S : Placed(s, f) => Placed(n, f)
    PROVE  SendingFits(p, n, S)
<1>1. /\ s.epoch \in Nat /\ n.epoch \in Nat
      /\ s.ec.dh \in Nat /\ s.ec.ns \in Nat /\ n.ec.dh \in Nat /\ n.ec.ns \in Nat
      /\ Len(s.scka.root) \in Nat /\ Len(n.scka.root) \in Nat
  BY SideFacts
<1>2. ASSUME NEW f \in S PROVE FrameFits(p, n, f)
  <2>1. FrameFits(p, s, f)
    BY DEF SendingFits
  <2>2. SealedBefore(f, s) => SealedBefore(f, n)
    <3>1. SUFFICES ASSUME SealedBefore(f, s) PROVE SealedBefore(f, n)
      OBVIOUS
    <3>2. /\ f.seal.dh \in Nat \ {0} /\ f.seal.n \in Nat
          /\ f.seal.dh < s.ec.dh \/ (f.seal.dh = s.ec.dh /\ f.seal.n < s.ec.ns)
      BY <3>1 DEF SealedBefore
    <3>3. f.seal.dh < n.ec.dh \/ (f.seal.dh = n.ec.dh /\ f.seal.n < n.ec.ns)
      BY <1>1, <3>2
    <3> QED
      BY <3>2, <3>3 DEF SealedBefore
  <2>3. f.epoch < n.epoch \/ (f.epoch = n.epoch /\ Placed(n, f))
    BY <1>1, <2>1 DEF FrameFits
  <2>4. f.kind = "CT1" => /\ f.epoch \in 1 .. Len(n.scka.root)
                          /\ n.scka.root[f.epoch] = <<f.payload[1], f.epoch>>
    <3>1. f.kind = "CT1" => /\ f.epoch \in 1 .. Len(s.scka.root)
                            /\ s.scka.root[f.epoch] = <<f.payload[1], f.epoch>>
      BY <2>1 DEF FrameFits
    <3>2. 1 .. Len(s.scka.root) \subseteq 1 .. Len(n.scka.root)
      BY <1>1
    <3> QED
      BY <3>1, <3>2
  <2> QED
    BY <2>1, <2>2, <2>3, <2>4 DEF FrameFits
<1> QED
  BY <1>2 DEF SendingFits

LEMMA FramesKept ==
    ASSUME NEW p \in Sides, NEW s, NEW n, SideFits(p, s), SideFits(p, n),
           NEW S, SendingFits(p, s, S),
           n.ec = s.ec, n.scka = s.scka, n.epoch = s.epoch,
           \A f \in S : Placed(s, f) => Placed(n, f)
    PROVE  SendingFits(p, n, S)
<1>1. n.ec.dh = s.ec.dh /\ n.ec.ns >= s.ec.ns /\ Len(s.scka.root) <= Len(n.scka.root)
  BY SideFacts
<1>2. \A k \in 1 .. Len(s.scka.root) : n.scka.root[k] = s.scka.root[k]
  OBVIOUS
<1> QED
  BY <1>1, <1>2, FramesStay

LEMMA FrameAdded ==
    ASSUME NEW p, NEW n, NEW S, SendingFits(p, n, S), NEW f, FrameFits(p, n, f),
           \A g \in S : Apart(f, g)
    PROVE  SendingFits(p, n, S \cup {f})
<1>1. \A g \in S : Apart(g, f)
  BY DEF Apart
<1> QED
  BY <1>1 DEF SendingFits

\* A new seal is not one of those before it.
LEMMA NewSeal ==
    ASSUME NEW s, s.ec.dh \in Nat, s.ec.ns \in Nat, NEW f, NEW k \in Nat,
           f.seal.dh = s.ec.dh, f.seal.n = s.ec.ns + k,
           NEW g, g.seal = NoSeal \/ SealedBefore(g, s),
           <<f.kind, f.epoch, f.index>> # <<g.kind, g.epoch, g.index>>
    PROVE  Apart(f, g)
<1>1. CASE g.seal = NoSeal
  BY <1>1 DEF Apart
<1>2. CASE SealedBefore(g, s)
  <2>1. ~(f.seal.dh = g.seal.dh /\ f.seal.n = g.seal.n)
    BY <1>2 DEF SealedBefore
  <2> QED
    BY <2>1 DEF Apart
<1> QED
  BY <1>1, <1>2

-----------------------------------------------------------------------------
\* A transition that is prepared, once it is persisted.

LEMMA PlannedFits ==
    ASSUME NEW p \in Sides, NEW s, SideFits(p, s), s.phase = 0, NEW n, Planned(s, n)
    PROVE  Shaped(n) /\ ReplaysFit(n) /\ DOMAIN n.tlvs = Tags(n.agent) /\ ChainsFit(n)
<1>1. s.generation \in Nat
  BY SideFacts
<1>2. s.replays = 0 .. s.generation - 1
  BY DEF SideFits, ReplaysFit
<1>3. (0 .. s.generation - 1) \cup {s.generation} = 0 .. s.generation
  BY <1>1
<1>4. n.phase = 1 /\ n.generation = s.generation /\ n.replays = s.replays \cup {s.generation}
      /\ Encodable(n) /\ Shaped(n)
  BY DEF Planned
<1>5. n.replays = 0 .. n.generation
  BY <1>2, <1>3, <1>4
<1>6. Cardinality(n.replays) <= MaxReplays /\ DOMAIN n.tlvs = Tags(n.agent) /\ ChainsFit(n)
  BY <1>4 DEF Encodable
<1>7. n.phase # 0
  BY <1>4
<1>8. ReplaysFit(n)
  BY <1>5, <1>6, <1>7 DEF ReplaysFit
<1> QED
  BY <1>4, <1>6, <1>8

\* What a persisted transition leaves of the invariant.
Goes(p, s, n, t, S) ==
    /\ SideFits(p, n) /\ SendingFits(p, n, S)
    /\ Together(n, t) /\ Together(t, n)

LEMMA HeaderGoes ==
    ASSUME NEW p \in Sides, NEW s, NEW t, SideFits(p, s), SideFits(Facing(p), t),
           Together(s, t), Together(t, s), NEW S, SendingFits(p, s, S),
           s.phase = 0, NEW n, NEW out, Planned(s, n), DraftHeader(p, s, n, out)
    PROVE  Goes(p, s, n, t, S \cup out)
<1>1. /\ s.agent = "KeysUnsampled" /\ n.agent = "KeysSampled"
      /\ n.epoch = s.epoch /\ n.sendEpoch = s.epoch - 1 /\ n.recvEpoch = s.recvEpoch
      /\ n.sets = s.sets /\ n.auth = s.auth /\ n.scka = s.scka /\ n.ec = s.ec
      /\ n.active = [kind |-> "HDR", source |-> n.active.source, next |-> 1]
  BY DEF DraftHeader
<1>2. PICK f \in out : /\ out = {f} /\ f.from = p /\ f.kind = "HDR" /\ f.epoch = s.epoch
                       /\ f.index = 0 /\ f.seal = NoSeal
  BY DEF DraftHeader
<1>3. Shaped(n) /\ ReplaysFit(n) /\ DOMAIN n.tlvs = Tags(n.agent) /\ ChainsFit(n)
  BY PlannedFits
<1>4. s.epoch \in Nat \ {0} /\ s.ec.dh \in Nat /\ s.ec.ns \in Nat /\ Len(s.scka.root) \in Nat
  BY SideFacts
<1>5. SideFits(p, n)
  <2>1. RoleFits(p, n)
    BY <1>1, <1>3, <1>4 DEF SideFits, RoleFits, HeaderAgents, CtAgents
  <2>2. SetsFit(n)
    BY <1>1 DEF SideFits, SetsFit
  <2>3. n.active.next = 1
    BY <1>1
  <2>4. ActiveFits(n)
    BY <1>1, <2>3 DEF ActiveFits
  <2>5. RootsFit(p, n)
    BY <1>1, <1>3 DEF SideFits, RootsFit, HasMixed
  <2> QED
    BY <1>3, <2>1, <2>2, <2>4, <2>5 DEF SideFits
<1>6. SendingFits(p, n, S)
  <2>1. \A g \in S : ~Placed(s, g)
    BY <1>1 DEF Placed, HasMixed
  <2> QED
    BY <1>1, <1>4, <1>5, <2>1, FramesStay
<1>7. FrameFits(p, n, f)
  <2>1. n.active.next = 1
    BY <1>1
  <2> QED
    BY <1>1, <1>2, <1>4, <2>1 DEF FrameFits, Placed
<1>8. \A g \in S : Apart(f, g)
  <2> TAKE g \in S
  <2>1. FrameFits(p, s, g) /\ ~(g.kind = "HDR" /\ Placed(s, g))
    BY <1>1 DEF SendingFits, Placed
  <2>2. ~(g.kind = "HDR" /\ g.epoch = s.epoch)
    BY <2>1, <1>4 DEF FrameFits
  <2> QED
    BY <2>2, <1>2 DEF Apart
<1>9. SendingFits(p, n, S \cup out)
  BY <1>2, <1>6, <1>7, <1>8, FrameAdded
<1>10. Together(n, t) /\ Together(t, n)
  <2>1. t.epoch \in Nat
    BY TwoSides, SideFacts
  <2>2. t.agent # "EkSentCt1Received" /\ t.epoch # s.epoch + 1 /\ s.epoch # t.epoch + 1
    BY <1>1, <1>4, <2>1 DEF Together, HasMixed
  <2> QED
    BY <1>1, <2>2 DEF Together
<1> QED
  BY <1>5, <1>9, <1>10 DEF Goes

LEMMA ChunkGoes ==
    ASSUME NEW p \in Sides, NEW s, NEW t, SideFits(p, s), SideFits(Facing(p), t),
           Together(s, t), Together(t, s), NEW S, SendingFits(p, s, S),
           s.phase = 0, NEW n, NEW out, Planned(s, n), DraftChunk(p, s, n, out)
    PROVE  Goes(p, s, n, t, S \cup out)
<1>1. /\ s.agent = "NoHeaderReceived" /\ n.agent = "NoHeaderReceived"
      /\ n.epoch = s.epoch /\ n.sendEpoch = s.sendEpoch /\ n.recvEpoch = s.epoch - 1
      /\ n.auth = s.auth /\ n.scka = s.scka /\ n.ec = s.ec
      /\ OneSet(n.sets, "HDR", s.epoch) /\ out = {}
  BY DEF DraftChunk
<1>2. Shaped(n) /\ ReplaysFit(n) /\ DOMAIN n.tlvs = Tags(n.agent) /\ ChainsFit(n)
  BY PlannedFits
<1>3. s.epoch \in Nat \ {0} /\ s.ec.dh \in Nat /\ s.ec.ns \in Nat /\ Len(s.scka.root) \in Nat
  BY SideFacts
<1>4. SideFits(p, n)
  <2>1. RoleFits(p, n)
    BY <1>1, <1>2, <1>3 DEF SideFits, RoleFits, HeaderAgents, CtAgents
  <2>2. SetsFit(n)
    BY <1>1 DEF SetsFit
  <2>3. ActiveFits(n)
    BY <1>1 DEF ActiveFits
  <2>4. RootsFit(p, n)
    BY <1>1, <1>2 DEF SideFits, RootsFit, HasMixed
  <2> QED
    BY <1>2, <2>1, <2>2, <2>3, <2>4 DEF SideFits
<1>5. SendingFits(p, n, S)
  <2>1. \A g \in S : ~Placed(s, g)
    BY <1>1 DEF Placed, HasMixed
  <2> QED
    BY <1>1, <1>3, <1>4, <2>1, FramesStay
<1>6. Together(n, t) /\ Together(t, n)
  BY <1>1 DEF Together, HasMixed
<1>7. S \cup out = S
  BY <1>1
<1> QED
  BY <1>4, <1>5, <1>6, <1>7 DEF Goes

\* A key is mixed in: the epoch's chain is linked.
Mixes(p, s, n, key) ==
    /\ n.auth = Append(s.auth, key) /\ n.scka.root = Append(s.scka.root, key)
    /\ \/ /\ n.scka.send = Linked(s.scka.send, s.epoch) /\ n.scka.recv = s.scka.recv
          /\ ~Heads(p, s.epoch)
       \/ /\ n.scka.recv = Linked(s.scka.recv, s.epoch) /\ n.scka.send = s.scka.send
          /\ Heads(p, s.epoch)

Mixed(p, s, n, key) ==
    /\ Listed(n.scka.root) /\ n.auth = n.scka.root
    /\ Len(n.scka.root) = s.epoch /\ Len(s.scka.root) = s.epoch - 1
    /\ \A k \in 1 .. Len(s.scka.root) : n.scka.root[k] = s.scka.root[k]
    /\ n.scka.root[s.epoch] = key
    /\ n.scka.send \subseteq 1 .. s.epoch /\ n.scka.recv \subseteq 1 .. s.epoch
    /\ \A e \in n.scka.send : ~Heads(p, e)
    /\ \A e \in n.scka.recv : Heads(p, e)
    /\ s.epoch \in n.scka.send \cup n.scka.recv

LEMMA KeysGrow ==
    ASSUME NEW p \in Sides, NEW s, SideFits(p, s), ~HasMixed(s), NEW n, NEW key,
           Mixes(p, s, n, key)
    PROVE  Mixed(p, s, n, key)
<1>1. RootsFit(p, s)
  BY DEF SideFits
<1>2. s.epoch \in Nat \ {0} /\ Len(s.scka.root) = s.epoch - 1
  BY SideFacts
<1>3. Listed(s.scka.root) /\ s.auth = s.scka.root
  BY <1>1 DEF RootsFit
<1>4. /\ Listed(n.scka.root) /\ Len(n.scka.root) = s.epoch
      /\ \A k \in 1 .. Len(s.scka.root) : n.scka.root[k] = s.scka.root[k]
      /\ n.scka.root[s.epoch] = key
  <2>1. /\ Len(s.scka.root) \in Nat
        /\ Listed(Append(s.scka.root, key)) /\ Len(Append(s.scka.root, key)) = Len(s.scka.root) + 1
        /\ \A k \in 1 .. Len(s.scka.root) : Append(s.scka.root, key)[k] = s.scka.root[k]
        /\ Append(s.scka.root, key)[Len(s.scka.root) + 1] = key
    BY <1>3, ListedGrows
  <2>2. Len(s.scka.root) + 1 = s.epoch
    BY <1>2
  <2>3. n.scka.root = Append(s.scka.root, key)
    BY DEF Mixes
  <2> QED
    BY <2>1, <2>2, <2>3
<1>5. /\ s.scka.send \subseteq 1 .. s.epoch - 1 /\ s.scka.recv \subseteq 1 .. s.epoch - 1
      /\ \A e \in s.scka.send : ~Heads(p, e)
      /\ \A e \in s.scka.recv : Heads(p, e)
  BY <1>1, <1>2 DEF RootsFit
<1>6. /\ s.epoch \in Linked(s.scka.send, s.epoch) /\ s.epoch \in Linked(s.scka.recv, s.epoch)
      /\ Linked(s.scka.send, s.epoch) \subseteq s.scka.send \cup {s.epoch}
      /\ Linked(s.scka.recv, s.epoch) \subseteq s.scka.recv \cup {s.epoch}
  BY <1>2, <1>5, NewestLinked
<1>7. 1 .. s.epoch - 1 \subseteq 1 .. s.epoch /\ s.epoch \in 1 .. s.epoch
  BY <1>2
<1>8. /\ n.scka.send \subseteq 1 .. s.epoch /\ n.scka.recv \subseteq 1 .. s.epoch
      /\ \A e \in n.scka.send : ~Heads(p, e)
      /\ \A e \in n.scka.recv : Heads(p, e)
      /\ s.epoch \in n.scka.send \cup n.scka.recv
  BY <1>5, <1>6, <1>7 DEF Mixes
<1>9. n.auth = n.scka.root
  BY <1>3 DEF Mixes
<1> QED
  BY <1>2, <1>4, <1>8, <1>9 DEF Mixed

LEMMA Ct1Goes ==
    ASSUME NEW p \in Sides, NEW s, NEW t, SideFits(p, s), SideFits(Facing(p), t),
           Together(s, t), Together(t, s), NEW S, SendingFits(p, s, S),
           s.phase = 0, NEW n, NEW out, Planned(s, n), DraftCt1(p, s, n, out)
    PROVE  Goes(p, s, n, t, S \cup out)
<1> DEFINE key == <<n.tlvs[6], s.epoch>>
<1>1. /\ s.agent = "HeaderReceived" /\ n.agent = "Ct1Sampled"
      /\ n.epoch = s.epoch /\ n.sendEpoch = s.epoch - 1 /\ n.recvEpoch = s.recvEpoch
      /\ n.sets = s.sets /\ n.auth = Append(s.auth, key)
      /\ n.scka.root = Append(s.scka.root, key)
      /\ n.scka.send = Linked(s.scka.send, s.epoch) /\ n.scka.recv = s.scka.recv
      /\ n.ec.dh = s.ec.dh /\ n.ec.ns = s.ec.ns + 1
  BY DEF DraftCt1
<1>2. PICK f \in out : /\ out = {f} /\ f.from = p /\ f.kind = "CT1" /\ f.epoch = s.epoch
                       /\ f.index = 0 /\ f.payload[1] = n.tlvs[6]
                       /\ f.seal.dh = s.ec.dh /\ f.seal.n = s.ec.ns
  BY DEF DraftCt1
<1>3. Shaped(n) /\ ReplaysFit(n) /\ DOMAIN n.tlvs = Tags(n.agent) /\ ChainsFit(n)
  BY PlannedFits
<1>4. s.epoch \in Nat \ {0} /\ s.ec.dh \in Nat \ {0} /\ s.ec.ns \in Nat /\ Len(s.scka.root) \in Nat
      /\ ~Heads(p, s.epoch)
  BY <1>1, SideFacts DEF CtAgents
<1>5. ~HasMixed(s) /\ HasMixed(n)
  BY <1>1 DEF HasMixed
<1>6. /\ Listed(n.scka.root) /\ n.auth = n.scka.root
      /\ Len(n.scka.root) = s.epoch /\ Len(s.scka.root) = s.epoch - 1
      /\ \A k \in 1 .. Len(s.scka.root) : n.scka.root[k] = s.scka.root[k]
      /\ n.scka.root[s.epoch] = key
      /\ n.scka.send \subseteq 1 .. s.epoch /\ n.scka.recv \subseteq 1 .. s.epoch
      /\ \A e \in n.scka.send : ~Heads(p, e)
      /\ \A e \in n.scka.recv : Heads(p, e)
      /\ s.epoch \in n.scka.send \cup n.scka.recv
  <2>1. Mixes(p, s, n, key)
    BY <1>1, <1>4 DEF Mixes
  <2>2. Mixed(p, s, n, key)
    BY <2>1, <1>5, KeysGrow
  <2> QED
    BY <2>2 DEF Mixed
<1>7. SideFits(p, n)
  <2>1. RoleFits(p, n)
    BY <1>1, <1>3, <1>4 DEF SideFits, RoleFits, HeaderAgents, CtAgents
  <2>2. SetsFit(n) /\ ActiveFits(n)
    BY <1>1 DEF SideFits, SetsFit, ActiveFits
  <2>3. RootsFit(p, n)
    BY <1>1, <1>3, <1>5, <1>6 DEF RootsFit
  <2> QED
    BY <1>3, <2>1, <2>2, <2>3 DEF SideFits
<1>8. \A g \in S : ~Placed(s, g)
  BY <1>1 DEF Placed, HasMixed
<1>9. SendingFits(p, n, S)
  <2>1. Len(s.scka.root) <= Len(n.scka.root) /\ n.ec.ns >= s.ec.ns
    <3>1. n.ec.ns = s.ec.ns + 1 /\ s.ec.ns \in Nat /\ s.epoch \in Nat
      BY <1>1, <1>4
    <3>2. Len(n.scka.root) = s.epoch /\ Len(s.scka.root) = s.epoch - 1
      BY <1>6
    <3> QED
      BY <3>1, <3>2
  <2>2. n.ec.dh = s.ec.dh /\ n.epoch = s.epoch
    BY <1>1
  <2>3. \A k \in 1 .. Len(s.scka.root) : n.scka.root[k] = s.scka.root[k]
    BY <1>6
  <2> HIDE DEF key
  <2> QED
    BY <1>7, <1>8, <2>1, <2>2, <2>3, FramesStay
<1>10. FrameFits(p, n, f)
  <2>1. SealedBefore(f, n)
    BY <1>1, <1>2, <1>4 DEF SealedBefore
  <2>2. f.epoch \in 1 .. Len(n.scka.root) /\ n.scka.root[f.epoch] = <<f.payload[1], f.epoch>>
    BY <1>2, <1>4, <1>6
  <2>3. f.epoch = n.epoch /\ Placed(n, f)
    BY <1>1, <1>2, <1>5 DEF Placed
  <2>4. f.from = p /\ f.epoch \in Nat /\ f.kind = "CT1" /\ f.index \in Nat
    BY <1>2, <1>4
  <2> HIDE DEF key
  <2> QED
    BY <2>1, <2>2, <2>3, <2>4 DEF FrameFits
<1>11. \A g \in S : Apart(f, g)
  <2> TAKE g \in S
  <2>1. FrameFits(p, s, g)
    BY DEF SendingFits
  <2>2. g.epoch # s.epoch /\ (g.seal = NoSeal \/ SealedBefore(g, s))
    BY <2>1, <1>4, <1>8 DEF FrameFits
  <2>3. <<f.kind, f.epoch, f.index>> # <<g.kind, g.epoch, g.index>>
    BY <2>2, <1>2
  <2>4. f.seal.n = s.ec.ns + 0
    BY <1>2, <1>4
  <2> QED
    BY <2>2, <2>3, <2>4, <1>2, <1>4, NewSeal
<1>12. SendingFits(p, n, S \cup out)
  BY <1>2, <1>9, <1>10, <1>11, FrameAdded
<1>13. Together(n, t) /\ Together(t, n)
  <2>1. /\ t.epoch \in Nat /\ t.epoch = s.epoch /\ t.agent \in HeaderAgents
    <3>1. t.epoch = s.epoch
      BY <1>1, <1>5, PairFacts
    <3>2. Facing(p) \in Sides /\ Heads(Facing(p), s.epoch)
      BY <1>4, TwoSides
    <3> QED
      BY <3>1, <3>2, <1>4, SideFacts
  <2>2. ~HasMixed(t) /\ Len(t.scka.root) = s.epoch - 1
    <3>1. ~HasMixed(t)
      BY <2>1 DEF HasMixed, HeaderAgents
    <3> QED
      BY <3>1, <2>1, TwoSides, SideFacts
  <2>3. t.agent # "EkSentCt1Received"
    BY <1>5 DEF Together
  <2>4. \A k \in 1 .. s.epoch - 1 : s.scka.root[k] = t.scka.root[k] /\ n.scka.root[k] = t.scka.root[k]
    BY <1>4, <1>6, <2>2 DEF Together
  <2>5. n.epoch = s.epoch /\ n.agent # "EkSentCt1Received" /\ s.epoch \in Nat
    BY <1>1, <1>4
  <2>6. Len(n.scka.root) = s.epoch
    BY <1>6
  <2>7. Together(n, t)
    BY <2>1, <2>2, <2>4, <2>5, <2>6 DEF Together
  <2>8. Together(t, n)
    BY <2>1, <2>2, <2>3, <2>4, <2>5, <2>6 DEF Together
  <2> QED
    BY <2>7, <2>8
<1> QED
  BY <1>7, <1>12, <1>13 DEF Goes

LEMMA EpochGoes ==
    ASSUME NEW p \in Sides, NEW s, NEW t, SideFits(p, s), SideFits(Facing(p), t),
           Together(s, t), Together(t, s), NEW S, SendingFits(p, s, S),
           s.phase = 0, NEW n, NEW out, Planned(s, n), DraftEpoch(p, s, n, out)
    PROVE  Goes(p, s, n, t, S \cup out)
<1> DEFINE key == <<s.tlvs[6], s.epoch>>
<1>1. /\ s.agent = "EkSentCt1Received" /\ n.agent = "NoHeaderReceived"
      /\ n.epoch = s.epoch + 1 /\ n.sendEpoch = s.sendEpoch /\ n.recvEpoch = s.epoch - 1
      /\ n.sets = {EmptySet("HDR", s.epoch + 1)}
      /\ n.auth = Append(s.auth, key) /\ n.scka.root = Append(s.scka.root, key)
      /\ n.scka.send = s.scka.send /\ n.scka.recv = Linked(s.scka.recv, s.epoch)
      /\ n.ec.dh > s.ec.dh \/ (n.ec.dh = s.ec.dh /\ n.ec.ns = s.ec.ns)
      /\ out = {}
  BY DEF DraftEpoch
<1>2. Shaped(n) /\ ReplaysFit(n) /\ DOMAIN n.tlvs = Tags(n.agent) /\ ChainsFit(n)
  BY PlannedFits
<1>3. s.epoch \in Nat \ {0} /\ s.ec.dh \in Nat \ {0} /\ s.ec.ns \in Nat /\ Len(s.scka.root) \in Nat
      /\ Heads(p, s.epoch)
  BY <1>1, SideFacts DEF HeaderAgents
<1>4. ~HasMixed(s) /\ ~HasMixed(n)
  BY <1>1 DEF HasMixed
<1>5. /\ Listed(n.scka.root) /\ n.auth = n.scka.root
      /\ Len(n.scka.root) = s.epoch /\ Len(s.scka.root) = s.epoch - 1
      /\ \A k \in 1 .. Len(s.scka.root) : n.scka.root[k] = s.scka.root[k]
      /\ n.scka.root[s.epoch] = key
      /\ n.scka.send \subseteq 1 .. s.epoch /\ n.scka.recv \subseteq 1 .. s.epoch
      /\ \A e \in n.scka.send : ~Heads(p, e)
      /\ \A e \in n.scka.recv : Heads(p, e)
      /\ s.epoch \in n.scka.send \cup n.scka.recv
  <2>1. Mixes(p, s, n, key)
    BY <1>1, <1>3 DEF Mixes
  <2>2. Mixed(p, s, n, key)
    BY <2>1, <1>4, KeysGrow
  <2> QED
    BY <2>2 DEF Mixed
<1>6. SideFits(p, n)
  <2>1. RoleFits(p, n)
    <3>1. ~Heads(p, n.epoch)
      <4>1. n.epoch = s.epoch + 1 /\ s.epoch \in Nat /\ Heads(p, s.epoch)
        BY <1>1, <1>3
      <4> QED
        BY <4>1, TwoSides
    <3>2. s.sendEpoch \in Nat /\ s.sendEpoch < s.epoch
      BY SideFacts DEF SideFits, RoleFits
    <3> QED
      BY <1>1, <1>2, <1>3, <3>1, <3>2 DEF RoleFits, CtAgents
  <2>2. SetsFit(n) /\ ActiveFits(n)
    BY <1>1 DEF SetsFit, ActiveFits, OneSet, SetFits, EmptySet
  <2>3. RootsFit(p, n)
    <3>1. Len(n.scka.root) = n.epoch - 1
      <4>1. n.epoch = s.epoch + 1 /\ s.epoch \in Nat
        BY <1>1, <1>3
      <4>2. Len(n.scka.root) = s.epoch
        BY <1>5
      <4> QED
        BY <4>1, <4>2
    <3> QED
      BY <1>1, <1>2, <1>4, <1>5, <3>1 DEF RootsFit
  <2> QED
    BY <1>2, <2>1, <2>2, <2>3 DEF SideFits
<1>7. SendingFits(p, n, S)
  <2>1. n.epoch > s.epoch /\ Len(s.scka.root) <= Len(n.scka.root)
    <3>1. n.epoch = s.epoch + 1 /\ s.epoch \in Nat
      BY <1>1, <1>3
    <3>2. Len(n.scka.root) = s.epoch /\ Len(s.scka.root) = s.epoch - 1
      BY <1>5
    <3> QED
      BY <3>1, <3>2
  <2>2. n.ec.dh > s.ec.dh \/ (n.ec.dh = s.ec.dh /\ n.ec.ns >= s.ec.ns)
    BY <1>1, <1>3
  <2> QED
    BY <1>5, <1>6, <2>1, <2>2, FramesStay
<1>8. Together(n, t) /\ Together(t, n)
  <2>1. /\ t.epoch = s.epoch /\ HasMixed(t) /\ t.scka.root[s.epoch] = key
    BY <1>1 DEF Together
  <2>2. Len(t.scka.root) = s.epoch
    BY <2>1, TwoSides, SideFacts
  <2>3. \A k \in 1 .. s.epoch : n.scka.root[k] = t.scka.root[k]
    <3> TAKE k \in 1 .. s.epoch
    <3>1. CASE k = s.epoch
      BY <3>1, <1>5, <2>1
    <3>2. CASE k # s.epoch
      <4>1. k \in 1 .. Len(s.scka.root) /\ k <= Len(t.scka.root)
        BY <3>2, <1>3, <1>5, <2>2
      <4> QED
        BY <4>1, <1>5 DEF Together
    <3> QED
      BY <3>1, <3>2
  <2>4. t.agent # "EkSentCt1Received"
    BY <2>1 DEF HasMixed
  <2>5. n.epoch = t.epoch + 1 /\ n.agent = "NoHeaderReceived" /\ t.epoch \in Nat
    BY <1>1, <1>3, <2>1
  <2>6. Len(n.scka.root) = s.epoch
    BY <1>5
  <2>7. Together(n, t)
    BY <2>1, <2>3, <2>5, <2>6 DEF Together
  <2>8. Together(t, n)
    BY <2>2, <2>3, <2>4, <2>5, <2>6 DEF Together
  <2> QED
    BY <2>7, <2>8
<1>9. S \cup out = S
  BY <1>1
<1> QED
  BY <1>6, <1>7, <1>8, <1>9 DEF Goes

LEMMA DraftGoes ==
    ASSUME NEW p \in Sides, NEW s, NEW t, SideFits(p, s), SideFits(Facing(p), t),
           Together(s, t), Together(t, s), NEW S, SendingFits(p, s, S),
           s.phase = 0, NEW n, NEW out, Planned(s, n), Draft(p, s, n, out)
    PROVE  Goes(p, s, n, t, S \cup out)
<1>1. DraftHeader(p, s, n, out) => Goes(p, s, n, t, S \cup out)
  BY HeaderGoes
<1>2. DraftChunk(p, s, n, out) => Goes(p, s, n, t, S \cup out)
  BY ChunkGoes
<1>3. DraftCt1(p, s, n, out) => Goes(p, s, n, t, S \cup out)
  BY Ct1Goes
<1>4. DraftEpoch(p, s, n, out) => Goes(p, s, n, t, S \cup out)
  BY EpochGoes
<1> QED
  BY <1>1, <1>2, <1>3, <1>4 DEF Draft

\* A step that only counts.
Alike(s, n) ==
    /\ n.agent = s.agent /\ n.epoch = s.epoch
    /\ n.sendEpoch = s.sendEpoch /\ n.recvEpoch = s.recvEpoch
    /\ n.sets = s.sets /\ n.active = s.active /\ n.tlvs = s.tlvs /\ n.auth = s.auth
    /\ n.scka = s.scka /\ n.ec = s.ec

LEMMA PhaseSet ==
    ASSUME NEW s, Shaped(s), NEW h \in 0 .. 2, NEW n, n = [s EXCEPT !.phase = h]
    PROVE  /\ Alike(s, n) /\ Shaped(n) /\ n.phase = h
           /\ n.generation = s.generation /\ n.replays = s.replays
BY DEF Shaped, Alike

LEMMA GenerationSet ==
    ASSUME NEW s, Shaped(s), NEW g \in Nat, NEW n, n = [s EXCEPT !.generation = g]
    PROVE  /\ Alike(s, n) /\ Shaped(n) /\ n.phase = s.phase
           /\ n.generation = g /\ n.replays = s.replays
BY DEF Shaped, Alike

LEMMA ReplaysSet ==
    ASSUME NEW s, Shaped(s), NEW R, NEW n, n = [s EXCEPT !.replays = R]
    PROVE  /\ Alike(s, n) /\ Shaped(n) /\ n.phase = s.phase
           /\ n.generation = s.generation /\ n.replays = R
BY DEF Shaped, Alike

LEMMA AlikeGoes ==
    ASSUME NEW p \in Sides, NEW s, NEW t, SideFits(p, s), Together(s, t), Together(t, s),
           NEW S, SendingFits(p, s, S), NEW n, Alike(s, n), Shaped(n), ReplaysFit(n)
    PROVE  Goes(p, s, n, t, S)
<1>1. /\ n.agent = s.agent /\ n.epoch = s.epoch
      /\ n.sendEpoch = s.sendEpoch /\ n.recvEpoch = s.recvEpoch
      /\ n.sets = s.sets /\ n.active = s.active /\ n.tlvs = s.tlvs /\ n.auth = s.auth
      /\ n.scka = s.scka /\ n.ec = s.ec
  BY DEF Alike
<1>2. RoleFits(p, n) /\ SetsFit(n) /\ ActiveFits(n) /\ RootsFit(p, n)
  <2>1. RoleFits(p, n)
    BY <1>1 DEF SideFits, RoleFits
  <2>2. SetsFit(n) /\ ActiveFits(n)
    BY <1>1 DEF SideFits, SetsFit, ActiveFits
  <2>3. RootsFit(p, n)
    BY <1>1 DEF SideFits, RootsFit, HasMixed, ChainsFit
  <2> QED
    BY <2>1, <2>2, <2>3
<1>3. SendingFits(p, n, S)
  BY <1>1 DEF SendingFits, FrameFits, SealedBefore, Placed, HasMixed
<1>4. Together(n, t) /\ Together(t, n)
  BY <1>1 DEF Together, HasMixed
<1> QED
  BY <1>2, <1>3, <1>4 DEF Goes, SideFits

-----------------------------------------------------------------------------
\* The pipeline.

LEMMA PrepareFits ==
    ASSUME BraidInv, NEW p \in Sides, NEW next, NEW out, Prepare(p, next, out),
           Shaped(next), next.generation = braid[p].generation,
           next.replays = braid[p].replays, Draft(p, braid[p], next, out)
    PROVE  BraidInv'
<1> DEFINE s == braid[p]
           r == [next EXCEPT !.replays = @ \cup {s.generation}, !.phase = 1]
           i == [kind |-> "prepared", next |-> r, out |-> out]
<1>1. /\ s.phase = 0 /\ intent[p] = NoIntent /\ Encodable(r)
      /\ intent' = [intent EXCEPT ![p] = i] /\ braid' = braid /\ frames' = frames
  BY DEF Prepare
<1>2. /\ EndFits(p, s, intent[p], frames)
      /\ Together(s, braid[Facing(p)]) /\ Together(braid[Facing(p)], s)
      /\ braid = [braid EXCEPT ![p] = s]
  BY BothFit
<1>3. /\ Alike(next, r) /\ Shaped(r) /\ r.replays = next.replays \cup {s.generation}
      /\ r.phase = 1 /\ r.generation = next.generation
  <2> DEFINE R == next.replays \cup {s.generation}
  <2>1. r = [next EXCEPT !.replays = R, !.phase = 1] /\ Shaped(next)
    OBVIOUS
  <2> HIDE DEF s, r, R
  <2>2. /\ Alike(next, r) /\ Shaped(r) /\ r.replays = R
        /\ r.phase = 1 /\ r.generation = next.generation
    <3> DEFINE m == [next EXCEPT !.replays = R]
    <3>1. r = [m EXCEPT !.phase = 1]
      BY <2>1
    <3>2. Shaped(next) /\ 1 \in 0 .. 2 /\ m = [next EXCEPT !.replays = R]
      BY <2>1
    <3> HIDE DEF m
    <3>3. /\ Alike(next, m) /\ Shaped(m) /\ m.replays = R /\ m.generation = next.generation
      BY <3>2, ReplaysSet
    <3>4. /\ Alike(m, r) /\ Shaped(r) /\ r.phase = 1
          /\ r.generation = m.generation /\ r.replays = m.replays
      <4>1. Shaped(m) /\ 1 \in 0 .. 2
        BY <3>3
      <4> HIDE DEF r
      <4> QED
        BY <3>1, <4>1, PhaseSet
    <3> QED
      BY <3>3, <3>4 DEF Alike
  <2> QED
    BY <2>2 DEF R
<1> HIDE DEF r
<1>4. Planned(s, r)
  BY <1>1, <1>3 DEF Planned
<1>5. Draft(p, s, r, out)
  <2>1. Draft(p, s, next, out)
    OBVIOUS
  <2> HIDE DEF s
  <2>2. DraftHeader(p, s, next, out) => DraftHeader(p, s, r, out)
    BY <1>3 DEF Alike, DraftHeader
  <2>3. DraftChunk(p, s, next, out) => DraftChunk(p, s, r, out)
    BY <1>3 DEF Alike, DraftChunk
  <2>4. DraftCt1(p, s, next, out) => DraftCt1(p, s, r, out)
    BY <1>3 DEF Alike, DraftCt1
  <2>5. DraftEpoch(p, s, next, out) => DraftEpoch(p, s, r, out)
    BY <1>3 DEF Alike, DraftEpoch
  <2> QED
    BY <2>1, <2>2, <2>3, <2>4, <2>5 DEF Draft
<1>6. i.kind = "prepared" /\ i.next = r /\ i.out = out
  OBVIOUS
<1>7. i = [kind |-> "prepared", next |-> i.next, out |-> i.out]
  OBVIOUS
<1> HIDE DEF i
<1>8. IntentFits(p, s, i, frames)
  BY <1>1, <1>4, <1>5, <1>6, <1>7 DEF IntentFits
<1>9. Sent(p, i, frames) = Sent(p, intent[p], frames)
  BY <1>1, <1>6 DEF Sent, NoIntent
<1>10. EndFits(p, s, i, frames')
  BY <1>1, <1>2, <1>8, <1>9 DEF EndFits
<1>11. braid' = [braid EXCEPT ![p] = s]
  BY <1>1, <1>2
<1> HIDE DEF s
<1> QED
  BY <1>1, <1>2, <1>10, <1>11, SideMoves

\* Which kinds of intent there are.
LEMMA IntentKinds ==
    ASSUME NEW p, NEW s, NEW i, NEW F, IntentFits(p, s, i, F)
    PROVE  /\ i.kind \in {"none", "prepared", "persisted"}
           /\ i.kind = "none" => i = NoIntent /\ s.phase = 0
           /\ i.kind = "prepared" =>
                 /\ i = [kind |-> "prepared", next |-> i.next, out |-> i.out]
                 /\ s.phase = 0 /\ Planned(s, i.next) /\ Draft(p, s, i.next, i.out)
           /\ i.kind = "persisted" =>
                 /\ i = [kind |-> "persisted", next |-> i.next, out |-> i.out]
                 /\ s.phase # 0 /\ (s.phase = 2 => i.out \subseteq F)
<1>1. CASE i = NoIntent /\ s.phase = 0
  BY <1>1 DEF NoIntent
<1>2. CASE /\ i = [kind |-> "prepared", next |-> i.next, out |-> i.out] /\ s.phase = 0
           /\ Planned(s, i.next) /\ Draft(p, s, i.next, i.out)
  <2>1. i.kind = "prepared"
    BY <1>2
  <2> QED
    BY <1>2, <2>1
<1>3. CASE /\ i = [kind |-> "persisted", next |-> i.next, out |-> i.out] /\ s.phase # 0
           /\ s.phase = 2 => i.out \subseteq F
  <2>1. i.kind = "persisted"
    BY <1>3
  <2> QED
    BY <1>3, <2>1
<1> QED
  BY <1>1, <1>2, <1>3 DEF IntentFits

LEMMA PersistFits ==
    ASSUME BraidInv, NEW p \in Sides, Persist(p)
    PROVE  BraidInv'
<1> DEFINE s == braid[p]
           i == intent[p]
           j == [i EXCEPT !.kind = "persisted"]
           n == i.next
           t == braid[Facing(p)]
<1>1. /\ i.kind = "prepared" /\ braid' = [braid EXCEPT ![p] = n]
      /\ intent' = [intent EXCEPT ![p].kind = "persisted"] /\ frames' = frames
  BY DEF Persist
<1>2. intent' = [intent EXCEPT ![p] = j]
  BY <1>1
<1>3. /\ EndFits(p, s, i, frames) /\ EndFits(Facing(p), t, intent[Facing(p)], frames)
      /\ Together(s, t) /\ Together(t, s)
  BY BothFit
<1> HIDE DEF s, t
<1>4. SideFits(p, s) /\ SideFits(Facing(p), t) /\ IntentFits(p, s, i, frames)
      /\ SendingFits(p, s, Sent(p, i, frames))
  BY <1>3 DEF EndFits
<1>5. /\ i = [kind |-> "prepared", next |-> n, out |-> i.out]
      /\ s.phase = 0 /\ Planned(s, n) /\ Draft(p, s, n, i.out)
  BY <1>1, <1>4, IntentKinds
<1>6. j = [kind |-> "persisted", next |-> j.next, out |-> j.out] /\ j.out = i.out
  BY <1>5
<1>7. j.kind = "persisted"
  BY <1>6
<1> HIDE DEF j
<1>8. Goes(p, s, n, t, Sent(p, i, frames) \cup i.out)
  BY <1>3, <1>4, <1>5, DraftGoes
<1> HIDE DEF i
<1>9. Sent(p, j, frames) = Sent(p, i, frames) \cup i.out
  BY <1>1, <1>6, <1>7 DEF Sent
<1>10. IntentFits(p, n, j, frames)
  <2>1. n.phase = 1
    BY <1>5 DEF Planned
  <2> QED
    BY <1>6, <2>1 DEF IntentFits
<1>11. EndFits(p, n, j, frames')
  BY <1>1, <1>8, <1>9, <1>10 DEF EndFits, Goes
<1> QED
  BY <1>1, <1>2, <1>8, <1>11, SideMoves DEF Goes, t

LEMMA PromoteFits ==
    ASSUME BraidInv, NEW p \in Sides, Promote(p)
    PROVE  BraidInv'
<1> DEFINE s == braid[p]
           i == intent[p]
           n == [s EXCEPT !.phase = 2]
           t == braid[Facing(p)]
           S == Sent(p, i, frames)
<1>1. /\ i.kind = "persisted" /\ s.phase = 1 /\ braid' = [braid EXCEPT ![p] = n]
      /\ frames' = frames \cup i.out
      /\ intent' = intent
  BY DEF Promote
<1>2. /\ EndFits(p, s, i, frames) /\ Together(s, t) /\ Together(t, s)
      /\ intent' = [intent EXCEPT ![p] = i]
  BY <1>1, BothFit
<1> HIDE DEF s, t, i
<1>3. SideFits(p, s) /\ IntentFits(p, s, i, frames) /\ SendingFits(p, s, S)
  BY <1>2 DEF EndFits
<1>4. i = [kind |-> "persisted", next |-> i.next, out |-> i.out]
  BY <1>1, <1>3, IntentKinds
<1>5. Alike(s, n) /\ Shaped(n) /\ n.phase = 2 /\ n.generation = s.generation /\ n.replays = s.replays
  BY <1>3 DEF SideFits, Shaped, Alike
<1> HIDE DEF n
<1>6. ReplaysFit(n)
  <2>1. s.phase # 0 /\ n.phase # 0
    BY <1>1, <1>5
  <2> QED
    BY <1>3, <1>5, <2>1 DEF SideFits, ReplaysFit
<1>7. Goes(p, s, n, t, S)
  BY <1>2, <1>3, <1>5, <1>6, AlikeGoes
<1>8. \A f \in i.out : f \in S /\ f.from = p
  <2>1. i.out \subseteq S
    BY <1>1 DEF Sent
  <2>2. \A f \in S : f.from = p
    BY <1>3 DEF SendingFits, FrameFits
  <2> QED
    BY <2>1, <2>2
<1>9. Sent(p, i, frames') = S
  BY <1>1, <1>8 DEF Sent
<1>10. IntentFits(p, n, i, frames')
  BY <1>1, <1>4, <1>5 DEF IntentFits
<1>11. EndFits(p, n, i, frames')
  BY <1>7, <1>9, <1>10 DEF EndFits, Goes
<1>12. frames \subseteq frames' /\ \A f \in frames' : f \in frames \/ f.from = p
  BY <1>1, <1>8
<1> QED
  BY <1>1, <1>2, <1>7, <1>11, <1>12, SideMoves DEF Goes, t

LEMMA ClearFits ==
    ASSUME BraidInv, NEW p \in Sides, Clear(p)
    PROVE  BraidInv'
<1> DEFINE s == braid[p]
           i == intent[p]
           n == [s EXCEPT !.phase = 0, !.generation = @ + 1]
           t == braid[Facing(p)]
           S == Sent(p, i, frames)
<1>1. /\ s.phase = 2 /\ frames' = frames /\ intent' = [intent EXCEPT ![p] = NoIntent]
      /\ braid' = [braid EXCEPT ![p].phase = 0, ![p].generation = @ + 1]
  BY DEF Clear
<1>2. braid' = [braid EXCEPT ![p] = n]
  BY <1>1 DEF BraidInv
<1>3. /\ EndFits(p, s, i, frames) /\ Together(s, t) /\ Together(t, s)
  BY BothFit
<1> HIDE DEF s, t, i
<1>4. SideFits(p, s) /\ IntentFits(p, s, i, frames) /\ SendingFits(p, s, S)
  BY <1>3 DEF EndFits
<1>5. i.kind = "persisted" /\ i.out \subseteq frames
  BY <1>1, <1>4, IntentKinds
<1>6. s.generation \in Nat
  BY <1>4, SideFacts
<1>7. Alike(s, n) /\ Shaped(n) /\ n.phase = 0 /\ n.generation = s.generation + 1
      /\ n.replays = s.replays
  <2> DEFINE g == s.generation + 1
  <2>1. g \in Nat
    BY <1>6
  <2>2. n = [s EXCEPT !.phase = 0, !.generation = g]
    OBVIOUS
  <2> HIDE DEF g, n
  <2>3. Alike(s, n) /\ Shaped(n) /\ n.phase = 0 /\ n.generation = g /\ n.replays = s.replays
    <3> DEFINE m == [s EXCEPT !.phase = 0]
    <3>1. n = [m EXCEPT !.generation = g]
      BY <2>2
    <3>2. Shaped(s) /\ 0 \in 0 .. 2 /\ m = [s EXCEPT !.phase = 0]
      BY <1>4 DEF SideFits
    <3> HIDE DEF m
    <3>4. Alike(s, m) /\ Shaped(m) /\ m.phase = 0 /\ m.replays = s.replays
      BY <3>2, PhaseSet
    <3>3. Alike(m, n) /\ Shaped(n) /\ n.phase = m.phase /\ n.generation = g /\ n.replays = m.replays
      BY <2>1, <3>1, <3>4, GenerationSet
    <3> QED
      BY <3>3, <3>4 DEF Alike
  <2> QED
    BY <2>3 DEF g
<1> HIDE DEF n
<1>8. ReplaysFit(n)
  <2>1. s.replays = 0 .. s.generation /\ Cardinality(s.replays) <= MaxReplays
    BY <1>1, <1>4 DEF SideFits, ReplaysFit
  <2>2. n.generation - 1 = s.generation
    BY <1>6, <1>7
  <2> QED
    BY <1>7, <2>1, <2>2 DEF ReplaysFit
<1>9. Goes(p, s, n, t, S)
  BY <1>3, <1>4, <1>7, <1>8, AlikeGoes
<1>10. Sent(p, NoIntent, frames') = S
  <2>1. \A f \in i.out : f.from = p
    BY <1>4, <1>5 DEF SendingFits, FrameFits, Sent
  <2> QED
    BY <1>1, <1>5, <2>1 DEF Sent, NoIntent
<1>11. IntentFits(p, n, NoIntent, frames')
  BY <1>7 DEF IntentFits
<1>12. EndFits(p, n, NoIntent, frames')
  BY <1>9, <1>10, <1>11 DEF EndFits, Goes
<1> QED
  BY <1>1, <1>2, <1>9, <1>12, SideMoves DEF Goes, t

LEMMA CrashFits ==
    ASSUME BraidInv, NEW p \in Sides, BraidCrash(p)
    PROVE  BraidInv'
<1> DEFINE s == braid[p]
           t == braid[Facing(p)]
<1>1. /\ intent[p].kind = "prepared" /\ intent' = [intent EXCEPT ![p] = NoIntent]
      /\ braid' = braid /\ frames' = frames
  BY DEF BraidCrash
<1>2. /\ EndFits(p, s, intent[p], frames) /\ Together(s, t) /\ Together(t, s)
      /\ braid' = [braid EXCEPT ![p] = s]
  BY <1>1, BothFit
<1>3. s.phase = 0
  BY <1>1, <1>2, IntentKinds DEF EndFits
<1>4. IntentFits(p, s, NoIntent, frames)
  BY <1>3 DEF IntentFits
<1>5. Sent(p, NoIntent, frames) = Sent(p, intent[p], frames)
  BY <1>1 DEF Sent, NoIntent
<1>6. EndFits(p, s, NoIntent, frames')
  BY <1>1, <1>2, <1>4, <1>5 DEF EndFits
<1> HIDE DEF s
<1> QED
  BY <1>1, <1>2, <1>6, SideMoves DEF t

-----------------------------------------------------------------------------
\* The four transitions of the agent.

LEMMA HeaderDrafted ==
    ASSUME BraidInv, NEW p \in Sides, KeysUnsampledSend(p)
    PROVE  BraidInv'
<1> DEFINE s == braid[p]
           keys == Sampled(p)
           T == [t \in Tags("KeysSampled") |-> keys]
           M == <<keys, Mac(braid[p], keys)>>
           a == [kind |-> "HDR", source |-> M, next |-> 0]
           u == [s EXCEPT !.agent = "KeysSampled", !.sendEpoch = s.epoch - 1, !.tlvs = T, !.active = a]
           n == [u EXCEPT !.active.next = 1]
           out == {Emitted(p, u, NoSeal)}
<1>1. s.agent = "KeysUnsampled" /\ Prepare(p, n, out)
  BY DEF KeysUnsampledSend
<1>2. SideFits(p, s)
  BY BothFit DEF EndFits
<1> HIDE DEF s, T, M
<1>3. Shaped(s) /\ s.epoch \in Nat \ {0} /\ s.epoch - 1 \in Nat
  BY <1>2, SideFacts DEF SideFits
<1>4. /\ Shaped(u) /\ u.agent = "KeysSampled" /\ u.sendEpoch = s.epoch - 1 /\ u.active = a
      /\ u.epoch = s.epoch /\ u.recvEpoch = s.recvEpoch
      /\ u.sets = s.sets /\ u.auth = s.auth /\ u.scka = s.scka /\ u.ec = s.ec
      /\ u.generation = s.generation /\ u.replays = s.replays
  <2> HIDE DEF a
  <2> QED
    BY <1>3 DEF Shaped
<1>5. n = [u EXCEPT !.active = [kind |-> "HDR", source |-> M, next |-> 1]]
  <2>1. [u.active EXCEPT !.next = 1] = [kind |-> "HDR", source |-> M, next |-> 1]
    BY <1>4
  <2>2. n = [u EXCEPT !.active = [u.active EXCEPT !.next = 1]]
    OBVIOUS
  <2> QED
    BY <2>1, <2>2
<1> HIDE DEF u
<1>6. /\ Shaped(n) /\ n.agent = u.agent /\ n.sendEpoch = u.sendEpoch
      /\ n.active = [kind |-> "HDR", source |-> M, next |-> 1]
      /\ n.epoch = u.epoch /\ n.recvEpoch = u.recvEpoch
      /\ n.sets = u.sets /\ n.auth = u.auth /\ n.scka = u.scka /\ n.ec = u.ec
      /\ n.generation = u.generation /\ n.replays = u.replays
  <2> DEFINE b == [kind |-> "HDR", source |-> M, next |-> 1]
  <2>1. n = [u EXCEPT !.active = b]
    BY <1>5
  <2> HIDE DEF b, n
  <2>2. /\ Shaped(n) /\ n.agent = u.agent /\ n.sendEpoch = u.sendEpoch /\ n.active = b
        /\ n.epoch = u.epoch /\ n.recvEpoch = u.recvEpoch
        /\ n.sets = u.sets /\ n.auth = u.auth /\ n.scka = u.scka /\ n.ec = u.ec
        /\ n.generation = u.generation /\ n.replays = u.replays
    BY <1>4, <2>1 DEF Shaped
  <2> QED
    BY <2>2 DEF b
<1> HIDE DEF n
<1>7. DraftHeader(p, s, n, out)
  <2> DEFINE f == Emitted(p, u, NoSeal)
  <2>1. /\ f.from = p /\ f.kind = "HDR" /\ f.epoch = s.epoch /\ f.index = 0 /\ f.seal = NoSeal
    BY <1>4 DEF Emitted
  <2>2. out = {f} /\ f \in out
    OBVIOUS
  <2>3. n.active = [kind |-> "HDR", source |-> n.active.source, next |-> 1]
    BY <1>6
  <2> HIDE DEF f, out
  <2> QED
    BY <1>1, <1>4, <1>6, <2>1, <2>2, <2>3 DEF DraftHeader
<1>8. Shaped(n) /\ n.generation = s.generation /\ n.replays = s.replays /\ Draft(p, s, n, out)
  BY <1>4, <1>6, <1>7 DEF Draft
<1> HIDE DEF out
<1> QED
  BY <1>1, <1>8, PrepareFits DEF s

\* A chunk goes into the one set that is open.
LEMMA Insertion ==
    ASSUME NEW s, NEW f, OneSet(s.sets, f.kind, s.epoch), f.epoch = s.epoch, ~Conflicts(s, f)
    PROVE  \E S : Inserted(s, f) = [s EXCEPT !.sets = S] /\ OneSet(S, f.kind, s.epoch)
<1> DEFINE old == SetOf(s, f)
           c == [index |-> f.index, payload |-> f.payload]
           new == [old EXCEPT !.chunks = @ \cup {c}]
           S == (s.sets \ {old}) \cup {new}
<1>1. Inserted(s, f) = [s EXCEPT !.sets = S]
  BY DEF Inserted
<1>2. SetFits(old, f.kind, s.epoch) /\ s.sets \ {old} = {}
  <2>1. CASE \E i \in s.sets : i.kind = f.kind /\ i.epoch = f.epoch
    <3>1. old \in s.sets
      BY <2>1 DEF SetOf
    <3> HIDE DEF old
    <3> QED
      BY <3>1 DEF OneSet
  <2>2. CASE ~ \E i \in s.sets : i.kind = f.kind /\ i.epoch = f.epoch
    <3>1. old = [kind |-> f.kind, epoch |-> f.epoch, chunks |-> {}]
      BY <2>2 DEF SetOf, EmptySet
    <3>2. \A i \in s.sets : i.kind = f.kind /\ i.epoch = s.epoch
      BY DEF OneSet, SetFits
    <3>3. s.sets = {}
      BY <2>2, <3>2
    <3> HIDE DEF old
    <3> QED
      BY <3>1, <3>3 DEF SetFits
  <2> QED
    BY <2>1, <2>2
<1>3. \A d \in old.chunks : d.index = f.index => d.payload = f.payload
  BY DEF Conflicts
<1> HIDE DEF old
<1>4. SetFits(new, f.kind, s.epoch)
  <2>1. /\ old = [kind |-> f.kind, epoch |-> s.epoch, chunks |-> old.chunks]
        /\ \A d \in old.chunks : d = [index |-> d.index, payload |-> d.payload]
        /\ \A d, e \in old.chunks : d.index = e.index => d = e
    BY <1>2 DEF SetFits
  <2>2. /\ new = [kind |-> f.kind, epoch |-> s.epoch, chunks |-> new.chunks]
        /\ new.chunks = old.chunks \cup {c}
    <3> DEFINE C == old.chunks
    <3>1. old = [kind |-> f.kind, epoch |-> s.epoch, chunks |-> C]
      BY <2>1
    <3> HIDE DEF C, c
    <3>2. new = [kind |-> f.kind, epoch |-> s.epoch, chunks |-> C \cup {c}]
      BY <3>1
    <3> HIDE DEF new
    <3> QED
      BY <3>2 DEF C
  <2>3. c.index = f.index /\ c.payload = f.payload
    OBVIOUS
  <2>4. \A d \in old.chunks : d.index = c.index => d = c
    BY <2>1, <2>3, <1>3
  <2>5. c = [index |-> c.index, payload |-> c.payload]
    OBVIOUS
  <2> HIDE DEF new, c
  <2> QED
    BY <2>1, <2>2, <2>4, <2>5 DEF SetFits
<1>5. OneSet(S, f.kind, s.epoch)
  <2>1. S = {new}
    BY <1>2
  <2> HIDE DEF S, new
  <2> QED
    BY <2>1, <1>4 DEF OneSet
<1> HIDE DEF S
<1> QED
  BY <1>1, <1>5

\* Only the sets of a state change.
LEMMA SetsSet ==
    ASSUME NEW s, Shaped(s), NEW S, NEW n, n = [s EXCEPT !.sets = S]
    PROVE  /\ Shaped(n) /\ n.sets = S
           /\ n.agent = s.agent /\ n.epoch = s.epoch
           /\ n.sendEpoch = s.sendEpoch /\ n.recvEpoch = s.recvEpoch
           /\ n.active = s.active /\ n.tlvs = s.tlvs /\ n.auth = s.auth
           /\ n.scka = s.scka /\ n.ec = s.ec
           /\ n.generation = s.generation /\ n.phase = s.phase /\ n.replays = s.replays
BY DEF Shaped

LEMMA ChunkDrafted ==
    ASSUME BraidInv, NEW p \in Sides, HdrReceive(p)
    PROVE  BraidInv'
<1> DEFINE s == braid[p]
<1>1. SideFits(p, s)
  BY BothFit DEF EndFits
<1>2. PICK f \in Bound(p, "HDR") :
        /\ s.agent = "NoHeaderReceived"
        /\ \E i \in s.sets : s.sets = {i} /\ i.kind = "HDR" /\ i.chunks = {}
        /\ Prepare(p, [Inserted(s, f) EXCEPT !.recvEpoch = s.epoch - 1], {})
  BY DEF HdrReceive
<1>3. f.kind = "HDR" /\ f.epoch = s.epoch
  BY DEF Bound
<1> DEFINE n == [Inserted(s, f) EXCEPT !.recvEpoch = s.epoch - 1]
<1> HIDE DEF s
<1>4. Shaped(s) /\ s.epoch - 1 \in Nat /\ OneSet(s.sets, "HDR", s.epoch)
  <2>1. Shaped(s) /\ SetsFit(s) /\ s.epoch \in Nat \ {0}
    BY <1>1, SideFacts DEF SideFits
  <2>2. OneSet(s.sets, "HDR", s.epoch)
    BY <1>2, <2>1 DEF SetsFit
  <2> QED
    BY <2>1, <2>2
<1>5. ~Conflicts(s, f)
  <2>1. PICK i \in s.sets : s.sets = {i} /\ i.kind = "HDR" /\ i.chunks = {}
    BY <1>2
  <2>2. i.epoch = s.epoch
    BY <1>4 DEF OneSet, SetFits
  <2>3. SetOf(s, f) = i
    BY <1>3, <2>1, <2>2 DEF SetOf
  <2> QED
    BY <2>1, <2>3 DEF Conflicts
<1>6. PICK S : Inserted(s, f) = [s EXCEPT !.sets = S] /\ OneSet(S, "HDR", s.epoch)
  BY <1>3, <1>4, <1>5, Insertion
<1> DEFINE u == Inserted(s, f)
<1>7. /\ Shaped(u) /\ u.sets = S
      /\ u.agent = s.agent /\ u.epoch = s.epoch /\ u.sendEpoch = s.sendEpoch
      /\ u.auth = s.auth /\ u.scka = s.scka /\ u.ec = s.ec
      /\ u.generation = s.generation /\ u.replays = s.replays
  BY <1>4, <1>6, SetsSet
<1>8. n = [u EXCEPT !.recvEpoch = s.epoch - 1]
  OBVIOUS
<1> HIDE DEF u, n
<1>9. /\ Shaped(n) /\ n.sets = S /\ n.recvEpoch = s.epoch - 1
      /\ n.agent = s.agent /\ n.epoch = s.epoch /\ n.sendEpoch = s.sendEpoch
      /\ n.auth = s.auth /\ n.scka = s.scka /\ n.ec = s.ec
      /\ n.generation = s.generation /\ n.replays = s.replays
  BY <1>4, <1>7, <1>8 DEF Shaped
<1>10. Draft(p, s, n, {})
  BY <1>2, <1>6, <1>9 DEF Draft, DraftChunk
<1> QED
  BY <1>2, <1>9, <1>10, PrepareFits DEF s, n

\* The chains, the counters and the authenticator of a state change.
LEMMA ChainSet ==
    ASSUME NEW s, Shaped(s), NEW R, NEW S, NEW V, NEW n,
           n = [s EXCEPT !.scka = [root |-> R, send |-> S, recv |-> V]]
    PROVE  /\ Shaped(n) /\ n.scka.root = R /\ n.scka.send = S /\ n.scka.recv = V
           /\ n.agent = s.agent /\ n.epoch = s.epoch
           /\ n.sendEpoch = s.sendEpoch /\ n.recvEpoch = s.recvEpoch
           /\ n.sets = s.sets /\ n.active = s.active /\ n.tlvs = s.tlvs /\ n.auth = s.auth
           /\ n.ec = s.ec /\ n.generation = s.generation /\ n.replays = s.replays
BY DEF Shaped

LEMMA AuthSet ==
    ASSUME NEW s, Shaped(s), NEW key, NEW n, n = AuthUpdated(s, key)
    PROVE  /\ Shaped(n) /\ n.auth = Append(s.auth, key)
           /\ n.agent = s.agent /\ n.epoch = s.epoch
           /\ n.sendEpoch = s.sendEpoch /\ n.recvEpoch = s.recvEpoch
           /\ n.sets = s.sets /\ n.active = s.active /\ n.tlvs = s.tlvs
           /\ n.scka = s.scka /\ n.ec = s.ec
           /\ n.generation = s.generation /\ n.replays = s.replays
<1> DEFINE A == Append(s.auth, key)
<1>1. n = [s EXCEPT !.auth = A]
  BY DEF AuthUpdated
<1> HIDE DEF A
<1>2. /\ Shaped(n) /\ n.auth = A
      /\ n.agent = s.agent /\ n.epoch = s.epoch
      /\ n.sendEpoch = s.sendEpoch /\ n.recvEpoch = s.recvEpoch
      /\ n.sets = s.sets /\ n.active = s.active /\ n.tlvs = s.tlvs
      /\ n.scka = s.scka /\ n.ec = s.ec
      /\ n.generation = s.generation /\ n.replays = s.replays
  BY <1>1 DEF Shaped
<1> QED
  BY <1>2 DEF A

LEMMA CountersSet ==
    ASSUME NEW s, Shaped(s), NEW dh \in Nat \ {0}, NEW ns \in Nat, NEW dhr, NEW nr, NEW pn, NEW n,
           n = [s EXCEPT !.ec = [dh |-> dh, dhr |-> dhr, ns |-> ns, nr |-> nr, pn |-> pn]]
    PROVE  /\ Shaped(n) /\ n.ec.dh = dh /\ n.ec.ns = ns
           /\ n.agent = s.agent /\ n.epoch = s.epoch
           /\ n.sendEpoch = s.sendEpoch /\ n.recvEpoch = s.recvEpoch
           /\ n.sets = s.sets /\ n.active = s.active /\ n.tlvs = s.tlvs /\ n.auth = s.auth
           /\ n.scka = s.scka /\ n.generation = s.generation /\ n.replays = s.replays
           /\ n.phase = s.phase
BY DEF Shaped

LEMMA CountersAre ==
    ASSUME NEW s, Shaped(s)
    PROVE  /\ s.ec = [dh |-> s.ec.dh, dhr |-> s.ec.dhr, ns |-> s.ec.ns, nr |-> s.ec.nr,
                      pn |-> s.ec.pn]
           /\ s.ec.dh \in Nat \ {0} /\ s.ec.ns \in Nat
           /\ s.scka = [root |-> s.scka.root, send |-> s.scka.send, recv |-> s.scka.recv]
BY DEF Shaped

LEMMA Ct1Drafted ==
    ASSUME BraidInv, NEW p \in Sides, HeaderReceivedSend(p)
    PROVE  BraidInv'
<1> DEFINE s == braid[p]
           keys == s.tlvs[2]
           secret == <<keys, Sampled(p)>>
           key == OutputKey(secret, s.epoch)
           T == [t \in Tags("Ct1Sampled") |-> IF t \in {2, 3} THEN keys ELSE secret]
           a == [kind |-> "CT1", source |-> secret, next |-> 0]
           v == AuthUpdated(s, key)
           u == [v EXCEPT !.agent = "Ct1Sampled", !.tlvs = T, !.active = a]
           w == Confirmed(u)
           x == MixedSend(w, key)
           n == [x EXCEPT !.active.next = 1, !.sendEpoch = s.epoch - 1]
           out == {Emitted(p, u, Sealed(u, key))}
<1>1. s.agent = "HeaderReceived" /\ Prepare(p, n, out)
  BY DEF HeaderReceivedSend
<1>2. SideFits(p, s)
  BY BothFit DEF EndFits
<1>3. T[6] = secret
  BY DEF Tags
<1>4. key = <<secret, s.epoch>>
  BY DEF OutputKey
<1> HIDE DEF s, T, secret, key
<1>5. Shaped(s) /\ s.epoch - 1 \in Nat
  BY <1>2, SideFacts DEF SideFits
<1>6. /\ Shaped(v) /\ v.auth = Append(s.auth, key)
      /\ v.epoch = s.epoch /\ v.recvEpoch = s.recvEpoch /\ v.sets = s.sets
      /\ v.scka = s.scka /\ v.ec = s.ec
      /\ v.generation = s.generation /\ v.replays = s.replays
  BY <1>5, AuthSet
<1> HIDE DEF v
<1>7. /\ Shaped(u) /\ u.agent = "Ct1Sampled" /\ u.tlvs = T /\ u.active = a
      /\ u.auth = v.auth /\ u.epoch = v.epoch /\ u.recvEpoch = v.recvEpoch /\ u.sets = v.sets
      /\ u.scka = v.scka /\ u.ec = v.ec
      /\ u.generation = v.generation /\ u.replays = v.replays
  <2> HIDE DEF a
  <2> QED
    BY <1>6 DEF Shaped
<1> HIDE DEF u
<1>8. /\ Shaped(w) /\ w.ec.dh = u.ec.dh /\ w.ec.ns = u.ec.ns + 1
      /\ w.agent = u.agent /\ w.tlvs = u.tlvs /\ w.active = u.active
      /\ w.auth = u.auth /\ w.epoch = u.epoch /\ w.recvEpoch = u.recvEpoch /\ w.sets = u.sets
      /\ w.scka = u.scka /\ w.generation = u.generation /\ w.replays = u.replays
  <2> DEFINE ns == u.ec.ns + 1
             e == [dh |-> u.ec.dh, dhr |-> u.ec.dhr, ns |-> ns, nr |-> u.ec.nr, pn |-> u.ec.pn]
  <2>1. /\ u.ec = [dh |-> u.ec.dh, dhr |-> u.ec.dhr, ns |-> u.ec.ns, nr |-> u.ec.nr, pn |-> u.ec.pn]
        /\ u.ec.dh \in Nat \ {0} /\ ns \in Nat
    <3>1. u.ec = [dh |-> u.ec.dh, dhr |-> u.ec.dhr, ns |-> u.ec.ns, nr |-> u.ec.nr, pn |-> u.ec.pn]
      BY <1>7, CountersAre, Zenon
    <3>2. u.ec.dh \in Nat \ {0} /\ u.ec.ns \in Nat
      BY <1>7, CountersAre, Zenon
    <3> QED
      BY <3>1, <3>2
  <2>2. [u.ec EXCEPT !.ns = ns] = e
    <3> HIDE DEF ns
    <3> QED
      BY <2>1
  <2>3. w = [u EXCEPT !.ec = [u.ec EXCEPT !.ns = ns]]
    BY DEF Confirmed
  <2>4. w = [u EXCEPT !.ec = e]
    BY <2>2, <2>3
  <2> HIDE DEF ns, w
  <2> QED
    BY <2>1, <2>4, <1>7, CountersSet DEF ns
<1> HIDE DEF w
<1>9. /\ Shaped(x)
      /\ x.scka.root = Append(w.scka.root, key) /\ x.scka.send = Linked(w.scka.send, w.epoch)
      /\ x.scka.recv = w.scka.recv
      /\ x.agent = w.agent /\ x.tlvs = w.tlvs /\ x.active = w.active
      /\ x.auth = w.auth /\ x.epoch = w.epoch /\ x.recvEpoch = w.recvEpoch /\ x.sets = w.sets
      /\ x.ec = w.ec /\ x.generation = w.generation /\ x.replays = w.replays
  <2> DEFINE R == Append(w.scka.root, key)
             L == Linked(w.scka.send, w.epoch)
  <2>1. x = [w EXCEPT !.scka = [root |-> R, send |-> L, recv |-> w.scka.recv]]
    BY DEF MixedSend
  <2> HIDE DEF R, L, x
  <2>2. x.scka.root = R /\ x.scka.send = L
    BY <2>1, <1>8, ChainSet
  <2>3. /\ Shaped(x) /\ x.scka.recv = w.scka.recv
        /\ x.agent = w.agent /\ x.tlvs = w.tlvs /\ x.active = w.active
        /\ x.auth = w.auth /\ x.epoch = w.epoch /\ x.recvEpoch = w.recvEpoch /\ x.sets = w.sets
        /\ x.ec = w.ec /\ x.generation = w.generation /\ x.replays = w.replays
    BY <2>1, <1>8, ChainSet
  <2> QED
    BY <2>2, <2>3 DEF R, L
<1> HIDE DEF x
<1>10. /\ Shaped(n) /\ n.sendEpoch = s.epoch - 1
       /\ n.agent = x.agent /\ n.tlvs = x.tlvs /\ n.auth = x.auth /\ n.epoch = x.epoch
       /\ n.recvEpoch = x.recvEpoch /\ n.sets = x.sets /\ n.scka = x.scka /\ n.ec = x.ec
       /\ n.generation = x.generation /\ n.replays = x.replays
  <2> DEFINE b == [x.active EXCEPT !.next = 1]
             e == s.epoch - 1
  <2>1. n = [x EXCEPT !.active = b, !.sendEpoch = e]
    OBVIOUS
  <2>2. e \in Nat
    BY <1>5
  <2> HIDE DEF b, e, n
  <2>3. /\ Shaped(n) /\ n.sendEpoch = e
        /\ n.agent = x.agent /\ n.tlvs = x.tlvs /\ n.auth = x.auth /\ n.epoch = x.epoch
        /\ n.recvEpoch = x.recvEpoch /\ n.sets = x.sets /\ n.scka = x.scka /\ n.ec = x.ec
        /\ n.generation = x.generation /\ n.replays = x.replays
    BY <1>9, <2>1, <2>2 DEF Shaped
  <2> QED
    BY <2>3 DEF e
<1> HIDE DEF n
<1>11. key = <<n.tlvs[6], s.epoch>>
  BY <1>3, <1>4, <1>7, <1>8, <1>9, <1>10
<1>12. DraftCt1(p, s, n, out)
  <2> DEFINE f == Emitted(p, u, Sealed(u, key))
  <2>1. /\ f.from = p /\ f.kind = "CT1" /\ f.epoch = s.epoch /\ f.index = 0
        /\ f.payload = <<secret, 0>> /\ f.seal.dh = s.ec.dh /\ f.seal.n = s.ec.ns
    BY <1>6, <1>7 DEF Emitted, Sealed
  <2>2. f.payload[1] = n.tlvs[6]
    BY <2>1, <1>3, <1>7, <1>8, <1>9, <1>10
  <2>3. out = {f} /\ f \in out
    OBVIOUS
  <2>4. \E g \in out : /\ out = {g} /\ g.from = p /\ g.kind = "CT1" /\ g.epoch = s.epoch
                       /\ g.index = 0 /\ g.payload[1] = n.tlvs[6]
                       /\ g.seal.dh = s.ec.dh /\ g.seal.n = s.ec.ns
    <3> HIDE DEF f, out
    <3> QED
      BY <2>1, <2>2, <2>3
  <2>5. /\ n.auth = Append(s.auth, key) /\ n.scka.root = Append(s.scka.root, key)
        /\ n.scka.send = Linked(s.scka.send, s.epoch) /\ n.scka.recv = s.scka.recv
        /\ n.ec.dh = s.ec.dh /\ n.ec.ns = s.ec.ns + 1
    BY <1>6, <1>7, <1>8, <1>9, <1>10
  <2>6. /\ n.agent = "Ct1Sampled" /\ n.epoch = s.epoch /\ n.sendEpoch = s.epoch - 1
        /\ n.recvEpoch = s.recvEpoch /\ n.sets = s.sets
    BY <1>6, <1>7, <1>8, <1>9, <1>10
  <2> HIDE DEF f, out
  <2> QED
    BY <1>1, <1>11, <2>4, <2>5, <2>6 DEF DraftCt1
<1>13. Shaped(n) /\ n.generation = s.generation /\ n.replays = s.replays /\ Draft(p, s, n, out)
  BY <1>6, <1>7, <1>8, <1>9, <1>10, <1>12 DEF Draft
<1> HIDE DEF out
<1> QED
  BY <1>1, <1>13, PrepareFits DEF s

\* Opening a message never takes the sending counters back.
LEMMA OpenedSet ==
    ASSUME NEW s, Shaped(s), NEW seal, NEW n, n = Opened(s, seal)
    PROVE  /\ Shaped(n)
           /\ n.ec.dh > s.ec.dh \/ (n.ec.dh = s.ec.dh /\ n.ec.ns = s.ec.ns)
           /\ n.agent = s.agent /\ n.epoch = s.epoch
           /\ n.sendEpoch = s.sendEpoch /\ n.recvEpoch = s.recvEpoch
           /\ n.sets = s.sets /\ n.active = s.active /\ n.tlvs = s.tlvs /\ n.auth = s.auth
           /\ n.scka = s.scka /\ n.generation = s.generation /\ n.replays = s.replays
<1> DEFINE nr == seal.n + 1
           dh == s.ec.dh + 2
<1>1. s.ec = [dh |-> s.ec.dh, dhr |-> s.ec.dhr, ns |-> s.ec.ns, nr |-> s.ec.nr, pn |-> s.ec.pn]
  BY CountersAre, Zenon
<1>2. s.ec.dh \in Nat \ {0} /\ s.ec.ns \in Nat
  BY CountersAre, Zenon
<1>3. dh \in Nat \ {0} /\ dh > s.ec.dh
  BY <1>2
<1>4. CASE seal.dh = s.ec.dhr
  <2>1. n = [s EXCEPT !.ec = [s.ec EXCEPT !.nr = nr]]
    BY <1>4 DEF Opened
  <2> HIDE DEF nr
  <2>2. [s.ec EXCEPT !.nr = nr] =
          [dh |-> s.ec.dh, dhr |-> s.ec.dhr, ns |-> s.ec.ns, nr |-> nr, pn |-> s.ec.pn]
    BY <1>1
  <2>3. n = [s EXCEPT !.ec = [dh |-> s.ec.dh, dhr |-> s.ec.dhr, ns |-> s.ec.ns, nr |-> nr,
                              pn |-> s.ec.pn]]
    BY <2>1, <2>2
  <2>4. s.ec.dh \in Nat \ {0} /\ s.ec.ns \in Nat /\ Shaped(s)
    BY <1>2
  <2>5. /\ Shaped(n) /\ n.ec.dh = s.ec.dh /\ n.ec.ns = s.ec.ns
        /\ n.agent = s.agent /\ n.epoch = s.epoch
        /\ n.sendEpoch = s.sendEpoch /\ n.recvEpoch = s.recvEpoch
    BY <2>3, <2>4 DEF Shaped
  <2>6. /\ n.sets = s.sets /\ n.active = s.active /\ n.tlvs = s.tlvs /\ n.auth = s.auth
        /\ n.scka = s.scka /\ n.generation = s.generation /\ n.replays = s.replays
    BY <2>3, <2>4 DEF Shaped
  <2> QED
    BY <2>5, <2>6
<1>5. CASE seal.dh # s.ec.dhr
  <2>1. n = [s EXCEPT !.ec = [dh |-> dh, dhr |-> seal.dh, ns |-> 0, nr |-> nr, pn |-> s.ec.ns]]
    BY <1>5 DEF Opened
  <2>2. 0 \in Nat
    OBVIOUS
  <2> HIDE DEF nr, dh
  <2> QED
    BY <1>3, <2>1, <2>2, CountersSet
<1> QED
  BY <1>4, <1>5

LEMMA EpochDrafted ==
    ASSUME BraidInv, NEW p \in Sides, Ct2Receive(p)
    PROVE  BraidInv'
<1> DEFINE s == braid[p]
           secret == s.tlvs[6]
           key == OutputKey(secret, s.epoch)
           v == AuthUpdated(s, key)
           fresh == {EmptySet("HDR", s.epoch + 1)}
           re == s.epoch - 1
<1>1. PICK f \in Bound(p, "CT2") :
        /\ s.agent = "EkSentCt1Received"
        /\ Prepare(p, [MixedReceive(Opened(v, f.seal), key) EXCEPT
                          !.agent = "NoHeaderReceived", !.epoch = @ + 1,
                          !.recvEpoch = re, !.tlvs = <<>>, !.active = NoSend,
                          !.sets = fresh], {})
  BY DEF Ct2Receive
<1> DEFINE u == Opened(v, f.seal)
           x == MixedReceive(u, key)
           e == x.epoch + 1
           n == [x EXCEPT !.agent = "NoHeaderReceived", !.epoch = e, !.recvEpoch = re,
                          !.tlvs = <<>>, !.active = NoSend, !.sets = fresh]
<1>2. Prepare(p, n, {})
  BY <1>1
<1>3. SideFits(p, s)
  BY BothFit DEF EndFits
<1>4. key = <<s.tlvs[6], s.epoch>>
  BY DEF OutputKey
<1> HIDE DEF s, key
<1>5. Shaped(s) /\ re \in Nat /\ s.epoch \in Nat
  BY <1>3, SideFacts DEF SideFits
<1>6. /\ Shaped(v) /\ v.auth = Append(s.auth, key)
      /\ v.epoch = s.epoch /\ v.sendEpoch = s.sendEpoch /\ v.scka = s.scka /\ v.ec = s.ec
      /\ v.generation = s.generation /\ v.replays = s.replays
  BY <1>5, AuthSet
<1> HIDE DEF v
<1>7. /\ Shaped(u)
      /\ u.ec.dh > v.ec.dh \/ (u.ec.dh = v.ec.dh /\ u.ec.ns = v.ec.ns)
      /\ u.auth = v.auth /\ u.epoch = v.epoch /\ u.sendEpoch = v.sendEpoch /\ u.scka = v.scka
      /\ u.generation = v.generation /\ u.replays = v.replays
  BY <1>6, OpenedSet
<1> HIDE DEF u
<1>8. /\ Shaped(x)
      /\ x.scka.root = Append(u.scka.root, key) /\ x.scka.send = u.scka.send
      /\ x.scka.recv = Linked(u.scka.recv, u.epoch)
      /\ x.auth = u.auth /\ x.epoch = u.epoch /\ x.sendEpoch = u.sendEpoch
      /\ x.ec = u.ec /\ x.generation = u.generation /\ x.replays = u.replays
  <2> DEFINE R == Append(u.scka.root, key)
             L == Linked(u.scka.recv, u.epoch)
  <2>1. x = [u EXCEPT !.scka = [root |-> R, send |-> u.scka.send, recv |-> L]]
    BY DEF MixedReceive
  <2> HIDE DEF R, L, x
  <2>2. x.scka.root = R /\ x.scka.recv = L /\ x.scka.send = u.scka.send
    BY <2>1, <1>7, ChainSet
  <2>3. /\ Shaped(x)
        /\ x.auth = u.auth /\ x.epoch = u.epoch /\ x.sendEpoch = u.sendEpoch
        /\ x.ec = u.ec /\ x.generation = u.generation /\ x.replays = u.replays
    BY <2>1, <1>7, ChainSet
  <2> QED
    BY <2>2, <2>3 DEF R, L
<1> HIDE DEF x
<1>9. e = s.epoch + 1 /\ e \in Nat \ {0}
  BY <1>5, <1>6, <1>7, <1>8
<1>10. /\ Shaped(n) /\ n.agent = "NoHeaderReceived" /\ n.epoch = e /\ n.recvEpoch = re
       /\ n.sets = fresh /\ n.sendEpoch = x.sendEpoch /\ n.auth = x.auth
       /\ n.scka = x.scka /\ n.ec = x.ec
       /\ n.generation = x.generation /\ n.replays = x.replays
  <2> HIDE DEF e, re, fresh
  <2> QED
    BY <1>5, <1>8, <1>9 DEF Shaped
<1> HIDE DEF n
<1>11. DraftEpoch(p, s, n, {})
  <2>1. /\ n.auth = Append(s.auth, key) /\ n.scka.root = Append(s.scka.root, key)
        /\ n.scka.recv = Linked(s.scka.recv, s.epoch) /\ n.scka.send = s.scka.send
        /\ n.ec.dh > s.ec.dh \/ (n.ec.dh = s.ec.dh /\ n.ec.ns = s.ec.ns)
    BY <1>6, <1>7, <1>8, <1>10
  <2>2. /\ n.agent = "NoHeaderReceived" /\ n.epoch = s.epoch + 1 /\ n.sendEpoch = s.sendEpoch
        /\ n.recvEpoch = s.epoch - 1 /\ n.sets = {EmptySet("HDR", s.epoch + 1)}
    BY <1>6, <1>7, <1>8, <1>9, <1>10
  <2> QED
    BY <1>1, <1>4, <2>1, <2>2 DEF DraftEpoch
<1>12. Shaped(n) /\ n.generation = s.generation /\ n.replays = s.replays /\ Draft(p, s, n, {})
  BY <1>6, <1>7, <1>8, <1>10, <1>11 DEF Draft
<1> QED
  BY <1>2, <1>12, PrepareFits DEF s

-----------------------------------------------------------------------------
\* Steps of the agent elsewhere.

StepFits(p, s, n, t, S) == Goes(p, s, n, t, S) /\ n.phase = s.phase

LEMMA ElsewhereFits ==
    ASSUME BraidInv, NEW p \in Sides, Idle(p), NEW s, s = braid[p], NEW t, t = braid[Facing(p)],
           NEW S, S = Sent(p, NoIntent, frames), NEW n, NEW X, StepFits(p, s, n, t, S \cup X),
           braid' = [braid EXCEPT ![p] = n], intent' = intent, frames' = frames \cup X,
           \A f \in X : f.from = p
    PROVE  BraidInv'
<1>1. intent[p] = NoIntent /\ n.phase = 0
  BY DEF Idle, StepFits
<1>2. intent' = [intent EXCEPT ![p] = NoIntent]
  BY <1>1, BothFit
<1>3. Sent(p, NoIntent, frames') = S \cup X
  BY DEF Sent, NoIntent
<1>4. IntentFits(p, n, NoIntent, frames')
  BY <1>1 DEF IntentFits
<1>5. EndFits(p, n, NoIntent, frames')
  BY <1>3, <1>4 DEF EndFits, Goes, StepFits
<1>6. Together(n, braid[Facing(p)]) /\ Together(braid[Facing(p)], n)
  BY DEF Goes, StepFits
<1>7. frames \subseteq frames' /\ \A f \in frames' : f \in frames \/ f.from = p
  OBVIOUS
<1> QED
  BY <1>2, <1>5, <1>6, <1>7, SideMoves

\* No frame is sent.
LEMMA QuietFits ==
    ASSUME BraidInv, NEW p \in Sides, Idle(p), NEW s, s = braid[p], NEW t, t = braid[Facing(p)],
           NEW S, S = Sent(p, NoIntent, frames), NEW n, StepFits(p, s, n, t, S),
           braid' = [braid EXCEPT ![p] = n], intent' = intent, frames' = frames
    PROVE  BraidInv'
<1> DEFINE X == {}
<1>1. frames' = frames \cup X /\ S \cup X = S /\ \A f \in X : f.from = p
  OBVIOUS
<1> HIDE DEF X
<1>2. StepFits(p, s, n, t, S \cup X)
  BY <1>1
<1>3. frames' = frames \cup X /\ \A f \in X : f.from = p
  BY <1>1
<1> QED
  BY <1>2, <1>3, ElsewhereFits

\* What is known of an idle side.
LEMMA IdleFacts ==
    ASSUME BraidInv, NEW p \in Sides, Idle(p)
    PROVE  /\ SideFits(p, braid[p]) /\ SideFits(Facing(p), braid[Facing(p)])
           /\ SendingFits(p, braid[p], Sent(p, NoIntent, frames))
           /\ Together(braid[p], braid[Facing(p)]) /\ Together(braid[Facing(p)], braid[p])
           /\ braid[p].phase = 0 /\ Facing(p) \in Sides
           /\ \A f \in frames : f.from = Facing(p) => FrameFits(Facing(p), braid[Facing(p)], f)
<1>1. /\ EndFits(p, braid[p], intent[p], frames)
      /\ EndFits(Facing(p), braid[Facing(p)], intent[Facing(p)], frames)
      /\ Together(braid[p], braid[Facing(p)]) /\ Together(braid[Facing(p)], braid[p])
  BY BothFit
<1>2. intent[p] = NoIntent /\ braid[p].phase = 0
  BY DEF Idle
<1>3. \A f \in frames : f.from = Facing(p) => FrameFits(Facing(p), braid[Facing(p)], f)
  BY <1>1 DEF EndFits, SendingFits, Sent
<1> QED
  BY <1>1, <1>2, <1>3, TwoSides DEF EndFits

LEMMA CountKept ==
    ASSUME NEW s, ReplaysFit(s), NEW n,
           n.generation = s.generation, n.replays = s.replays, n.phase = s.phase
    PROVE  ReplaysFit(n)
BY DEF ReplaysFit

\* A further chunk of the header is sent.
LEMMA HeaderSends ==
    ASSUME NEW p \in Sides, NEW s, NEW t, SideFits(p, s), Together(s, t), Together(t, s),
           NEW S, SendingFits(p, s, S), s.agent = "KeysSampled",
           NEW n, n = [s EXCEPT !.active.next = @ + 1]
    PROVE  StepFits(p, s, n, t, S \cup {Emitted(p, s, NoSeal)})
<1> DEFINE k == s.active.next + 1
           a == [kind |-> "HDR", source |-> s.active.source, next |-> k]
           f == Emitted(p, s, NoSeal)
<1>1. Shaped(s) /\ ActiveFits(s) /\ ReplaysFit(s)
  BY DEF SideFits
<1>2. /\ s.active = [kind |-> "HDR", source |-> s.active.source, next |-> s.active.next]
      /\ s.active.next \in Nat \ {0}
  BY <1>1 DEF ActiveFits
<1>3. n = [s EXCEPT !.active = a]
  <2>1. n = [s EXCEPT !.active = [s.active EXCEPT !.next = k]]
    OBVIOUS
  <2> HIDE DEF k
  <2>2. [s.active EXCEPT !.next = k] = a
    BY <1>2
  <2> QED
    BY <2>1, <2>2
<1>4. a.kind = "HDR" /\ a.source = s.active.source /\ a.next = k
      /\ a = [kind |-> "HDR", source |-> a.source, next |-> a.next] /\ k \in Nat \ {0}
  BY <1>2
<1>5. /\ f.from = p /\ f.kind = "HDR" /\ f.epoch = s.epoch /\ f.index = s.active.next
      /\ f.seal = NoSeal
  BY <1>2 DEF Emitted
<1> HIDE DEF a, f
<1>6. /\ Shaped(n) /\ n.active = a /\ n.agent = s.agent /\ n.epoch = s.epoch
      /\ n.sendEpoch = s.sendEpoch /\ n.recvEpoch = s.recvEpoch
      /\ n.sets = s.sets /\ n.tlvs = s.tlvs /\ n.auth = s.auth /\ n.scka = s.scka /\ n.ec = s.ec
      /\ n.generation = s.generation /\ n.replays = s.replays /\ n.phase = s.phase
  BY <1>1, <1>3 DEF Shaped
<1>7. SideFits(p, n)
  <2>1. ReplaysFit(n)
    BY <1>1, <1>6, CountKept
  <2>2. RoleFits(p, n) /\ SetsFit(n)
    BY <1>6 DEF SideFits, RoleFits, SetsFit
  <2>3. RootsFit(p, n)
    BY <1>6 DEF SideFits, RootsFit, HasMixed, ChainsFit
  <2>4. ActiveFits(n)
    BY <1>4, <1>6 DEF ActiveFits
  <2> QED
    BY <1>6, <2>1, <2>2, <2>3, <2>4 DEF SideFits
<1>8. s.epoch \in Nat \ {0} /\ s.ec.dh \in Nat /\ s.ec.ns \in Nat /\ Len(s.scka.root) \in Nat
  BY SideFacts
<1>9. SendingFits(p, n, S)
  <2>1. ASSUME NEW g \in S, Placed(s, g) PROVE Placed(n, g)
    <3>1. g.kind = "HDR" /\ g.index < s.active.next /\ g.index \in Nat
      BY <2>1 DEF Placed, HasMixed, SendingFits, FrameFits
    <3>2. g.index < n.active.next
      BY <1>2, <1>4, <1>6, <3>1
    <3> QED
      BY <1>6, <3>1, <3>2 DEF Placed
  <2> QED
    BY <1>6, <1>7, <2>1, FramesKept
<1>10. FrameFits(p, n, f)
  <2>1. f.index < n.active.next /\ f.index \in Nat
    BY <1>2, <1>4, <1>5, <1>6
  <2> QED
    BY <1>5, <1>6, <1>8, <2>1 DEF FrameFits, Placed
<1>11. \A g \in S : Apart(f, g)
  <2> TAKE g \in S
  <2>1. FrameFits(p, s, g)
    BY DEF SendingFits
  <2>2. CASE g.kind = "HDR" /\ g.epoch = s.epoch
    <3>1. g.index < s.active.next
      BY <2>1, <2>2, <1>8 DEF FrameFits, Placed
    <3>2. g.index \in Nat
      BY <2>1 DEF FrameFits
    <3>3. g.index # f.index
      BY <1>2, <1>5, <3>1, <3>2
    <3> QED
      BY <1>5, <3>3 DEF Apart
  <2>3. CASE ~(g.kind = "HDR" /\ g.epoch = s.epoch)
    BY <2>3, <1>5 DEF Apart
  <2> QED
    BY <2>2, <2>3
<1>12. Together(n, t) /\ Together(t, n)
  BY <1>6 DEF Together, HasMixed
<1> QED
  BY <1>6, <1>7, <1>9, <1>10, <1>11, <1>12, FrameAdded DEF Goes, StepFits, f

\* The last chunk of the header is received.
LEMMA HeaderCompletes ==
    ASSUME NEW p \in Sides, NEW s, NEW t, SideFits(p, s), SideFits(Facing(p), t),
           Together(s, t), Together(t, s),
           NEW S, SendingFits(p, s, S), s.agent = "NoHeaderReceived", s.epoch <= t.epoch,
           NEW keys,
           NEW n, n = [s EXCEPT !.agent = "HeaderReceived", !.sets = {},
                                !.tlvs = [i \in {2, 3} |-> keys]]
    PROVE  StepFits(p, s, n, t, S)
<1> DEFINE T == [i \in {2, 3} |-> keys]
<1>1. Shaped(s) /\ ReplaysFit(s)
  BY DEF SideFits
<1>2. DOMAIN T = Tags("HeaderReceived")
  BY DEF Tags
<1>3. n = [s EXCEPT !.agent = "HeaderReceived", !.sets = {}, !.tlvs = T]
  OBVIOUS
<1> HIDE DEF T
<1>4. /\ Shaped(n) /\ n.agent = "HeaderReceived" /\ n.sets = {} /\ n.tlvs = T
      /\ n.epoch = s.epoch /\ n.sendEpoch = s.sendEpoch /\ n.recvEpoch = s.recvEpoch
      /\ n.active = s.active /\ n.auth = s.auth /\ n.scka = s.scka /\ n.ec = s.ec
      /\ n.generation = s.generation /\ n.replays = s.replays /\ n.phase = s.phase
  BY <1>1, <1>3 DEF Shaped
<1>5. s.epoch \in Nat \ {0} /\ s.ec.dh \in Nat /\ s.ec.ns \in Nat /\ Len(s.scka.root) \in Nat
  BY SideFacts
<1>6. SideFits(p, n)
  <2>1. ReplaysFit(n)
    BY <1>1, <1>4, CountKept
  <2>2. RoleFits(p, n) /\ SetsFit(n) /\ ActiveFits(n)
    BY <1>2, <1>4 DEF SideFits, RoleFits, SetsFit, ActiveFits, HeaderAgents, CtAgents
  <2>3. RootsFit(p, n)
    BY <1>4 DEF SideFits, RootsFit, HasMixed, ChainsFit
  <2> QED
    BY <1>4, <2>1, <2>2, <2>3 DEF SideFits
<1>7. SendingFits(p, n, S)
  <2>1. \A g \in S : ~Placed(s, g)
    BY DEF Placed, HasMixed
  <2> QED
    BY <1>4, <1>6, <2>1, FramesKept
<1>8. Together(n, t) /\ Together(t, n)
  <2>1. t.epoch \in Nat /\ t.epoch = s.epoch /\ t.agent # "EkSentCt1Received"
    <3>1. t.epoch \in Nat
      BY TwoSides, SideFacts
    <3> QED
      BY <3>1, <1>5, PairFacts DEF HasMixed, Together
  <2> QED
    BY <1>4, <1>5, <2>1 DEF Together, HasMixed
<1> QED
  BY <1>4, <1>6, <1>7, <1>8 DEF Goes, StepFits

\* CT1 is received.
LEMMA Ct1Completes ==
    ASSUME NEW p \in Sides, NEW s, NEW t, SideFits(p, s), SideFits(Facing(p), t),
           Together(s, t), Together(t, s),
           NEW S, SendingFits(p, s, S), s.agent = "KeysSampled",
           NEW f, FrameFits(Facing(p), t, f), f.kind = "CT1", f.epoch = s.epoch,
           NEW n, n = [s EXCEPT !.agent = "EkSentCt1Received", !.active = NoSend,
                                !.tlvs = [i \in {1, 6} |-> IF i = 1 THEN @[1] ELSE f.payload[1]]]
    PROVE  StepFits(p, s, n, t, S)
<1> DEFINE T == [i \in {1, 6} |-> IF i = 1 THEN s.tlvs[1] ELSE f.payload[1]]
<1>1. Shaped(s) /\ ReplaysFit(s)
  BY DEF SideFits
<1>2. DOMAIN T = Tags("EkSentCt1Received") /\ T[6] = f.payload[1]
  BY DEF Tags
<1>3. n = [s EXCEPT !.agent = "EkSentCt1Received", !.active = NoSend, !.tlvs = T]
  OBVIOUS
<1> HIDE DEF T
<1>4. /\ Shaped(n) /\ n.agent = "EkSentCt1Received" /\ n.tlvs = T /\ n.sets = s.sets
      /\ n.epoch = s.epoch /\ n.sendEpoch = s.sendEpoch /\ n.recvEpoch = s.recvEpoch
      /\ n.auth = s.auth /\ n.scka = s.scka /\ n.ec = s.ec
      /\ n.generation = s.generation /\ n.replays = s.replays /\ n.phase = s.phase
  <2> HIDE DEF NoSend
  <2> QED
    BY <1>1, <1>3 DEF Shaped
<1>5. s.epoch \in Nat \ {0} /\ t.epoch \in Nat \ {0}
  BY TwoSides, SideFacts
<1>6. SideFits(p, n)
  <2>1. ReplaysFit(n)
    BY <1>1, <1>4, CountKept
  <2>2. RoleFits(p, n) /\ ActiveFits(n)
    BY <1>2, <1>4 DEF SideFits, RoleFits, ActiveFits, HeaderAgents, CtAgents
  <2>3. RootsFit(p, n)
    BY <1>4 DEF SideFits, RootsFit, HasMixed, ChainsFit
  <2>4. n.sets = {}
    BY <1>4 DEF SideFits, SetsFit
  <2>5. SetsFit(n)
    BY <2>4 DEF SetsFit, OneSet
  <2> QED
    BY <1>4, <2>1, <2>2, <2>3, <2>5 DEF SideFits
<1>7. SendingFits(p, n, S)
  <2>1. \A g \in S : Placed(s, g) => Placed(n, g)
    BY <1>4 DEF Placed, HasMixed
  <2> QED
    BY <1>4, <1>6, <2>1, FramesKept
<1>8. t.epoch = s.epoch
  <2>1. ~HasMixed(s)
    BY DEF HasMixed
  <2> QED
    BY <2>1, PairFacts
<1>9. HasMixed(t) /\ t.scka.root[t.epoch] = <<n.tlvs[6], s.epoch>>
  <2>1. Placed(t, f) /\ t.scka.root[f.epoch] = <<f.payload[1], f.epoch>>
    BY <1>5, <1>8 DEF FrameFits
  <2> QED
    BY <1>2, <1>4, <1>8, <2>1 DEF Placed
<1>10. Together(n, t) /\ Together(t, n)
  <2>1. t.agent # "EkSentCt1Received"
    BY <1>9 DEF HasMixed
  <2>2. Together(n, t)
    BY <1>4, <1>5, <1>8, <1>9 DEF Together
  <2>3. Together(t, n)
    BY <1>4, <1>5, <1>8, <2>1 DEF Together
  <2> QED
    BY <2>2, <2>3
<1> QED
  BY <1>4, <1>6, <1>7, <1>10 DEF Goes, StepFits

LEMMA FramesAdded ==
    ASSUME NEW p, NEW n, NEW S, SendingFits(p, n, S), NEW X, SendingFits(p, n, X),
           \A f \in X : \A g \in S : Apart(f, g)
    PROVE  SendingFits(p, n, S \cup X)
<1>1. \A f \in X : \A g \in S : Apart(g, f)
  BY DEF Apart
<1> QED
  BY <1>1 DEF SendingFits

\* Counters that count on.
CountsOn(s, m, c) ==
    /\ Shaped(m) /\ m.ec.dh = s.ec.dh /\ m.ec.ns = s.ec.ns + c
    /\ m.epoch = s.epoch /\ m.sendEpoch = s.sendEpoch /\ m.recvEpoch = s.recvEpoch
    /\ m.sets = s.sets /\ m.auth = s.auth /\ m.scka = s.scka
    /\ m.generation = s.generation /\ m.replays = s.replays /\ m.phase = s.phase

LEMMA CountOn ==
    ASSUME NEW s, Shaped(s), NEW c \in Nat, NEW m, m = [s EXCEPT !.ec.ns = @ + c]
    PROVE  CountsOn(s, m, c)
<1> DEFINE ns == s.ec.ns + c
<1>1. s.ec = [dh |-> s.ec.dh, dhr |-> s.ec.dhr, ns |-> s.ec.ns, nr |-> s.ec.nr, pn |-> s.ec.pn]
  BY CountersAre, Zenon
<1>2. s.ec.dh \in Nat \ {0} /\ s.ec.ns \in Nat
  BY CountersAre, Zenon
<1>3. ns \in Nat
  BY <1>2
<1>4. m = [s EXCEPT !.ec = [s.ec EXCEPT !.ns = ns]]
  OBVIOUS
<1>5. ns = s.ec.ns + c
  OBVIOUS
<1> HIDE DEF ns
<1>6. [s.ec EXCEPT !.ns = ns] =
        [dh |-> s.ec.dh, dhr |-> s.ec.dhr, ns |-> ns, nr |-> s.ec.nr, pn |-> s.ec.pn]
  BY <1>1
<1>7. m = [s EXCEPT !.ec = [dh |-> s.ec.dh, dhr |-> s.ec.dhr, ns |-> ns, nr |-> s.ec.nr,
                            pn |-> s.ec.pn]]
  BY <1>4, <1>6
<1>8. s.ec.dh \in Nat \ {0}
  BY <1>2
<1>9. Shaped(m) /\ m.ec.dh = s.ec.dh /\ m.ec.ns = ns /\ m.phase = s.phase
  BY <1>3, <1>7, <1>8 DEF Shaped
<1>10. /\ m.epoch = s.epoch /\ m.sendEpoch = s.sendEpoch /\ m.recvEpoch = s.recvEpoch
       /\ m.sets = s.sets /\ m.auth = s.auth /\ m.scka = s.scka
       /\ m.generation = s.generation /\ m.replays = s.replays
  BY <1>7 DEF Shaped
<1> QED
  BY <1>5, <1>9, <1>10 DEF CountsOn

\* What the sender of CT2 becomes, and its frames.
CtSent(p, s, source) ==
    [s EXCEPT !.agent = "Ct2Sampled", !.ec.ns = @ + Ct2Chunks,
              !.tlvs = [i \in {7} |-> source], !.active = NoSend]

CtFrames(p, s, source, key) ==
    {[from |-> p, kind |-> "CT2", epoch |-> s.epoch, index |-> i, payload |-> <<source, i>>,
      seal |-> [Sealed(s, key) EXCEPT !.n = @ + i]] : i \in 0 .. Ct2Chunks - 1}

\* All chunks of CT2 are sent, each with a seal of its own.
LEMMA Ct2Sends ==
    ASSUME NEW p \in Sides, NEW s, NEW t, SideFits(p, s), SideFits(Facing(p), t),
           Together(s, t), Together(t, s),
           NEW S, SendingFits(p, s, S), s.agent = "Ct1Sampled",
           NEW source, NEW key,
           NEW X, X = CtFrames(p, s, source, key), NEW n, n = CtSent(p, s, source)
    PROVE  StepFits(p, s, n, t, S \cup X) /\ \A f \in X : f.from = p
<1> DEFINE T == [i \in {7} |-> source]
           ns == s.ec.ns + Ct2Chunks
           m == [s EXCEPT !.ec.ns = @ + Ct2Chunks]
<1>1. Shaped(s) /\ ReplaysFit(s)
  BY DEF SideFits
<1>2. DOMAIN T = Tags("Ct2Sampled")
  BY DEF Tags
<1>4. s.epoch \in Nat \ {0} /\ s.ec.dh \in Nat \ {0} /\ s.ec.ns \in Nat
      /\ Len(s.scka.root) \in Nat /\ t.epoch \in Nat
  BY TwoSides, SideFacts
<1>5. ns \in Nat /\ ns > s.ec.ns
  BY <1>4, BraidConstants
<1>6. n = [m EXCEPT !.agent = "Ct2Sampled", !.tlvs = T, !.active = NoSend]
  <2> HIDE DEF T, NoSend
  <2>1. n = [s EXCEPT !.agent = "Ct2Sampled", !.ec.ns = @ + Ct2Chunks, !.tlvs = T,
                      !.active = NoSend]
    BY DEF T, CtSent
  <2> QED
    BY <2>1, <1>1 DEF Shaped
<1>7. /\ Shaped(m) /\ m.ec.dh = s.ec.dh /\ m.ec.ns = ns
      /\ m.epoch = s.epoch /\ m.sendEpoch = s.sendEpoch /\ m.recvEpoch = s.recvEpoch
      /\ m.sets = s.sets /\ m.auth = s.auth /\ m.scka = s.scka
      /\ m.generation = s.generation /\ m.replays = s.replays /\ m.phase = s.phase
  <2>1. CountsOn(s, m, Ct2Chunks)
    BY <1>1, CountOn, BraidConstants
  <2> QED
    BY <2>1 DEF CountsOn
<1> HIDE DEF m, T, ns
<1>8. /\ Shaped(n) /\ n.agent = "Ct2Sampled" /\ n.tlvs = T /\ n.ec = m.ec /\ n.sets = s.sets
      /\ n.epoch = s.epoch /\ n.sendEpoch = s.sendEpoch /\ n.recvEpoch = s.recvEpoch
      /\ n.auth = s.auth /\ n.scka = s.scka
      /\ n.generation = s.generation /\ n.replays = s.replays /\ n.phase = s.phase
  <2> HIDE DEF NoSend
  <2> QED
    BY <1>6, <1>7 DEF Shaped
<1>9. SideFits(p, n)
  <2>1. ReplaysFit(n)
    BY <1>1, <1>8, CountKept
  <2>2. RoleFits(p, n) /\ ActiveFits(n) /\ SetsFit(n)
    BY <1>2, <1>8 DEF SideFits, RoleFits, SetsFit, ActiveFits, HeaderAgents, CtAgents
  <2>3. RootsFit(p, n)
    BY <1>8 DEF SideFits, RootsFit, HasMixed, ChainsFit
  <2> QED
    BY <1>8, <2>1, <2>2, <2>3 DEF SideFits
<1>10. SendingFits(p, n, S)
  <2>1. \A g \in S : Placed(s, g) => Placed(n, g)
    BY <1>8 DEF Placed, HasMixed
  <2>2. n.ec.dh = s.ec.dh /\ n.ec.ns >= s.ec.ns /\ n.epoch = s.epoch
    BY <1>4, <1>5, <1>7, <1>8
  <2>3. Len(s.scka.root) <= Len(n.scka.root)
        /\ \A k \in 1 .. Len(s.scka.root) : n.scka.root[k] = s.scka.root[k]
    BY <1>4, <1>8
  <2> QED
    BY <1>9, <2>1, <2>2, <2>3, FramesStay
<1>11. \A f \in X : \E i \in 0 .. Ct2Chunks - 1 :
          /\ f = [from |-> p, kind |-> "CT2", epoch |-> s.epoch, index |-> i,
                  payload |-> <<source, i>>, seal |-> [Sealed(s, key) EXCEPT !.n = @ + i]]
          /\ f.from = p /\ f.kind = "CT2" /\ f.epoch = s.epoch /\ f.index = i
          /\ f.seal.dh = s.ec.dh /\ f.seal.n = s.ec.ns + i
  BY DEF Sealed, CtFrames
<1>12. SendingFits(p, n, X)
  <2>1. ASSUME NEW f \in X PROVE FrameFits(p, n, f)
    <3>1. PICK i \in 0 .. Ct2Chunks - 1 :
          /\ f.from = p /\ f.kind = "CT2" /\ f.epoch = s.epoch /\ f.index = i
          /\ f.seal.dh = s.ec.dh /\ f.seal.n = s.ec.ns + i
      BY <1>11
    <3>2. i \in Nat /\ s.ec.ns + i \in Nat /\ s.ec.ns + i < ns
      <4>1. s.ec.ns \in Nat /\ Ct2Chunks \in Nat /\ i \in 0 .. Ct2Chunks - 1
        BY <1>4, BraidConstants
      <4>2. \A a, c \in Nat : \A k \in 0 .. c - 1 : k \in Nat /\ a + k \in Nat /\ a + k < a + c
        OBVIOUS
      <4>3. i \in Nat /\ s.ec.ns + i \in Nat /\ s.ec.ns + i < s.ec.ns + Ct2Chunks
        BY <4>1, <4>2, Zenon
      <4> QED
        BY <4>3, Zenon DEF ns
    <3>3. SealedBefore(f, n)
      BY <1>4, <1>7, <1>8, <3>1, <3>2 DEF SealedBefore
    <3> QED
      BY <1>4, <1>8, <3>1, <3>2, <3>3 DEF FrameFits, Placed
  <2>2. ASSUME NEW f \in X, NEW g \in X, f # g PROVE Apart(f, g)
    <3>1. PICK i \in 0 .. Ct2Chunks - 1 :
          /\ f = [from |-> p, kind |-> "CT2", epoch |-> s.epoch, index |-> i,
                  payload |-> <<source, i>>, seal |-> [Sealed(s, key) EXCEPT !.n = @ + i]]
          /\ f.index = i /\ f.seal.dh = s.ec.dh /\ f.seal.n = s.ec.ns + i
      BY <1>11
    <3>2. PICK j \in 0 .. Ct2Chunks - 1 :
          /\ g = [from |-> p, kind |-> "CT2", epoch |-> s.epoch, index |-> j,
                  payload |-> <<source, j>>, seal |-> [Sealed(s, key) EXCEPT !.n = @ + j]]
          /\ g.index = j /\ g.seal.dh = s.ec.dh /\ g.seal.n = s.ec.ns + j
      BY <1>11
    <3>3. i # j
      BY <2>2, <3>1, <3>2
    <3>4. f.index # g.index /\ f.seal.n # g.seal.n
      BY <1>4, <3>1, <3>2, <3>3
    <3> QED
      BY <3>4 DEF Apart
  <2> QED
    BY <2>1, <2>2 DEF SendingFits
<1>13. \A f \in X : \A g \in S : Apart(f, g)
  <2> TAKE f \in X
  <2> TAKE g \in S
  <2>1. PICK i \in 0 .. Ct2Chunks - 1 :
          /\ f.kind = "CT2" /\ f.epoch = s.epoch
          /\ f.seal.dh = s.ec.dh /\ f.seal.n = s.ec.ns + i
    BY <1>11
  <2>2. FrameFits(p, s, g)
    BY DEF SendingFits
  <2>3. g.seal = NoSeal \/ SealedBefore(g, s)
    BY <2>2 DEF FrameFits
  <2>4. ~(g.kind = "CT2" /\ g.epoch = s.epoch)
    BY <2>2, <1>4 DEF FrameFits, Placed
  <2>5. <<f.kind, f.epoch, f.index>> # <<g.kind, g.epoch, g.index>>
    BY <2>1, <2>4
  <2>6. i \in Nat
    OBVIOUS
  <2> QED
    BY <1>4, <2>1, <2>3, <2>5, <2>6, NewSeal
<1>14. SendingFits(p, n, S \cup X)
  BY <1>10, <1>12, <1>13, FramesAdded
<1>15. Together(n, t) /\ Together(t, n)
  BY <1>8 DEF Together, HasMixed
<1>16. \A f \in X : f.from = p
  BY <1>11
<1> QED
  BY <1>8, <1>9, <1>14, <1>15, <1>16 DEF Goes, StepFits

\* A chunk that does not complete its source is received.
LEMMA ChunkEnters ==
    ASSUME NEW p \in Sides, NEW s, NEW t, SideFits(p, s), Together(s, t), Together(t, s),
           NEW S, SendingFits(p, s, S), NEW f, f.epoch = s.epoch, ~Conflicts(s, f),
           \/ f.kind = "HDR" /\ s.agent = "NoHeaderReceived"
           \/ f.kind = "CT2" /\ s.agent = "EkSentCt1Received",
           NEW n, n = Inserted(s, f)
    PROVE  StepFits(p, s, n, t, S)
<1>1. Shaped(s) /\ SetsFit(s) /\ ReplaysFit(s)
  BY DEF SideFits
<1>2. OneSet(s.sets, f.kind, s.epoch)
  BY <1>1 DEF SetsFit
<1>3. PICK V : n = [s EXCEPT !.sets = V] /\ OneSet(V, f.kind, s.epoch)
  BY <1>2, Insertion
<1>4. /\ Shaped(n) /\ n.sets = V /\ n.agent = s.agent /\ n.epoch = s.epoch
      /\ n.sendEpoch = s.sendEpoch /\ n.recvEpoch = s.recvEpoch
      /\ n.active = s.active /\ n.tlvs = s.tlvs /\ n.auth = s.auth
      /\ n.scka = s.scka /\ n.ec = s.ec
      /\ n.generation = s.generation /\ n.phase = s.phase /\ n.replays = s.replays
  BY <1>1, <1>3, SetsSet
<1>5. SideFits(p, n)
  <2>1. ReplaysFit(n)
    BY <1>1, <1>4, CountKept
  <2>2. RoleFits(p, n) /\ ActiveFits(n)
    BY <1>4 DEF SideFits, RoleFits, ActiveFits
  <2>3. RootsFit(p, n)
    BY <1>4 DEF SideFits, RootsFit, HasMixed, ChainsFit
  <2>4. SetsFit(n)
    BY <1>3, <1>4 DEF SetsFit
  <2> QED
    BY <1>4, <2>1, <2>2, <2>3, <2>4 DEF SideFits
<1>6. SendingFits(p, n, S)
  <2>1. \A g \in S : Placed(s, g) => Placed(n, g)
    BY <1>4 DEF Placed, HasMixed
  <2> QED
    BY <1>4, <1>5, <2>1, FramesKept
<1>7. Together(n, t) /\ Together(t, n)
  BY <1>4 DEF Together, HasMixed
<1> QED
  BY <1>4, <1>5, <1>6, <1>7 DEF Goes, StepFits

\* The sender of CT2 begins the next epoch, which its peer has begun.
LEMMA EpochBegins ==
    ASSUME NEW p \in Sides, NEW s, NEW t, SideFits(p, s), SideFits(Facing(p), t),
           Together(s, t), Together(t, s),
           NEW S, SendingFits(p, s, S), s.agent = "Ct2Sampled", t.epoch = s.epoch + 1,
           NEW n, n = [s EXCEPT !.agent = "KeysUnsampled", !.epoch = @ + 1, !.tlvs = <<>>]
    PROVE  StepFits(p, s, n, t, S)
<1> DEFINE e == s.epoch + 1
<1>1. Shaped(s) /\ ReplaysFit(s)
  BY DEF SideFits
<1>2. s.epoch \in Nat \ {0} /\ s.ec.dh \in Nat /\ s.ec.ns \in Nat /\ Len(s.scka.root) \in Nat
      /\ s.sendEpoch \in Nat /\ s.recvEpoch \in Nat /\ ~Heads(p, s.epoch)
  BY SideFacts DEF CtAgents
<1>3. e \in Nat \ {0} /\ Heads(p, e)
  BY <1>2, TwoSides
<1>4. n = [s EXCEPT !.agent = "KeysUnsampled", !.epoch = e, !.tlvs = <<>>]
  OBVIOUS
<1>5. e = s.epoch + 1
  OBVIOUS
<1> HIDE DEF e
<1>6. /\ Shaped(n) /\ n.agent = "KeysUnsampled" /\ n.epoch = e /\ n.tlvs = <<>>
      /\ n.sendEpoch = s.sendEpoch /\ n.recvEpoch = s.recvEpoch /\ n.sets = s.sets
      /\ n.auth = s.auth /\ n.scka = s.scka /\ n.ec = s.ec
      /\ n.generation = s.generation /\ n.replays = s.replays /\ n.phase = s.phase
  <2> DEFINE none == <<>>
  <2>1. n = [s EXCEPT !.agent = "KeysUnsampled", !.epoch = e, !.tlvs = none]
    BY <1>4
  <2> HIDE DEF none
  <2>2. Shaped(n) /\ n.agent = "KeysUnsampled" /\ n.epoch = e /\ n.tlvs = none
    <3>1. Shaped(s) /\ e \in Nat \ {0}
      BY <1>1, <1>3
    <3>2. n.agent = "KeysUnsampled" /\ n.epoch = e /\ n.tlvs = none
      BY <2>1, <3>1 DEF Shaped
    <3>3. Shaped(n)
      BY <2>1, <3>1 DEF Shaped
    <3> QED
      BY <3>2, <3>3
  <2>3. /\ n.sendEpoch = s.sendEpoch /\ n.recvEpoch = s.recvEpoch /\ n.sets = s.sets
        /\ n.auth = s.auth /\ n.scka = s.scka /\ n.ec = s.ec
        /\ n.generation = s.generation /\ n.replays = s.replays /\ n.phase = s.phase
    BY <1>1, <2>1 DEF Shaped
  <2> QED
    BY <2>2, <2>3 DEF none
<1>7. SideFits(p, n)
  <2>1. ReplaysFit(n)
    BY <1>1, <1>6, CountKept
  <2>2. RoleFits(p, n)
    <3>1. DOMAIN n.tlvs = Tags(n.agent)
      BY <1>6 DEF Tags
    <3>2. s.sendEpoch < s.epoch /\ s.recvEpoch < s.epoch
      BY DEF SideFits, RoleFits
    <3> QED
      BY <1>2, <1>3, <1>5, <1>6, <3>1, <3>2 DEF RoleFits, HeaderAgents
  <2>3. SetsFit(n) /\ ActiveFits(n)
    BY <1>6 DEF SideFits, SetsFit, ActiveFits
  <2>4. RootsFit(p, n)
    <3>1. HasMixed(s) /\ ~HasMixed(n)
      BY <1>6 DEF HasMixed
    <3>2. Len(n.scka.root) = n.epoch - 1
      BY <1>2, <1>5, <1>6, <3>1 DEF SideFits, RootsFit
    <3> QED
      BY <1>6, <3>1, <3>2 DEF SideFits, RootsFit, ChainsFit
  <2> QED
    BY <1>6, <2>1, <2>2, <2>3, <2>4 DEF SideFits
<1>8. SendingFits(p, n, S)
  <2>1. n.epoch > s.epoch /\ n.ec.dh = s.ec.dh /\ n.ec.ns >= s.ec.ns
        /\ Len(s.scka.root) <= Len(n.scka.root)
    BY <1>2, <1>5, <1>6
  <2>2. \A k \in 1 .. Len(s.scka.root) : n.scka.root[k] = s.scka.root[k]
    BY <1>6
  <2> QED
    BY <1>7, <2>1, <2>2, FramesStay
<1>9. Together(n, t) /\ Together(t, n)
  <2>1. t.agent = "NoHeaderReceived" /\ n.epoch = t.epoch /\ t.epoch \in Nat
    BY <1>2, <1>5, <1>6 DEF Together
  <2> QED
    BY <1>6, <2>1 DEF Together
<1> QED
  BY <1>6, <1>7, <1>8, <1>9 DEF Goes, StepFits

\* A frame that a side waits for is one of its peer's.
LEMMA BoundFits ==
    ASSUME BraidInv, NEW p \in Sides, Idle(p), NEW kind, NEW f \in Bound(p, kind)
    PROVE  /\ f \in frames /\ f.from = Facing(p) /\ f.kind = kind /\ f.epoch = braid[p].epoch
           /\ FrameFits(Facing(p), braid[Facing(p)], f)
<1>1. f \in frames /\ f.from = Facing(p) /\ f.kind = kind /\ f.epoch = braid[p].epoch
  BY DEF Bound
<1> QED
  BY <1>1, IdleFacts

LEMMA HdrElsewhereFits ==
    ASSUME BraidInv, NEW p \in Sides, Idle(p), HdrElsewhere(p), intent' = intent
    PROVE  BraidInv'
<1> DEFINE s == braid[p]
           t == braid[Facing(p)]
           S == Sent(p, NoIntent, frames)
<1>1. /\ SideFits(p, s) /\ SideFits(Facing(p), t) /\ SendingFits(p, s, S)
      /\ Together(s, t) /\ Together(t, s) /\ s.phase = 0
  BY IdleFacts
<1>2. ASSUME s.agent = "KeysSampled", frames' = frames \cup {Emitted(p, s, NoSeal)},
             braid' = [braid EXCEPT ![p].active.next = @ + 1]
      PROVE  BraidInv'
  <2> DEFINE n == [s EXCEPT !.active.next = @ + 1]
             X == {Emitted(p, s, NoSeal)}
  <2>1. braid' = [braid EXCEPT ![p] = n] /\ frames' = frames \cup X
    BY <1>2 DEF BraidInv
  <2> HIDE DEF s, t, S
  <2>2. StepFits(p, s, n, t, S \cup X)
    BY <1>1, <1>2, HeaderSends
  <2>3. \A f \in X : f.from = p
    BY DEF Emitted
  <2>4. s = braid[p] /\ t = braid[Facing(p)] /\ S = Sent(p, NoIntent, frames)
    BY DEF s, t, S
  <2> HIDE DEF n, X
  <2> QED
    BY <2>1, <2>2, <2>3, <2>4, ElsewhereFits
<1>3. ASSUME NEW f \in Bound(p, "HDR"), s.agent = "NoHeaderReceived", frames' = frames, NEW keys,
             braid' = [braid EXCEPT ![p].agent = "HeaderReceived", ![p].sets = {},
                                    ![p].tlvs = [i \in {2, 3} |-> keys]]
      PROVE  BraidInv'
  <2> DEFINE n == [s EXCEPT !.agent = "HeaderReceived", !.sets = {},
                            !.tlvs = [i \in {2, 3} |-> keys]]
  <2>1. braid' = [braid EXCEPT ![p] = n]
    BY <1>3 DEF BraidInv
  <2>2. s.epoch <= t.epoch
    <3>1. f.epoch = s.epoch /\ FrameFits(Facing(p), t, f)
      BY <1>3, BoundFits
    <3>2. s.epoch \in Nat /\ t.epoch \in Nat
      BY <1>1, TwoSides, SideFacts
    <3> QED
      BY <3>1, <3>2 DEF FrameFits
  <2> HIDE DEF s, t, S
  <2>3. StepFits(p, s, n, t, S)
    BY <1>1, <1>3, <2>2, HeaderCompletes
  <2>4. s = braid[p] /\ t = braid[Facing(p)] /\ S = Sent(p, NoIntent, frames)
    BY DEF s, t, S
  <2> HIDE DEF n
  <2> QED
    BY <1>3, <2>1, <2>3, <2>4, QuietFits
<1>4. \/ /\ s.agent = "KeysSampled" /\ frames' = frames \cup {Emitted(p, s, NoSeal)}
         /\ braid' = [braid EXCEPT ![p].active.next = @ + 1]
      \/ \E f \in Bound(p, "HDR") : \E keys \in {f.payload[1][1]} :
            /\ s.agent = "NoHeaderReceived" /\ frames' = frames
            /\ braid' = [braid EXCEPT ![p].agent = "HeaderReceived", ![p].sets = {},
                                      ![p].tlvs = [i \in {2, 3} |-> keys]]
  BY DEF HdrElsewhere
<1> HIDE DEF s
<1> QED
  BY <1>2, <1>3, <1>4

LEMMA Ct1ElsewhereFits ==
    ASSUME BraidInv, NEW p \in Sides, Idle(p), Ct1Elsewhere(p), intent' = intent
    PROVE  BraidInv'
<1> DEFINE s == braid[p]
           t == braid[Facing(p)]
           S == Sent(p, NoIntent, frames)
<1>1. /\ SideFits(p, s) /\ SideFits(Facing(p), t) /\ SendingFits(p, s, S)
      /\ Together(s, t) /\ Together(t, s) /\ s.phase = 0
  BY IdleFacts
<1>2. ASSUME NEW f \in Bound(p, "CT1"), s.agent = "KeysSampled", frames' = frames,
             braid' = [braid EXCEPT ![p].agent = "EkSentCt1Received", ![p].active = NoSend,
                 ![p].tlvs = [i \in {1, 6} |-> IF i = 1 THEN @[1] ELSE f.payload[1]]]
      PROVE  BraidInv'
  <2> DEFINE n == [s EXCEPT !.agent = "EkSentCt1Received", !.active = NoSend,
                            !.tlvs = [i \in {1, 6} |-> IF i = 1 THEN @[1] ELSE f.payload[1]]]
  <2>1. braid' = [braid EXCEPT ![p] = n]
    BY <1>2 DEF BraidInv
  <2>2. f.kind = "CT1" /\ f.epoch = s.epoch /\ FrameFits(Facing(p), t, f)
    BY <1>2, BoundFits
  <2> HIDE DEF s, t, S
  <2>3. StepFits(p, s, n, t, S)
    BY <1>1, <1>2, <2>2, Ct1Completes
  <2>4. s = braid[p] /\ t = braid[Facing(p)] /\ S = Sent(p, NoIntent, frames)
    BY DEF s, t, S
  <2> HIDE DEF n
  <2> QED
    BY <1>2, <2>1, <2>3, <2>4, QuietFits
<1>3. ASSUME NEW source, NEW key, s.agent = "Ct1Sampled",
             braid' = [braid EXCEPT ![p] = CtSent(p, s, source)],
             frames' = frames \cup CtFrames(p, s, source, key)
      PROVE  BraidInv'
  <2> DEFINE n == CtSent(p, s, source)
             X == CtFrames(p, s, source, key)
  <2>1. s = braid[p] /\ t = braid[Facing(p)] /\ S = Sent(p, NoIntent, frames)
    OBVIOUS
  <2> HIDE DEF s, t, S
  <2>2. StepFits(p, s, n, t, S \cup X) /\ \A f \in X : f.from = p
    BY <1>1, <1>3, Ct2Sends
  <2>3. braid' = [braid EXCEPT ![p] = n] /\ frames' = frames \cup X
    BY <1>3
  <2> HIDE DEF n, X
  <2> QED
    BY <2>1, <2>2, <2>3, ElsewhereFits
<1>4. \/ \E f \in Bound(p, "CT1") :
            /\ s.agent = "KeysSampled" /\ frames' = frames
            /\ braid' = [braid EXCEPT ![p].agent = "EkSentCt1Received", ![p].active = NoSend,
                 ![p].tlvs = [i \in {1, 6} |-> IF i = 1 THEN @[1] ELSE f.payload[1]]]
      \/ \E source \in {<<s.tlvs[6], Mac(s, s.tlvs[6])>>} :
         \E key \in {OutputKey(s.tlvs[6], s.epoch)} :
            /\ s.agent = "Ct1Sampled"
            /\ braid' = [braid EXCEPT ![p].agent = "Ct2Sampled", ![p].ec.ns = @ + Ct2Chunks,
                                      ![p].tlvs = [i \in {7} |-> source], ![p].active = NoSend]
            /\ frames' = frames \cup CtFrames(p, s, source, key)
  BY DEF Ct1Elsewhere, CtFrames
<1>5. CASE \E f \in Bound(p, "CT1") :
              /\ s.agent = "KeysSampled" /\ frames' = frames
              /\ braid' = [braid EXCEPT ![p].agent = "EkSentCt1Received", ![p].active = NoSend,
                   ![p].tlvs = [i \in {1, 6} |-> IF i = 1 THEN @[1] ELSE f.payload[1]]]
  BY <1>2, <1>5
<1>6. ASSUME NEW source, NEW key, s.agent = "Ct1Sampled",
             braid' = [braid EXCEPT ![p].agent = "Ct2Sampled", ![p].ec.ns = @ + Ct2Chunks,
                                    ![p].tlvs = [i \in {7} |-> source], ![p].active = NoSend],
             frames' = frames \cup CtFrames(p, s, source, key)
      PROVE  BraidInv'
  <2>1. braid' = [braid EXCEPT ![p] = CtSent(p, s, source)]
    BY <1>6 DEF CtSent, BraidInv
  <2> HIDE DEF s
  <2> QED
    BY <1>3, <1>6, <2>1
<1> HIDE DEF s
<1> QED
  BY <1>4, <1>5, <1>6

LEMMA ChunkElsewhereFits ==
    ASSUME BraidInv, NEW p \in Sides, Idle(p), ChunkElsewhere(p), intent' = intent
    PROVE  BraidInv'
<1> DEFINE s == braid[p]
           t == braid[Facing(p)]
           S == Sent(p, NoIntent, frames)
<1>1. /\ SideFits(p, s) /\ SideFits(Facing(p), t) /\ SendingFits(p, s, S)
      /\ Together(s, t) /\ Together(t, s) /\ s.phase = 0
  BY IdleFacts
<1>2. PICK f \in Bound(p, "HDR") \cup Bound(p, "CT2") :
        /\ \/ f.kind = "HDR" /\ s.agent = "NoHeaderReceived"
           \/ f.kind = "CT2" /\ s.agent = "EkSentCt1Received"
        /\ ~Conflicts(s, f) /\ frames' = frames
        /\ braid' = [braid EXCEPT ![p] = Inserted(s, f)]
  BY DEF ChunkElsewhere
<1>3. f.epoch = s.epoch
  BY BoundFits
<1>4. s = braid[p] /\ t = braid[Facing(p)] /\ S = Sent(p, NoIntent, frames)
  OBVIOUS
<1> DEFINE n == Inserted(s, f)
<1> HIDE DEF s, t, S
<1>5. StepFits(p, s, n, t, S)
  BY <1>1, <1>2, <1>3, ChunkEnters
<1>6. frames' = frames /\ braid' = [braid EXCEPT ![p] = n]
  BY <1>2
<1> HIDE DEF n
<1> QED
  BY <1>4, <1>5, <1>6, QuietFits

LEMMA EpochElsewhereFits ==
    ASSUME BraidInv, NEW p \in Sides, Idle(p), EpochElsewhere(p), intent' = intent
    PROVE  BraidInv'
<1> DEFINE s == braid[p]
           t == braid[Facing(p)]
           S == Sent(p, NoIntent, frames)
           n == [s EXCEPT !.agent = "KeysUnsampled", !.epoch = @ + 1, !.tlvs = <<>>]
<1>1. /\ SideFits(p, s) /\ SideFits(Facing(p), t) /\ SendingFits(p, s, S)
      /\ Together(s, t) /\ Together(t, s) /\ s.phase = 0
  BY IdleFacts
<1>2. /\ s.agent = "Ct2Sampled" /\ t.epoch = s.epoch + 1 /\ frames' = frames
      /\ braid' = [braid EXCEPT ![p].agent = "KeysUnsampled", ![p].epoch = @ + 1, ![p].tlvs = <<>>]
  BY DEF EpochElsewhere
<1>3. braid' = [braid EXCEPT ![p] = n]
  BY <1>2 DEF BraidInv
<1>4. s = braid[p] /\ t = braid[Facing(p)] /\ S = Sent(p, NoIntent, frames)
  OBVIOUS
<1> HIDE DEF s, t, S
<1>5. StepFits(p, s, n, t, S)
  BY <1>1, <1>2, EpochBegins
<1> HIDE DEF n
<1> QED
  BY <1>2, <1>3, <1>4, <1>5, QuietFits

LEMMA ElsewhereAgentFits ==
    ASSUME BraidInv, NEW p \in Sides, ElsewhereAgent(p)
    PROVE  BraidInv'
<1>1. Idle(p) /\ intent' = intent
  BY DEF ElsewhereAgent
<1> QED
  BY <1>1, HdrElsewhereFits, Ct1ElsewhereFits, ChunkElsewhereFits, EpochElsewhereFits
  DEF ElsewhereAgent

LEMMA BraidStarts == BraidInit => BraidInv
<1> SUFFICES ASSUME BraidInit PROVE BraidInv
  OBVIOUS
<1>1. /\ braid = [p \in Sides |-> braid[p]] /\ intent = [p \in Sides |-> intent[p]]
      /\ \A f \in frames : f.from \in Sides
  BY DEF BraidInit
<1>2. ASSUME NEW p \in Sides
      PROVE  /\ intent[p] = NoIntent
             /\ braid[p].agent = (IF p = FirstSender THEN "KeysUnsampled" ELSE "NoHeaderReceived")
             /\ braid[p].epoch = 1 /\ braid[p].sendEpoch = 0 /\ braid[p].recvEpoch = 0
             /\ braid[p].generation = 0 /\ braid[p].phase = 0 /\ braid[p].replays = {}
             /\ braid[p].sets = (IF p = FirstSender THEN {} ELSE {EmptySet("HDR", 1)})
             /\ braid[p].tlvs = <<>> /\ braid[p].auth = <<>>
             /\ braid[p].scka.root = <<>> /\ braid[p].scka.send = {} /\ braid[p].scka.recv = {}
  <2> HIDE DEF EmptySet
  <2> QED
    BY DEF BraidInit
<1>3. ASSUME NEW p \in Sides PROVE Shaped(braid[p])
  <2> DEFINE a == IF p = FirstSender THEN "KeysUnsampled" ELSE "NoHeaderReceived"
             X == IF p = FirstSender THEN {} ELSE {EmptySet("HDR", 1)}
             d == IF p = FirstSender THEN 1 ELSE 2
  <2>1. braid[p] =
         [agent |-> a, epoch |-> 1, sendEpoch |-> 0, recvEpoch |-> 0,
          generation |-> 0, phase |-> 0, replays |-> {}, sets |-> X, active |-> NoSend,
          tlvs |-> <<>>, auth |-> <<>>, scka |-> [root |-> <<>>, send |-> {}, recv |-> {}],
          ec |-> [dh |-> d, dhr |-> 1, ns |-> 0, nr |-> 0, pn |-> 0]]
    BY DEF BraidInit
  <2>2. d \in Nat \ {0}
    OBVIOUS
  <2> HIDE DEF a, X, d
  <2> QED
    BY <2>1, <2>2 DEF Shaped
<1>4. /\ Listed(<<>>) /\ Len(<<>>) = 0
      /\ Cardinality({}) = 0
  BY EmptySeq, FS_EmptySet DEF Listed
<1>5. ASSUME NEW p \in Sides PROVE SideFits(p, braid[p])
  <2>1. ReplaysFit(braid[p])
    <3>1. 0 .. 0 - 1 = {}
      OBVIOUS
    <3>2. Cardinality(braid[p].replays) = 0 /\ braid[p].replays = 0 .. 0 - 1
      BY <1>2, <1>4, <3>1
    <3>3. 0 <= MaxReplays
      BY BraidConstants
    <3>4. braid[p].phase = 0 /\ braid[p].generation = 0
      BY <1>2
    <3> QED
      BY <3>2, <3>3, <3>4 DEF ReplaysFit
  <2>2. RoleFits(p, braid[p])
    <3>1. Heads(p, 1) <=> p = FirstSender
      BY DEF Heads
    <3>2. DOMAIN <<>> = {}
      BY EmptySeq
    <3>3. Tags("KeysUnsampled") = {} /\ Tags("NoHeaderReceived") = {}
      BY DEF Tags
    <3>4. DOMAIN braid[p].tlvs = {} /\ braid[p].epoch = 1
          /\ braid[p].sendEpoch = 0 /\ braid[p].recvEpoch = 0
      BY <1>2, <3>2
    <3>5. Tags(braid[p].agent) = {}
      BY <1>2, <3>3
    <3>6. IF Heads(p, 1) THEN braid[p].agent \in HeaderAgents ELSE braid[p].agent \in CtAgents
      BY <1>2, <3>1 DEF HeaderAgents, CtAgents
    <3> QED
      BY <3>4, <3>5, <3>6 DEF RoleFits
  <2>3. SetsFit(braid[p]) /\ ActiveFits(braid[p])
    <3>1. OneSet({EmptySet("HDR", 1)}, "HDR", 1)
      BY DEF OneSet, SetFits, EmptySet
    <3> QED
      BY <1>2, <3>1 DEF SetsFit, ActiveFits
  <2>4. RootsFit(p, braid[p])
    <3>1. ~HasMixed(braid[p]) /\ braid[p].agent # "Ct1Sampled"
      BY <1>2 DEF HasMixed
    <3>2. ChainsFit(braid[p])
      <4>1. Cardinality(braid[p].scka.send) = 0 /\ Cardinality(braid[p].scka.recv) = 0
        BY <1>2, <1>4
      <4>2. 0 <= MaxChain
        BY BraidConstants
      <4> QED
        BY <4>1, <4>2 DEF ChainsFit
    <3> QED
      BY <1>2, <1>4, <3>1, <3>2 DEF RootsFit
  <2> QED
    BY <1>3, <2>1, <2>2, <2>3, <2>4 DEF SideFits
<1>6. ASSUME NEW p \in Sides PROVE EndFits(p, braid[p], intent[p], frames)
  <2>1. IntentFits(p, braid[p], intent[p], frames)
    BY <1>2 DEF IntentFits
  <2>2. Sent(p, intent[p], frames) = {}
    BY <1>2 DEF Sent, BraidInit, NoIntent
  <2>3. SendingFits(p, braid[p], {})
    BY DEF SendingFits
  <2> QED
    BY <1>5, <2>1, <2>2, <2>3 DEF EndFits
<1>7. ASSUME NEW p \in Sides PROVE Together(braid[p], braid[Facing(p)])
  <2>1. Facing(p) \in Sides
    BY TwoSides
  <2>2. braid[p].epoch = 1 /\ braid[Facing(p)].epoch = 1 /\ braid[p].scka.root = <<>>
        /\ braid[p].agent # "EkSentCt1Received"
    BY <1>2, <2>1
  <2> QED
    BY <1>4, <2>2 DEF Together
<1> QED
  BY <1>1, <1>6, <1>7 DEF BraidInv

LEMMA BraidSteps == BraidInv /\ [BraidNext]_braidVars => BraidInv'
<1> SUFFICES ASSUME BraidInv, [BraidNext]_braidVars PROVE BraidInv'
  OBVIOUS
<1>1. CASE UNCHANGED braidVars
  BY <1>1 DEF BraidInv, braidVars
<1>2. ASSUME NEW p \in Sides, KeysUnsampledSend(p) PROVE BraidInv'
  BY <1>2, HeaderDrafted
<1>3. ASSUME NEW p \in Sides, HdrReceive(p) PROVE BraidInv'
  BY <1>3, ChunkDrafted
<1>4. ASSUME NEW p \in Sides, HeaderReceivedSend(p) PROVE BraidInv'
  BY <1>4, Ct1Drafted
<1>5. ASSUME NEW p \in Sides, Ct2Receive(p) PROVE BraidInv'
  BY <1>5, EpochDrafted
<1>6. ASSUME NEW p \in Sides, Persist(p) PROVE BraidInv'
  BY <1>6, PersistFits
<1>7. ASSUME NEW p \in Sides, Promote(p) PROVE BraidInv'
  BY <1>7, PromoteFits
<1>8. ASSUME NEW p \in Sides, Clear(p) PROVE BraidInv'
  BY <1>8, ClearFits
<1>9. ASSUME NEW p \in Sides, BraidCrash(p) PROVE BraidInv'
  BY <1>9, CrashFits
<1>10. ASSUME NEW p \in Sides, ElsewhereAgent(p) PROVE BraidInv'
  BY <1>10, ElsewhereAgentFits
<1> QED
  BY <1>1, <1>2, <1>3, <1>4, <1>5, <1>6, <1>7, <1>8, <1>9, <1>10 DEF BraidNext

LEMMA PrefixOf ==
    ASSUME NEW q, NEW r, Listed(q), Listed(r), Len(q) <= Len(r),
           \A k \in 1 .. Len(q) : k <= Len(r) => q[k] = r[k]
    PROVE  IsPrefix(q, r)
<1> DEFINE T == {q[k] : k \in DOMAIN q} \cup {r[k] : k \in DOMAIN r}
           m == Len(q)
<1>1. q \in Seq(T) /\ r \in Seq(T)
  BY SeqMonotonic DEF Listed
<1> HIDE DEF T
<1>2. m \in Nat /\ Len(r) \in Nat /\ \A k \in 1 .. m : q[k] \in T /\ r[k] \in T
  <2>1. /\ m \in Nat /\ Len(r) \in Nat
        /\ \A k \in 1 .. m : q[k] \in T
        /\ \A k \in 1 .. Len(r) : r[k] \in T
    BY <1>1, ElementOfSeq, LenProperties
  <2> QED
    BY <2>1
<1> DEFINE u == SubSeq(q, 1, m)
           v == SubSeq(r, 1, m)
<1>3. /\ u \in Seq(T) /\ Len(u) = (IF 1 <= m THEN m - 1 + 1 ELSE 0)
      /\ \A k \in 1 .. m - 1 + 1 : u[k] = q[1 + k - 1]
  <2>1. 1 \in Int /\ m \in Int
    BY <1>2
  <2> HIDE DEF m
  <2> QED
    BY <1>2, <2>1, SubSeqProperties
<1>4. /\ v \in Seq(T) /\ Len(v) = (IF 1 <= m THEN m - 1 + 1 ELSE 0)
      /\ \A k \in 1 .. m - 1 + 1 : v[k] = r[1 + k - 1]
  <2>1. 1 \in Int /\ m \in Int
    BY <1>2
  <2> HIDE DEF m
  <2> QED
    BY <1>2, <2>1, SubSeqProperties
<1> HIDE DEF u, v
<1>5. Len(u) = m /\ Len(v) = m
  <2> HIDE DEF m
  <2> QED
    BY <1>2, <1>3, <1>4
<1>6. \A k \in 1 .. m : u[k] = v[k]
  <2> TAKE k \in 1 .. m
  <2>1. k \in 1 .. m - 1 + 1 /\ 1 + k - 1 = k /\ k <= Len(r)
    BY <1>2
  <2>2. u[k] = q[k] /\ v[k] = r[k]
    BY <2>1, <1>3, <1>4
  <2>3. q[k] = r[k]
    BY <2>1
  <2> QED
    BY <2>2, <2>3
<1>7. u = v
  <2> HIDE DEF m
  <2> QED
    BY <1>3, <1>4, <1>5, <1>6, SeqEqual
<1> QED
  BY <1>7 DEF IsPrefix, u, v

LEMMA FramesApart ==
    ASSUME BraidInv, NEW f \in frames, NEW g \in frames, f.from = g.from, f # g
    PROVE  Apart(f, g)
<1> DEFINE p == f.from
<1>1. p \in Sides
  BY DEF BraidInv
<1>2. f \in Sent(p, intent[p], frames) /\ g \in Sent(p, intent[p], frames)
  BY DEF Sent
<1>3. SendingFits(p, braid[p], Sent(p, intent[p], frames))
  BY <1>1 DEF BraidInv, EndFits
<1> QED
  BY <1>2, <1>3 DEF SendingFits

\* Two sides agree on the output keys.
LEMMA RootsAgree ==
    ASSUME NEW p \in Sides, NEW s, NEW t, SideFits(p, s), SideFits(Facing(p), t),
           Together(s, t), Together(t, s)
    PROVE  /\ IsPrefix(s.scka.root, t.scka.root) \/ IsPrefix(t.scka.root, s.scka.root)
           /\ s.auth = s.scka.root /\ t.auth = t.scka.root
           /\ Len(s.scka.root) <= Len(t.scka.root) + 1 /\ Len(t.scka.root) <= Len(s.scka.root) + 1
           /\ s.scka.send \cap t.scka.send = {} /\ s.scka.recv \cap t.scka.recv = {}
<1>1. RootsFit(p, s) /\ RootsFit(Facing(p), t) /\ Facing(p) \in Sides
  BY TwoSides DEF SideFits
<1>2. Listed(s.scka.root) /\ Listed(t.scka.root) /\ s.auth = s.scka.root /\ t.auth = t.scka.root
  BY <1>1 DEF RootsFit
<1>3. /\ s.epoch \in Nat /\ t.epoch \in Nat
      /\ Len(s.scka.root) \in Nat /\ Len(t.scka.root) \in Nat
      /\ Len(s.scka.root) = (IF HasMixed(s) THEN s.epoch ELSE s.epoch - 1)
      /\ Len(t.scka.root) = (IF HasMixed(t) THEN t.epoch ELSE t.epoch - 1)
  BY <1>1, SideFacts
<1>4. /\ s.epoch = t.epoch \/ s.epoch = t.epoch + 1 \/ t.epoch = s.epoch + 1
      /\ s.epoch = t.epoch + 1 => s.agent = "NoHeaderReceived" /\ HasMixed(t)
      /\ t.epoch = s.epoch + 1 => t.agent = "NoHeaderReceived" /\ HasMixed(s)
  BY PairFacts
<1>5. s.agent = "NoHeaderReceived" => ~HasMixed(s)
  BY DEF HasMixed
<1>6. t.agent = "NoHeaderReceived" => ~HasMixed(t)
  BY DEF HasMixed
<1>7. Len(s.scka.root) <= Len(t.scka.root) + 1 /\ Len(t.scka.root) <= Len(s.scka.root) + 1
  BY <1>3, <1>4, <1>5, <1>6
<1>8. IsPrefix(s.scka.root, t.scka.root) \/ IsPrefix(t.scka.root, s.scka.root)
  <2>1. CASE Len(s.scka.root) <= Len(t.scka.root)
    BY <1>2, <2>1, PrefixOf DEF Together
  <2>2. CASE Len(t.scka.root) <= Len(s.scka.root)
    BY <1>2, <2>2, PrefixOf DEF Together
  <2> QED
    BY <1>3, <2>1, <2>2
<1>9. s.scka.send \cap t.scka.send = {} /\ s.scka.recv \cap t.scka.recv = {}
  <2>1. \A e \in Nat : Heads(Facing(p), e) <=> ~Heads(p, e)
    BY TwoSides
  <2>2. /\ \A e \in s.scka.send : ~Heads(p, e) /\ e \in Nat
        /\ \A e \in s.scka.recv : Heads(p, e) /\ e \in Nat
    BY <1>1, <1>3 DEF RootsFit
  <2>3. /\ \A e \in t.scka.send : ~Heads(Facing(p), e)
        /\ \A e \in t.scka.recv : Heads(Facing(p), e)
    BY <1>1 DEF RootsFit
  <2> QED
    BY <2>1, <2>2, <2>3
<1> QED
  BY <1>2, <1>7, <1>8, <1>9

\* What is said of one side.
LEMMA SideSound ==
    ASSUME NEW p \in Sides, NEW s, NEW i, NEW F, SideFits(p, s), IntentFits(p, s, i, F)
    PROVE  /\ Encodable(s)
           /\ s.scka.root # <<>> => Len(s.scka.root) \in s.scka.send \cup s.scka.recv
           /\ s.sendEpoch < s.epoch /\ s.recvEpoch < s.epoch
           /\ Cardinality(s.replays) = s.generation + (IF s.phase = 0 THEN 0 ELSE 1)
           /\ s.phase = 0 <=> i.kind # "persisted"
<1>1. ReplaysFit(s) /\ RoleFits(p, s) /\ SetsFit(s) /\ RootsFit(p, s)
  BY DEF SideFits
<1>2. s.generation \in Nat /\ s.phase \in 0 .. 2 /\ Len(s.scka.root) \in Nat
  BY SideFacts
<1>3. /\ \A j, k \in s.sets : j = k
      /\ \A j \in s.sets : \A c, d \in j.chunks : c.index = d.index => c = d
  BY <1>1 DEF SetsFit, OneSet, SetFits
<1>4. Encodable(s)
  BY <1>1, <1>3 DEF Encodable, ReplaysFit, RoleFits, RootsFit
<1>5. s.scka.root # <<>> => Len(s.scka.root) \in s.scka.send \cup s.scka.recv
  <2>1. Len(s.scka.root) = 0 => s.scka.root = <<>>
    BY <1>1, EmptySeq DEF RootsFit, Listed
  <2> QED
    BY <1>1, <2>1 DEF RootsFit
<1>6. s.sendEpoch < s.epoch /\ s.recvEpoch < s.epoch
  BY <1>1 DEF RoleFits
<1>7. Cardinality(s.replays) = s.generation + (IF s.phase = 0 THEN 0 ELSE 1)
  <2> DEFINE last == IF s.phase = 0 THEN s.generation - 1 ELSE s.generation
  <2>1. last \in Int /\ last + 1 = s.generation + (IF s.phase = 0 THEN 0 ELSE 1)
        /\ last + 1 >= 0
    BY <1>2
  <2>2. s.replays = 0 .. last
    BY <1>1 DEF ReplaysFit
  <2> HIDE DEF last
  <2>3. Cardinality(0 .. last) = IF 0 > last THEN 0 ELSE last - 0 + 1
    BY <2>1, FS_Interval
  <2>4. Cardinality(0 .. last) = last + 1
    BY <2>1, <2>3
  <2> QED
    BY <2>1, <2>2, <2>4
<1>8. s.phase = 0 <=> i.kind # "persisted"
  BY DEF IntentFits, NoIntent
<1> QED
  BY <1>4, <1>5, <1>6, <1>7, <1>8

LEMMA BraidFits == BraidInv => BraidSound
<1> SUFFICES ASSUME BraidInv PROVE BraidSound
  OBVIOUS
<1>1. \A f, g \in frames : f.from = g.from /\ f # g =>
        /\ <<f.kind, f.epoch, f.index>> # <<g.kind, g.epoch, g.index>>
        /\ f.seal = NoSeal \/ g.seal = NoSeal \/ <<f.seal.dh, f.seal.n>> # <<g.seal.dh, g.seal.n>>
  BY FramesApart DEF Apart
<1> DEFINE a == braid[FirstSender]
           b == braid[FirstReceiver]
<1>2. /\ SideFits(FirstSender, a) /\ SideFits(Facing(FirstSender), b)
      /\ Together(a, b) /\ Together(b, a) /\ FirstSender \in Sides
  <2>1. FirstSender \in Sides /\ FirstReceiver \in Sides /\ Facing(FirstSender) = FirstReceiver
    BY DEF Sides, Facing
  <2> QED
    BY <2>1, BothFit DEF EndFits
<1>3. /\ IsPrefix(a.scka.root, b.scka.root) \/ IsPrefix(b.scka.root, a.scka.root)
      /\ a.auth = a.scka.root /\ b.auth = b.scka.root
      /\ Len(a.scka.root) <= Len(b.scka.root) + 1 /\ Len(b.scka.root) <= Len(a.scka.root) + 1
      /\ a.scka.send \cap b.scka.send = {} /\ a.scka.recv \cap b.scka.recv = {}
  <2> HIDE DEF a, b
  <2> QED
    BY <1>2, RootsAgree
<1>4. ASSUME NEW p \in Sides
      PROVE  /\ Encodable(braid[p])
             /\ braid[p].scka.root # <<>> =>
                  Len(braid[p].scka.root) \in braid[p].scka.send \cup braid[p].scka.recv
             /\ braid[p].sendEpoch < braid[p].epoch /\ braid[p].recvEpoch < braid[p].epoch
             /\ Cardinality(braid[p].replays) =
                  braid[p].generation + (IF braid[p].phase = 0 THEN 0 ELSE 1)
             /\ braid[p].phase = 0 <=> intent[p].kind # "persisted"
  <2>1. SideFits(p, braid[p]) /\ IntentFits(p, braid[p], intent[p], frames)
    BY DEF BraidInv, EndFits
  <2> QED
    BY <2>1, SideSound
<1>5. /\ IsPrefix(a.scka.root, b.scka.root) \/ IsPrefix(b.scka.root, a.scka.root)
      /\ IsPrefix(a.auth, b.auth) \/ IsPrefix(b.auth, a.auth)
      /\ Len(a.scka.root) <= Len(b.scka.root) + 1 /\ Len(b.scka.root) <= Len(a.scka.root) + 1
      /\ a.scka.send \cap b.scka.send = {} /\ a.scka.recv \cap b.scka.recv = {}
  <2> HIDE DEF a, b
  <2> QED
    BY <1>3
<1> QED
  BY <1>1, <1>4, <1>5 DEF BraidSound

\* Whatever the network repeats and wherever a prepared transition is lost: no
\* chunk has two payloads and no counter seals two messages; the sides mix the same
\* output keys in one order, at most an epoch apart, each epoch into chains of its
\* own direction; and what is persisted can be encoded, with one replay record for
\* each generation, for any numbers of chunks, chains, replay records and epochs.
THEOREM BraidHolds == BraidSpec => []BraidSound
<1> QED
  BY BraidStarts, BraidSteps, BraidFits, PTL DEF BraidSpec
=============================================================================
