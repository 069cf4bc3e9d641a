-------------------------- MODULE DeviceRevocation --------------------------
(***************************************************************************)
(* The store of device revocations, as device_revocation_conformance.py    *)
(* defines it: signed claims arrive in any order and any number of times,  *)
(* fill a quota, leave markers when they do not fit, and are journalled by *)
(* a writer outside this code before they are applied.  A claim stands for *)
(* its exact bytes, so also for its digest.                                *)
(***************************************************************************)
EXTENDS Naturals, Sequences, FiniteSets, SequencesExt

CONSTANTS
    RevokeClaims,    \* signed revocation records of the identity
    ForeignClaims,   \* records that do not decode, or that it did not sign
    Handles,         \* [RevokeClaims -> the four handles of the device]
    RevocationId,    \* [RevokeClaims -> revocation_id]
    Issuer,          \* [RevokeClaims -> issuer_device_id]
    IssuerSeq,       \* [RevokeClaims -> issuer_seq]
    Quota, MaxQuota, \* max_claims, and how far it is expanded
    MaxJournals      \* bound: writes, damages, conversions of the journal

ASSUME QuotaGrows == Quota \in Nat /\ MaxQuota \in Nat /\ Quota <= MaxQuota

VARIABLES
    claims,       \* applied claims
    revokedBy,    \* revoked handle -> claim that revoked it first
    exhausted,    \* claims with an exhausted marker
    corrupt,      \* number of corrupt markers
    firstOf,      \* seen_revocation_ids
    collisions,   \* pairs of claims with one revocation_id
    heads,        \* issuer_heads: issuer -> claim
    forks,        \* pairs of claims at one place of an issuer
    maxClaims,
    generation,
    journal,      \* the pending record
    journals,
    answered      \* history: claims whose application was acknowledged

revokeVars == <<claims, revokedBy, exhausted, corrupt, firstOf, collisions, heads,
                forks, maxClaims, generation, journal, journals, answered>>

NoJournal == [kind |-> "none"]
Journal(kind, c, whole) == [kind |-> kind, claim |-> c, whole |-> whole]

RevokeInit ==
    /\ claims = {} /\ exhausted = {} /\ collisions = {} /\ forks = {} /\ answered = {}
    /\ revokedBy = <<>> /\ firstOf = <<>> /\ heads = <<>>
    /\ corrupt = 0 /\ generation = 0 /\ journals = 0
    /\ maxClaims = Quota
    /\ journal = NoJournal

-----------------------------------------------------------------------------
\* The world: the writer of the journal, and its disk.

JournalWritten ==
    /\ journals < MaxJournals /\ journals' = journals + 1
    /\ \/ \E c \in RevokeClaims \cup ForeignClaims :
             /\ journal.kind = "none"
             /\ journal' = Journal("PENDING_REVOKE", c, TRUE)
       \/ /\ journal.kind # "none" /\ journal.whole
          /\ journal' = [journal EXCEPT !.whole = FALSE]
    /\ UNCHANGED <<claims, revokedBy, exhausted, corrupt, firstOf, collisions, heads,
                   forks, maxClaims, generation, answered>>

-----------------------------------------------------------------------------
\* apply_verified_claim.

\* Either the journal holds exactly this claim, or it is not one that has to be
\* converted first.
MayApply(c, pending) ==
    IF pending
    THEN journal = Journal("PENDING_REVOKE", c, TRUE)
    ELSE journal.kind # "PENDING_REVOKE_EXHAUSTED"

\* Known claims are acknowledged again, even by a corrupt store, and leave a
\* journal as it is.
ApplyAgain(c, pending) ==
    /\ MayApply(c, pending) /\ c \in claims
    /\ answered' = answered \cup {c}
    /\ UNCHANGED <<claims, revokedBy, exhausted, corrupt, firstOf, collisions, heads,
                   forks, maxClaims, generation, journal, journals>>

\* No room: the claim is kept in a marker and in the journal, and everything
\* is denied.
ApplyExhausted(c, pending) ==
    /\ MayApply(c, pending) /\ c \notin claims /\ corrupt = 0
    /\ Cardinality(claims) >= maxClaims
    /\ exhausted' = exhausted \cup {c}
    /\ journal' = Journal("PENDING_REVOKE_EXHAUSTED", c, TRUE)
    /\ generation' = generation + 1
    /\ answered' = answered \cup {c}
    /\ UNCHANGED <<claims, revokedBy, corrupt, firstOf, collisions, heads, forks,
                   maxClaims, journals>>

\* A second claim with the id of a first one is a collision.
NoteId(c) ==
    IF RevocationId[c] \in DOMAIN firstOf
    THEN collisions' = collisions \cup {<<firstOf[RevocationId[c]], c>>} /\ UNCHANGED firstOf
    ELSE /\ firstOf' = [i \in DOMAIN firstOf \cup {RevocationId[c]} |->
                         IF i = RevocationId[c] THEN c ELSE firstOf[i]]
         /\ UNCHANGED collisions

\* A fork is noticed against the last claim of the issuer, whatever its number.
NoteHead(c) ==
    /\ heads' = [i \in DOMAIN heads \cup {Issuer[c]} |->
                  IF i = Issuer[c] THEN c ELSE heads[i]]
    /\ forks' = IF Issuer[c] \in DOMAIN heads /\ IssuerSeq[heads[Issuer[c]]] = IssuerSeq[c]
                THEN forks \cup {<<heads[Issuer[c]], c>>} ELSE forks

\* Mutant: room that was made clears every marker.
ApplyNewClearsAll(c, pending) ==
    /\ MayApply(c, pending) /\ c \notin claims /\ corrupt = 0
    /\ Cardinality(claims) < maxClaims
    /\ NoteId(c) /\ NoteHead(c)
    /\ claims' = claims \cup {c}
    /\ revokedBy' = [h \in DOMAIN revokedBy \cup Handles[c] |->
                      IF h \in DOMAIN revokedBy THEN revokedBy[h] ELSE c]
    /\ exhausted' = {}
    /\ journal' = IF journal.kind = "PENDING_REVOKE" THEN NoJournal ELSE journal
    /\ generation' = generation + 1
    /\ answered' = answered \cup {c}
    /\ UNCHANGED <<corrupt, maxClaims, journals>>

\* The claim is inserted, its handles are denied from now on, and a pending
\* journal is cleared, that of another claim too.
ApplyNew(c, pending) ==
    /\ MayApply(c, pending) /\ c \notin claims /\ corrupt = 0
    /\ Cardinality(claims) < maxClaims
    /\ NoteId(c) /\ NoteHead(c)
    /\ claims' = claims \cup {c}
    /\ revokedBy' = [h \in DOMAIN revokedBy \cup Handles[c] |->
                      IF h \in DOMAIN revokedBy THEN revokedBy[h] ELSE c]
    /\ exhausted' = exhausted \ {c}
    /\ journal' = IF journal.kind = "PENDING_REVOKE" THEN NoJournal ELSE journal
    /\ generation' = generation + 1
    /\ answered' = answered \cup {c}
    /\ UNCHANGED <<corrupt, maxClaims, journals>>

ExpandQuota ==
    /\ maxClaims < MaxQuota
    /\ maxClaims' = maxClaims + 1
    /\ UNCHANGED <<claims, revokedBy, exhausted, corrupt, firstOf, collisions, heads,
                   forks, generation, journal, journals, answered>>

ConvertExhausted ==
    /\ journal.kind = "PENDING_REVOKE_EXHAUSTED"
    /\ journals < MaxJournals /\ journals' = journals + 1
    /\ journal' = [journal EXCEPT !.kind = "PENDING_REVOKE"]
    /\ UNCHANGED <<claims, revokedBy, exhausted, corrupt, firstOf, collisions, heads,
                   forks, maxClaims, generation, answered>>

\* A journal that cannot be verified again is dropped, and the store is corrupt.
ReverifyFails ==
    /\ journal.kind # "none"
    /\ ~journal.whole \/ journal.claim \in ForeignClaims
    /\ corrupt' = corrupt + 1
    /\ journal' = NoJournal
    /\ generation' = generation + 1
    /\ UNCHANGED <<claims, revokedBy, exhausted, firstOf, collisions, heads, forks,
                   maxClaims, journals, answered>>

RevokeNext ==
    \/ JournalWritten \/ ExpandQuota \/ ConvertExhausted \/ ReverifyFails
    \/ \E c \in RevokeClaims, pending \in BOOLEAN :
          ApplyAgain(c, pending) \/ ApplyExhausted(c, pending) \/ ApplyNew(c, pending)

RevokeSpec == RevokeInit /\ [][RevokeNext]_revokeVars

-----------------------------------------------------------------------------
\* Properties.

\* authorize_device, for a device that shows the handles hs.
Authorized(hs) ==
    /\ corrupt = 0 /\ exhausted = {}
    /\ hs \cap DOMAIN revokedBy = {}

RevokeTypeOK ==
    /\ claims \subseteq RevokeClaims /\ exhausted \subseteq RevokeClaims
    /\ Range(revokedBy) \subseteq claims
    /\ corrupt \in Nat /\ maxClaims \in Quota .. MaxQuota
    /\ journal.kind \in {"none", "PENDING_REVOKE", "PENDING_REVOKE_EXHAUSTED"}

\* What a state of the store says, but for its journal and its quota.
Contents == <<claims, revokedBy, exhausted, corrupt, firstOf, collisions, heads, forks>>

\* No generation stands for two contents: it is never set back, and none of the
\* operations changes what the store says and leaves it as it was.
GenerationStep ==
    /\ generation' >= generation
    /\ Contents' # Contents => generation' > generation

\* What was acknowledged is applied or has its marker, and so does not depend on
\* the journal, which the next claim that is inserted clears for any other; no
\* handle of a device whose revocation was acknowledged is authorized again; a
\* claim waiting for room keeps its marker; and of two claims with one id, the
\* later one is on record as a collision with the first.
ClaimsKept ==
    /\ answered \subseteq claims \cup exhausted
    /\ \A c \in answered : \A h \in Handles[c] : ~Authorized({h})
    /\ journal.kind = "PENDING_REVOKE_EXHAUSTED" => journal.claim \in exhausted
    /\ Cardinality(claims) <= maxClaims
    /\ \A c \in claims :
          \/ firstOf[RevocationId[c]] = c
          \/ <<firstOf[RevocationId[c]], c>> \in collisions

\* Whatever the order and number in which claims arrive, and whatever quota,
\* markers and journal go through, acknowledged revocations are kept, and each
\* content of the store has generations of its own.
RevocationSound == ClaimsKept /\ [][ClaimsKept' /\ GenerationStep]_revokeVars
=============================================================================
