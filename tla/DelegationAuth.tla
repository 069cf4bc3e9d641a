--------------------------- MODULE DelegationAuth ---------------------------
(***************************************************************************)
(* How a node decides whether a direct A2A request may run: the            *)
(* authorize() step of TeamAgentExecutor.execute, verify_delegation and    *)
(* the durable ReplayCache.first_time, on several worker threads           *)
(* (asyncio.to_thread) over one SQLite file, with a node that may crash    *)
(* and restart, policy files edited meanwhile, and a clock that moves      *)
(* between any two of the three places where the code reads it or its      *)
(* files.                                                                  *)
(*                                                                         *)
(* A delegation is its signature; what it signs is given by functions on   *)
(* signatures.  Deliveries are repeated and reordered freely.              *)
(***************************************************************************)
EXTENDS Integers, FiniteSets

CONSTANTS
    Threads,       \* worker threads that authorize requests
    Peers,         \* addresses that may appear as senders and transport owners
    Sigs,          \* signatures of delegations in circulation
    Sender,        \* [Sigs -> Peers]: signed sender
    Issued,        \* [Sigs -> Nat]: issued_at
    Expires,       \* [Sigs -> Nat]: expires_at
    Intact,        \* [Sigs -> BOOLEAN]: context, recipient, task id, kind, nonce
                   \*   and signature are what this verifier expects
    RequireSigned, \* require_signed
    MaxSkew,       \* MAX_FUTURE_SKEW_SECONDS
    MaxLifetime,   \* MAX_DELEGATION_TTL_SECONDS
    MaxEntries,    \* max_entries of the replay cache
    NoSig,         \* a request without raven metadata
    NoPeer,        \* no request, hence no owner
    MaxClock,      \* bound on the clock, for model checking only
    MaxRuns        \* runs of a signature are counted up to this number

VARIABLES
    clock,         \* int(time.time())
    trusted,       \* addresses in the trust file
    revoked,       \* addresses in the revocation file
    recorded,      \* signatures in replay_signatures (each with its Expires)
    req,           \* [Threads -> request in progress]
    runs,          \* [Sigs -> number of times execute went on with it]
    timely         \* [Sigs -> those of the acceptances committed before Expires]

vars == <<clock, trusted, revoked, recorded, req, runs, timely>>

ASSUME AuthConstants ==
    /\ Sender \in [Sigs -> Peers]
    /\ Issued \in [Sigs -> Nat]
    /\ Expires \in [Sigs -> Nat]
    /\ Intact \in [Sigs -> BOOLEAN]
    /\ RequireSigned \in BOOLEAN
    /\ NoSig \notin Sigs
    /\ NoPeer \notin Peers
    /\ MaxSkew \in Nat /\ MaxLifetime \in Nat
    /\ MaxEntries \in Nat \ {0}
    /\ MaxClock \in Nat /\ MaxRuns \in Nat

-----------------------------------------------------------------------------

Stages == {"idle", "peers", "revocations", "verify", "stamp", "commit", "run"}

\* A request being authorized.  known and barred are what the two policy files
\* said when they were loaded; everTrusted and everClear are history: whether
\* the sender was trusted, and unrevoked, at some moment since the request came.
Request == [at : Stages, sig : Sigs \cup {NoSig}, owner : Peers \cup {NoPeer},
            known : BOOLEAN, barred : BOOLEAN, now : Nat,
            everTrusted : BOOLEAN, everClear : BOOLEAN]

Idle == [at |-> "idle", sig |-> NoSig, owner |-> NoPeer, known |-> FALSE,
         barred |-> FALSE, now |-> 0, everTrusted |-> FALSE, everClear |-> FALSE]

\* The time bounds verify_delegation checks, at one reading of the clock.
InTime(sig, now) ==
    /\ Issued[sig] <= now + MaxSkew
    /\ Issued[sig] < Expires[sig]
    /\ Expires[sig] - Issued[sig] <= MaxLifetime
    /\ now < Expires[sig]

\* The rows first_time counts as existing, at its reading of the clock.
Live(now) == {s \in recorded : Expires[s] > now}

\* Mutant: one row too many.
FullLate(now) == Cardinality(Live(now)) > MaxEntries

\* No room for another row: first_time fails closed.
Full(now) == Cardinality(Live(now)) >= MaxEntries

\* Mutant: the revocation list is not consulted.
AcceptableUnlessUnknown(r) ==
    IF r.sig = NoSig THEN ~RequireSigned
    ELSE r.known /\ Intact[r.sig] /\ InTime(r.sig, clock)

\* What verify_delegation accepts, but for the replay check.  Without metadata it
\* accepts only when signatures are not required.
Acceptable(r) ==
    IF r.sig = NoSig THEN ~RequireSigned
    ELSE r.known /\ ~r.barred /\ Intact[r.sig] /\ InTime(r.sig, clock)

-----------------------------------------------------------------------------

Init ==
    /\ clock = 0
    /\ trusted \in SUBSET Peers
    /\ revoked = {}
    /\ recorded = {}
    /\ req = [t \in Threads |-> Idle]
    /\ runs = [s \in Sigs |-> 0]
    /\ timely = [s \in Sigs |-> 0]

\* A request reaches execute under an authenticated transport owner.
Arrive(t, sig, owner) ==
    /\ req[t].at = "idle"
    /\ req' = [req EXCEPT ![t] =
                [Idle EXCEPT !.at = "peers", !.sig = sig, !.owner = owner,
                             !.everTrusted = owner \in trusted,
                             !.everClear = owner \notin revoked]]
    /\ UNCHANGED <<clock, trusted, revoked, recorded, runs, timely>>

\* Mutant: the transport owner is not compared with the signer.
NeverForwarded(r) == FALSE

\* Signed by somebody else than the transport owner: rejected before the
\* signature is looked at.
IsForwarded(r) == r.sig # NoSig /\ r.owner # Sender[r.sig]

Forwarded(t) ==
    /\ req[t].at = "peers"
    /\ IsForwarded(req[t])
    /\ req' = [req EXCEPT ![t] = Idle]
    /\ UNCHANGED <<clock, trusted, revoked, recorded, runs, timely>>

\* current_peers(): hot reload of the trust file.
LoadPeers(t) ==
    /\ req[t].at = "peers"
    /\ ~IsForwarded(req[t])
    /\ req' = [req EXCEPT ![t].at = "revocations", ![t].known = req[t].owner \in trusted]
    /\ UNCHANGED <<clock, trusted, revoked, recorded, runs, timely>>

\* current_revocations(): hot reload of the revocation file.
LoadRevocations(t) ==
    /\ req[t].at = "revocations"
    /\ req' = [req EXCEPT ![t].at = "verify", ![t].barred = req[t].owner \in revoked]
    /\ UNCHANGED <<clock, trusted, revoked, recorded, runs, timely>>

\* verify_delegation: an accepted signature still has to pass the replay cache.
Verify(t) ==
    /\ req[t].at = "verify"
    /\ Acceptable(req[t])
    /\ req' = [req EXCEPT ![t].at = IF req[t].sig = NoSig THEN "run" ELSE "stamp"]
    /\ UNCHANGED <<clock, trusted, revoked, recorded, runs, timely>>

VerifyRefuses(t) ==
    /\ req[t].at = "verify"
    /\ ~Acceptable(req[t])
    /\ req' = [req EXCEPT ![t] = Idle]
    /\ UNCHANGED <<clock, trusted, revoked, recorded, runs, timely>>

\* Mutant: an allowance for skew is taken off the reading.
StampSkewed(t) ==
    /\ req[t].at = "stamp"
    /\ req' = [req EXCEPT ![t].at = "commit", ![t].now = clock - MaxLifetime]
    /\ UNCHANGED <<clock, trusted, revoked, recorded, runs, timely>>

\* first_time reads the clock before it has the lock and the transaction.
Stamp(t) ==
    /\ req[t].at = "stamp"
    /\ req' = [req EXCEPT ![t].at = "commit", ![t].now = clock]
    /\ UNCHANGED <<clock, trusted, revoked, recorded, runs, timely>>

\* first_time's transaction refuses: the signature is recorded and not expired,
\* or the cache is full of unexpired rows.  Nothing is written.
ReplayRefused(t) ==
    /\ req[t].at = "commit"
    /\ req[t].sig \in Live(req[t].now) \/ Full(req[t].now)
    /\ req' = [req EXCEPT ![t] = Idle]
    /\ UNCHANGED <<clock, trusted, revoked, recorded, runs, timely>>

\* first_time's transaction commits: it records the signature and drops the
\* other rows that are expired at its reading of the clock.
FirstTime(t) ==
    /\ req[t].at = "commit"
    /\ req[t].sig \notin Live(req[t].now)
    /\ ~Full(req[t].now)
    /\ recorded' = Live(req[t].now) \cup {req[t].sig}
    /\ timely' = IF clock < Expires[req[t].sig]
                 THEN [timely EXCEPT ![req[t].sig] = @ + 1]
                 ELSE timely
    /\ req' = [req EXCEPT ![t].at = "run"]
    /\ UNCHANGED <<clock, trusted, revoked, runs>>

\* An unreadable policy file or a broken replay database rejects the request.
Unavailable(t) ==
    /\ req[t].at \in {"peers", "revocations", "commit"}
    /\ req' = [req EXCEPT ![t] = Idle]
    /\ UNCHANGED <<clock, trusted, revoked, recorded, runs, timely>>

\* Back on the event loop, execute goes on: events, memory, brain.
Run(t) ==
    /\ req[t].at = "run"
    /\ runs' = IF req[t].sig # NoSig /\ runs[req[t].sig] < MaxRuns
               THEN [runs EXCEPT ![req[t].sig] = @ + 1]
               ELSE runs
    /\ req' = [req EXCEPT ![t] = Idle]
    /\ UNCHANGED <<clock, trusted, revoked, recorded, timely>>

\* Mutant: the replay cache is kept in memory only.
CrashForgets ==
    /\ req' = [t \in Threads |-> Idle]
    /\ recorded' = {}
    /\ UNCHANGED <<clock, trusted, revoked, runs, timely>>

\* The node stops and starts again: only the files survive.
Crash ==
    /\ req' = [t \in Threads |-> Idle]
    /\ UNCHANGED <<clock, trusted, revoked, recorded, runs, timely>>

\* The operator edits one of the policy files.
EditPolicy(peer) ==
    /\ \/ trusted' \in {trusted \cup {peer}, trusted \ {peer}} /\ UNCHANGED revoked
       \/ revoked' \in {revoked \cup {peer}, revoked \ {peer}} /\ UNCHANGED trusted
    /\ req' = [t \in Threads |->
                 [req[t] EXCEPT !.everTrusted = @ \/ req[t].owner \in trusted',
                                !.everClear = @ \/ req[t].owner \notin revoked']]
    /\ UNCHANGED <<clock, recorded, runs, timely>>

Tick ==
    /\ clock < MaxClock
    /\ clock' = clock + 1
    /\ UNCHANGED <<trusted, revoked, recorded, req, runs, timely>>

Step(t) ==
    \/ \E sig \in Sigs \cup {NoSig}, owner \in Peers : Arrive(t, sig, owner)
    \/ Forwarded(t)
    \/ LoadPeers(t)
    \/ LoadRevocations(t)
    \/ Verify(t)
    \/ VerifyRefuses(t)
    \/ Stamp(t)
    \/ ReplayRefused(t)
    \/ FirstTime(t)
    \/ Unavailable(t)
    \/ Run(t)

Next ==
    \/ \E t \in Threads : Step(t)
    \/ Crash
    \/ \E peer \in Peers : EditPolicy(peer)
    \/ Tick

Spec == Init /\ [][Next]_vars

-----------------------------------------------------------------------------
\* Properties.

\* The variables have the types the code gives them.
TypeOK ==
    /\ clock \in Nat
    /\ trusted \subseteq Peers
    /\ revoked \subseteq Peers
    /\ recorded \subseteq Sigs
    /\ IsFiniteSet(recorded)
    /\ req \in [Threads -> Request]
    /\ runs \in [Sigs -> Nat]
    /\ timely \in [Sigs -> Nat]

\* While a delegation is unexpired, at most one of all its deliveries, to
\* whatever threads and across whatever restarts, passes first_time.
OnceWhileValid == \A s \in Sigs : timely[s] <= 1

\* The replay database never holds more than max_entries rows, although
\* first_time counts only the rows unexpired at a clock reading made earlier.
CacheBounded == Cardinality(recorded) <= MaxEntries

\* A request that execute goes on with was authentic: signed by its transport
\* owner, intact, and its sender was trusted, and was not revoked, at some
\* moment since the request came; unsigned work only where it is allowed.
AcceptedWasAllowed ==
    \A t \in Threads : req[t].at = "run" =>
        IF req[t].sig = NoSig THEN ~RequireSigned
        ELSE /\ Intact[req[t].sig]
             /\ req[t].owner = Sender[req[t].sig]
             /\ req[t].everTrusted
             /\ req[t].everClear

\* A rejected request is mutation-free, and nobody but the sender uses up a
\* delegation: a signature is recorded only by the step that accepts it, under
\* its sender's transport identity.
RecordedByAcceptanceStep ==
    \A s \in recorded' \ recorded :
        \E t \in Threads :
            /\ req[t].sig = s /\ req[t].owner = Sender[s]
            /\ req'[t].at = "run" /\ req'[t].sig = s

RecordedOnlyByAcceptance == [][RecordedByAcceptanceStep]_vars

\* Housekeeping and restarts never forget a signature that is still valid.
ValidKeptStep == \A s \in recorded \ recorded' : Expires[s] <= clock

ValidNeverForgotten == [][ValidKeptStep]_vars

\* What the docstring of verify_delegation says: the second time the same
\* signature is observed it is rejected.  It fails at the expiry boundary, where
\* the clock passes expires_at between verify_delegation and first_time.
SignatureRunsOnce == \A s \in Sigs : runs[s] <= 1
=============================================================================
