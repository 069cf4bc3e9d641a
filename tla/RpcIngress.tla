---------------------------- MODULE RpcIngress -----------------------------
(***************************************************************************)
(* Admission of HTTP requests: RpcIngressLimitMiddleware of                *)
(* team_agents/server.py and the request authentication it calls.  A       *)
(* JSON-RPC request waits, for a bounded time, for one of the slots of the *)
(* server, has its body collected under a size and a time limit, is        *)
(* authenticated in a worker thread and is then given to the A2A           *)
(* application; every way out gives the slot back.                         *)
(*                                                                         *)
(* One action is what the middleware does between two awaits.  The         *)
(* semaphore is asyncio's: a slot that is released while requests wait is  *)
(* handed to the first of them, which may still time out before it runs.   *)
(* A signed request is its signature.  Genuine ones verify; whether their  *)
(* peer is trusted is left open, as module DelegationAuth has those checks *)
(* in detail.  A worker thread reads the clock twice, in the verification  *)
(* and again for the replay database, whose rows expire.                   *)
(***************************************************************************)
EXTENDS Integers, Sequences, FiniteSets, FiniteSetsExt, SequencesExt

CONSTANTS
    Requests,       \* HTTP requests
    Genuine,        \* signatures that verify
    HttpExpires,    \* [Genuine -> the expiry that is signed with it]
    Unsigned,       \* no Raven header at all
    Forged,         \* Raven headers that are incomplete or do not verify
    MaxConcurrent,  \* max_concurrent
    MaxBody,        \* max_body_bytes
    RequireAuth,    \* require_raven_auth
    MaxWall         \* bound of the model on the clock

VARIABLES
    signed,     \* [Requests -> the Raven headers the client sends]
    at,         \* [Requests -> where the request is]
    body,       \* [Requests -> bytes buffered for it]
    owner,      \* [Requests -> raven_owner, or ""]
    answer,     \* [Requests -> how the middleware left it]
    free,       \* the semaphore's value
    waiting,    \* the semaphore's waiters, first come first
    replay,     \* signatures in the replay database
    wall,       \* the clock, in seconds
    stamp,      \* [Requests -> the reading that first_time holds, or 0]
    inTime      \* history: admitted while their signature was valid

\* What verification reads and writes.
replayVars  == <<replay, wall, stamp, inTime>>
ingressVars == <<signed, at, body, owner, answer, free, waiting, replayVars>>

ASSUME IngressConstants ==
    /\ Unsigned # Forged
    /\ {Unsigned, Forged} \cap Genuine = {}
    /\ MaxConcurrent \in Nat \ {0}
    /\ MaxBody \in Nat \ {0}
    /\ RequireAuth \in BOOLEAN
    /\ HttpExpires \in [Genuine -> Nat]
    /\ MaxWall \in Nat

Headers == Genuine \cup {Unsigned, Forged}

\* Stages in which a request holds a slot, and all of them.
Holding       == {"handed", "body", "authorize", "stamp", "record", "app"}
IngressStages == {"arriving", "waiting", "passed", "ended"} \cup Holding
\* How it left: 400 and 401 are for good, 408, 413 and 503 are not; otherwise the
\* application answered, something raised, or the client was gone.
Answers       == {"", "refused", "again", "over"}

IngressInit ==
    /\ signed \in [Requests -> Headers]
    /\ at = [r \in Requests |-> "arriving"]
    /\ body = [r \in Requests |-> 0]
    /\ owner = [r \in Requests |-> ""]
    /\ answer = [r \in Requests |-> ""]
    /\ free = MaxConcurrent
    /\ waiting = <<>>
    /\ replay = {} /\ wall = 0 /\ inTime = {}
    /\ stamp = [r \in Requests |-> 0]

-----------------------------------------------------------------------------

Goto(r, stage)  == at' = [at EXCEPT ![r] = stage]
Answer(r, code)  == answer' = [answer EXCEPT ![r] = code]

\* r ends and gives its slot to the first waiter, if there is one.
Release(r) ==
    \/ /\ waiting = <<>>
       /\ Goto(r, "ended")
       /\ free' = free + 1
       /\ UNCHANGED waiting
    \/ /\ waiting # <<>>
       /\ at' = [at EXCEPT ![r] = "ended", ![Head(waiting)] = "handed"]
       /\ waiting' = Tail(waiting)
       /\ UNCHANGED free

\* The way out of the try block: the finally clause, and the answer.
Leave(r, code) ==
    /\ Release(r)
    /\ Answer(r, code)
    /\ body' = [body EXCEPT ![r] = 0]
    /\ stamp' = [stamp EXCEPT ![r] = 0]
    /\ UNCHANGED <<signed, owner, replay, wall, inTime>>

\* Anything but a POST of "/" goes to the application, without limits.
PassThrough(r) ==
    /\ at[r] = "arriving"
    /\ Goto(r, "passed")
    /\ UNCHANGED <<signed, body, owner, answer, free, waiting, replayVars>>

\* The bearer check stands outside: without the token no slot and no body.
BearerRefused(r) ==
    /\ at[r] = "arriving"
    /\ Answer(r, "refused")
    /\ Goto(r, "ended")
    /\ UNCHANGED <<signed, body, owner, free, waiting, replayVars>>

\* A Content-Length that is malformed or over the limit needs no slot.
LengthRefused(r) ==
    /\ at[r] = "arriving"
    /\ Answer(r, "refused") \/ Answer(r, "again")
    /\ Goto(r, "ended")
    /\ UNCHANGED <<signed, body, owner, free, waiting, replayVars>>

\* A slot, or a place behind those who wait for one.
Acquire(r) ==
    /\ at[r] = "arriving"
    /\ \/ /\ free > 0 /\ waiting = <<>>
          /\ free' = free - 1
          /\ Goto(r, "body")
          /\ UNCHANGED waiting
       \/ /\ free = 0 \/ waiting # <<>>
          /\ waiting' = Append(waiting, r)
          /\ Goto(r, "waiting")
          /\ UNCHANGED free
    /\ UNCHANGED <<signed, body, owner, answer, replayVars>>

\* The waiter that was handed a slot runs again.
Woken(r) ==
    /\ at[r] = "handed"
    /\ Goto(r, "body")
    /\ UNCHANGED <<signed, body, owner, answer, free, waiting, replayVars>>

\* Mutant: a waiter that times out with a slot in hand drops it.
QueueTimeoutLoses(r) ==
    /\ at[r] \in {"waiting", "handed"}
    /\ Goto(r, "ended")
    /\ waiting' = Remove(waiting, r)
    /\ Answer(r, "again")
    /\ UNCHANGED <<signed, body, owner, free, replayVars>>

\* Mutant: the acquire is inside the try block that releases.
QueueTimeoutReleases(r) ==
    /\ at[r] \in {"waiting", "handed"}
    /\ waiting' = Remove(waiting, r)
    /\ free' = free + 1
    /\ Goto(r, "ended")
    /\ Answer(r, "again")
    /\ UNCHANGED <<signed, body, owner, replayVars>>

\* wait_for cancels the acquire; a slot that was handed over goes on.
QueueTimeout(r) ==
    \/ /\ at[r] = "waiting"
       /\ Goto(r, "ended")
       /\ \E i \in DOMAIN waiting : waiting[i] = r /\ waiting' = RemoveAt(waiting, i)
       /\ Answer(r, "again")
       /\ UNCHANGED <<signed, body, owner, free, replayVars>>
    \/ at[r] = "handed" /\ Leave(r, "again")

Fits(r, size) == body[r] + size <= MaxBody

\* One http.request event of the client, the last of the body or not.
Chunk(r, size, more) ==
    /\ at[r] = "body"
    /\ Fits(r, size)
    /\ body' = [body EXCEPT ![r] = @ + size]
    /\ IF more THEN UNCHANGED at ELSE Goto(r, "authorize")
    /\ UNCHANGED <<signed, owner, answer, free, waiting, replayVars>>

ChunkRefused(r, size) ==
    /\ at[r] = "body"
    /\ ~Fits(r, size)
    /\ Leave(r, "again")

\* The client goes away, or sends an event that is no request.
BodyBroken(r) ==
    /\ at[r] = "body"
    /\ Leave(r, "over") \/ Leave(r, "refused")

BodyTimeout(r) ==
    /\ at[r] = "body"
    /\ Leave(r, "again")

\* A target that is not ASCII; a Raven header that comes twice.
HeadersRefused(r) ==
    /\ at[r] = "authorize"
    /\ Leave(r, "refused")

\* The peers or the revocations cannot be read: authenticate raises.
PolicyUnreadable(r) ==
    /\ at[r] = "authorize"
    /\ signed[r] # Unsigned
    /\ Leave(r, "over")

\* The first reading: every check of verify_http_request but the last holds.
Verify(r) ==
    /\ at[r] = "authorize"
    /\ signed[r] \in Genuine
    /\ wall < HttpExpires[signed[r]]
    /\ Goto(r, "stamp")
    /\ UNCHANGED <<signed, body, owner, answer, free, waiting, replayVars>>

\* The second reading, before the database is locked.
Stamp(r) ==
    /\ at[r] = "stamp"
    /\ stamp' = [stamp EXCEPT ![r] = wall]
    /\ Goto(r, "record")
    /\ UNCHANGED <<signed, body, owner, answer, free, waiting, replay, wall, inTime>>

\* The rows that have not expired at the reading now.
Alive(now) == {sig \in replay : HttpExpires[sig] > now}

\* Mutant: the replay database is not asked.
FreshAlways(r) == signed[r] \in Genuine

FirstTime(r) == signed[r] \notin Alive(stamp[r])

\* Any signed request may be refused: its peer revoked, its time over, its
\* signature seen, the replay database full, locked or broken.
AuthRefused(r) ==
    /\ at[r] \in {"authorize", "record"}
    /\ RequireAuth \/ signed[r] # Unsigned
    /\ Leave(r, "refused")

\* One transaction records the signature and deletes the rows that expired at
\* the thread's reading; the sender owns the request.
Admit(r) ==
    /\ at[r] = "record"
    /\ FirstTime(r)
    /\ replay' = Alive(stamp[r]) \cup {signed[r]}
    /\ inTime' = IF wall < HttpExpires[signed[r]] THEN inTime \cup {r} ELSE inTime
    /\ owner' = [owner EXCEPT ![r] = "peer"]
    /\ stamp' = [stamp EXCEPT ![r] = 0]
    /\ Goto(r, "app")
    /\ UNCHANGED <<signed, body, answer, free, waiting, wall>>

\* Open mode, no Raven header: the client's address owns the request.
AdmitOpen(r) ==
    /\ at[r] = "authorize"
    /\ ~RequireAuth
    /\ signed[r] = Unsigned
    /\ owner' = [owner EXCEPT ![r] = "open"]
    /\ Goto(r, "app")
    /\ UNCHANGED <<signed, body, answer, free, waiting, replayVars>>

\* The application answers, or raises.
AppEnds(r) ==
    /\ at[r] = "app"
    /\ Leave(r, "over")

Event(r) ==
    \/ \E size \in 0 .. MaxBody + 1 :
          ChunkRefused(r, size) \/ \E more \in BOOLEAN : Chunk(r, size, more)
    \/ BodyBroken(r)

\* Mutant: the collection of the body has no timeout.
OnlyQueueTimeout(r) == QueueTimeout(r)

Timeout(r) == QueueTimeout(r) \/ BodyTimeout(r)

Authorize(r) ==
    \/ HeadersRefused(r) \/ PolicyUnreadable(r) \/ Verify(r) \/ Stamp(r)
    \/ AuthRefused(r) \/ Admit(r) \/ AdmitOpen(r)

Start(r) == BearerRefused(r) \/ PassThrough(r) \/ LengthRefused(r) \/ Acquire(r)

\* A second passes.
WallTick ==
    /\ wall < MaxWall
    /\ wall' = wall + 1
    /\ UNCHANGED <<signed, at, body, owner, answer, free, waiting, replay, stamp, inTime>>

Serve(r) ==
    Start(r) \/ Woken(r) \/ Event(r) \/ Timeout(r) \/ Authorize(r) \/ AppEnds(r)

IngressNext == WallTick \/ \E r \in Requests : Serve(r)

IngressSpec == IngressInit /\ [][IngressNext]_ingressVars

\* The event loop runs what is ready and its timers fire.  Nothing is assumed
\* of the clients, nor of the application.
IngressFairness == \A r \in Requests :
    WF_ingressVars(Timeout(r)) /\ WF_ingressVars(Authorize(r))

-----------------------------------------------------------------------------

\* Every variable of the middleware has its type.
IngressTypeOK ==
    /\ signed \in [Requests -> Headers]
    /\ at \in [Requests -> IngressStages]
    /\ body \in [Requests -> Nat]
    /\ owner \in [Requests -> {"", "peer", "open"}]
    /\ answer \in [Requests -> Answers]
    /\ free \in 0 .. MaxConcurrent
    /\ waiting \in Seq(Requests)
    /\ replay \subseteq Genuine
    /\ wall \in Nat
    /\ stamp \in [Requests -> Nat]
    /\ inTime \subseteq Requests

Holders == {r \in Requests : at[r] \in Holding}

\* No exit of the middleware keeps a slot or gives one back twice, a timeout
\* that races the hand-over of a slot included: the free slots and the requests
\* that hold one always make up max_concurrent.
SlotsConserved == free + Cardinality(Holders) = MaxConcurrent

\* The memory that clients can make the server buffer: max_concurrent bodies of
\* max_body_bytes, whatever the sizes they declare and the chunks they send.
BufferBounded ==
    MapThenSumSet(LAMBDA r : body[r], Requests) <= MaxConcurrent * MaxBody

\* What the clients can take of the server is bounded, and given back.
ResourcesBounded == SlotsConserved /\ BufferBounded

\* A request that carries Raven headers is served as its signer's or not at
\* all, never as anonymous, and an anonymous one only in open mode; while the
\* signature of one that is served is valid, the replay database has it, so
\* that no thread's late housekeeping deletes a row that is still needed.
NoDowngrade == \A r \in Requests : at[r] = "app" =>
    \/ /\ owner[r] = "peer" /\ signed[r] \in Genuine
       /\ wall < HttpExpires[signed[r]] => signed[r] \in replay
    \/ owner[r] = "open" /\ signed[r] = Unsigned /\ ~RequireAuth

Admitted(sig) == {r \in inTime : signed[r] = sig}

\* While it is valid, one signed authorization admits one request, however many
\* copies of it are in flight in the slots, the queue and the threads, and one
\* that was refused for its size, its slowness or for want of a slot can be sent
\* again as it is.  Once only until the expiry is what the code promises: a copy
\* that is verified in the last second and recorded after it finds the row
\* expired, and is admitted a second time.
OncePerSignature ==
    /\ \A sig \in Genuine : Cardinality(Admitted(sig)) <= 1
    /\ \A r \in Requests : answer[r] = "again" => owner[r] = ""

\* The owner that the application is given is the one that was verified, and
\* a signature gives one request an owner while it is valid.
AdmittedAsVerified == NoDowngrade /\ OncePerSignature

\* Every request that waits for a slot or holds one before the application runs
\* is refused or reaches the application in bounded time, even when
\* clients send nothing and the application never returns a slot.
EveryRequestDecided == \A r \in Requests :
    at[r] \in {"waiting", "handed", "body", "authorize", "stamp", "record"} ~>
        at[r] \in {"app", "ended"}
=============================================================================
