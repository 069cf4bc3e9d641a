---------------------------- MODULE NodeProofs -----------------------------
(***************************************************************************)
(* Proofs about three parts of a node's server, which share no state.      *)
(*                                                                         *)
(* RpcIngress, for any requests, any number of slots and any limit of the  *)
(* body: the inductive invariant says what a slot is. The queue holds each *)
(* waiting request once, a buffer belongs to a slot, and an owner is given *)
(* to a request that is admitted; the row of one that was admitted in time *)
(* stays in the replay database until it expires, because no thread's      *)
(* reading of the clock is ahead of it.                                    *)
(*                                                                         *)
(* TaskLifecycle, for any messages, cancellations, owners and ids, and any *)
(* order of them: what is rejected leaves no trace, no execution leaves a  *)
(* cancel event behind, and a cancellation works on the caller's own task  *)
(* and on no other. It rests on one fact about the registry of cancel      *)
(* events: the execution that runs under a task's id is the one whose      *)
(* event is registered there, because the SDK runs one message of a task   *)
(* after the other and because the second key of an execution, the id      *)
(* under which its message was signed, is never the key of another task.   *)
(*                                                                         *)
(* TaskStore, for any owners, ids, sizes and limits: the inductive         *)
(* invariant is the conjunction of the type invariant, the row bound and   *)
(* the absence of rejected rows; the action properties hold of every step  *)
(* from a typed state, and the byte counter is the sum of the rows.        *)
(*                                                                         *)
(* A behaviour of MCNode is one of the first or of the second of them, so  *)
(* that what holds of each by its own theorems holds of the run.           *)
(***************************************************************************)
EXTENDS MCNode, TaskStore, Sums, SequenceTheorems, FiniteSetTheorems, TLAPS

-----------------------------------------------------------------------------
\* The middleware.

\* The queue of the semaphore holds requests that wait, none of them twice.
QueueInv ==
    /\ \A i \in 1 .. Len(waiting) : at[waiting[i]] = "waiting"
    /\ \A i, j \in 1 .. Len(waiting) : waiting[i] = waiting[j] => i = j

\* A slot is free or held, and there are finitely many.
SlotsInv == IsFiniteSet(Holders) /\ SlotsConserved

\* Bytes are buffered within the limit, and only for a request with a slot.
BodyInv == \A r \in Requests :
    body[r] <= MaxBody /\ (at[r] \notin Holding => body[r] = 0)

\* An owner is given with the admission and explains it.
OwnerInv == \A r \in Requests :
    /\ owner[r] = "peer" => signed[r] \in Genuine
    /\ owner[r] = "open" => signed[r] = Unsigned /\ ~RequireAuth
    /\ owner[r] # "" => at[r] \in {"app", "ended"}
    /\ at[r] = "app" => owner[r] # ""
    /\ answer[r] # "" => at[r] = "ended"
    /\ answer[r] = "again" => owner[r] = ""

\* No thread's reading is ahead of the clock, only verified requests are recorded,
\* and the row of one that was admitted in time stays until it expires.
ReplayInv ==
    /\ \A r \in Requests : stamp[r] <= wall
    /\ \A r \in Requests : at[r] \in {"stamp", "record"} => signed[r] \in Genuine
    /\ \A r \in inTime :
          owner[r] = "peer" /\ (wall < HttpExpires[signed[r]] => signed[r] \in replay)
    /\ \A r \in Requests : owner[r] = "peer" /\ wall < HttpExpires[signed[r]] => r \in inTime

\* No two copies of a signature were admitted in time.
OnceInv == \A r, s \in inTime : signed[r] = signed[s] => r = s

\* The invariant the induction carries.
IngressInv ==
    /\ IngressTypeOK /\ QueueInv /\ SlotsInv /\ BodyInv
    /\ OwnerInv /\ ReplayInv /\ OnceInv

-----------------------------------------------------------------------------
\* Sequences and counts.

\* Taking one place out of a queue without repetitions takes out its request.
LEMMA RemoveAtFacts ==
    ASSUME NEW S, NEW s \in Seq(S), NEW i \in 1 .. Len(s),
           \A j, k \in 1 .. Len(s) : s[j] = s[k] => j = k
    PROVE  /\ RemoveAt(s, i) \in Seq(S)
           /\ \A j \in 1 .. Len(RemoveAt(s, i)) :
                 \E k \in 1 .. Len(s) : k # i /\ RemoveAt(s, i)[j] = s[k]
           /\ \A j, k \in 1 .. Len(RemoveAt(s, i)) :
                 RemoveAt(s, i)[j] = RemoveAt(s, i)[k] => j = k
<1> DEFINE a == SubSeq(s, 1, i - 1)
           b == SubSeq(s, i + 1, Len(s))
<1>1. Len(s) \in Nat /\ \A k \in 1 .. Len(s) : s[k] \in S
  BY LenProperties, ElementOfSeq
<1>2. /\ a \in Seq(S) /\ Len(a) = i - 1
      /\ \A j \in 1 .. i - 1 : a[j] = s[j]
  <2>1. \A k \in 1 .. i - 1 : s[k] \in S
    BY <1>1
  <2>2. /\ a \in Seq(S)
        /\ Len(a) = IF 1 <= i - 1 THEN (i - 1) - 1 + 1 ELSE 0
        /\ \A j \in 1 .. (i - 1) - 1 + 1 : a[j] = s[1 + j - 1]
    BY <2>1, SubSeqProperties
  <2> HIDE DEF a
  <2> QED
    BY <2>2
<1>3. /\ b \in Seq(S) /\ Len(b) = Len(s) - i
      /\ \A j \in 1 .. Len(s) - i : b[j] = s[i + j]
  <2>1. \A k \in i + 1 .. Len(s) : s[k] \in S
    BY <1>1
  <2>2. /\ b \in Seq(S)
        /\ Len(b) = IF i + 1 <= Len(s) THEN Len(s) - (i + 1) + 1 ELSE 0
        /\ \A j \in 1 .. Len(s) - (i + 1) + 1 : b[j] = s[i + 1 + j - 1]
    BY <1>1, <2>1, SubSeqProperties
  <2> HIDE DEF b
  <2> QED
    BY <1>1, <2>2
<1>4. RemoveAt(s, i) = a \o b
  BY DEF RemoveAt
<1> HIDE DEF a, b
<1>5. /\ a \o b \in Seq(S)
      /\ Len(a \o b) = Len(s) - 1
      /\ \A j \in 1 .. Len(s) - 1 : (a \o b)[j] = IF j < i THEN s[j] ELSE s[j + 1]
  <2>1. /\ a \o b \in Seq(S)
        /\ Len(a \o b) = Len(a) + Len(b)
        /\ \A j \in 1 .. Len(a) + Len(b) :
              (a \o b)[j] = IF j <= Len(a) THEN a[j] ELSE b[j - Len(a)]
    <3>1. a \in Seq(S) /\ b \in Seq(S)
      BY <1>2, <1>3
    <3> QED
      BY <3>1, ConcatProperties, Zenon
  <2>2. Len(a) + Len(b) = Len(s) - 1
    BY <1>1, <1>2, <1>3
  <2>3. ASSUME NEW j \in 1 .. Len(s) - 1
        PROVE  (a \o b)[j] = IF j < i THEN s[j] ELSE s[j + 1]
    <3>1. (a \o b)[j] = IF j <= i - 1 THEN a[j] ELSE b[j - (i - 1)]
      BY <1>2, <2>1, <2>2
    <3>2. CASE j < i
      BY <1>2, <3>1, <3>2
    <3>3. CASE ~(j < i)
      <4>1. j - (i - 1) \in 1 .. Len(s) - i
        BY <1>1, <3>3
      <4>2. b[j - (i - 1)] = s[i + (j - (i - 1))]
        BY <1>3, <4>1
      <4>3. i + (j - (i - 1)) = j + 1 /\ ~(j <= i - 1)
        BY <3>3
      <4> QED
        BY <3>1, <3>3, <4>2, <4>3
    <3> QED
      BY <3>2, <3>3
  <2> QED
    BY <2>1, <2>2, <2>3
<1>6. \A j \in 1 .. Len(a \o b) :
        \E k \in 1 .. Len(s) : /\ k # i /\ (a \o b)[j] = s[k]
                              /\ k = IF j < i THEN j ELSE j + 1
  <2> SUFFICES ASSUME NEW j \in 1 .. Len(a \o b)
               PROVE  \E k \in 1 .. Len(s) : /\ k # i /\ (a \o b)[j] = s[k]
                                            /\ k = IF j < i THEN j ELSE j + 1
    OBVIOUS
  <2> DEFINE k == IF j < i THEN j ELSE j + 1
  <2>1. k \in 1 .. Len(s) /\ k # i /\ (a \o b)[j] = s[k]
    BY <1>1, <1>5
  <2> QED
    BY <2>1
<1>7. \A j, k \in 1 .. Len(a \o b) : (a \o b)[j] = (a \o b)[k] => j = k
  <2> SUFFICES ASSUME NEW j \in 1 .. Len(a \o b), NEW k \in 1 .. Len(a \o b),
                      (a \o b)[j] = (a \o b)[k]
               PROVE  j = k
    OBVIOUS
  <2>1. PICK p \in 1 .. Len(s) : (a \o b)[j] = s[p] /\ p = IF j < i THEN j ELSE j + 1
    BY <1>6
  <2>2. PICK q \in 1 .. Len(s) : (a \o b)[k] = s[q] /\ q = IF k < i THEN k ELSE k + 1
    BY <1>6
  <2>3. p = q
    BY <2>1, <2>2
  <2> QED
    BY <1>1, <1>5, <2>1, <2>2, <2>3
<1> QED
  BY <1>4, <1>5, <1>6, <1>7, Zenon

\* The first of a queue without repetitions is gone from its tail.
LEMMA TailFacts ==
    ASSUME NEW S, NEW s \in Seq(S), s # <<>>,
           \A j, k \in 1 .. Len(s) : s[j] = s[k] => j = k
    PROVE  /\ Head(s) \in S /\ Head(s) = s[1] /\ 1 \in 1 .. Len(s)
           /\ Tail(s) \in Seq(S)
           /\ \A j \in 1 .. Len(Tail(s)) :
                 j + 1 \in 1 .. Len(s) /\ Tail(s)[j] = s[j + 1] /\ Tail(s)[j] # Head(s)
           /\ \A j, k \in 1 .. Len(Tail(s)) : Tail(s)[j] = Tail(s)[k] => j = k
<1>1. /\ Head(s) \in S /\ Tail(s) \in Seq(S)
      /\ Len(Tail(s)) = Len(s) - 1
      /\ \A j \in 1 .. Len(Tail(s)) : Tail(s)[j] = s[j + 1]
  BY HeadTailProperties, Zenon
<1>2. Len(s) \in Nat \ {0}
  BY EmptySeq
<1>3. Head(s) = s[1]
  BY <1>2
<1> DEFINE t == Tail(s)
           h == Head(s)
<1>4. t \in Seq(S) /\ Len(t) = Len(s) - 1 /\ \A j \in 1 .. Len(t) : t[j] = s[j + 1]
  BY <1>1
<1>5. h \in S /\ h = s[1] /\ 1 \in 1 .. Len(s)
  BY <1>1, <1>2, <1>3
<1> HIDE DEF t, h
<1>6. \A j \in 1 .. Len(t) : j + 1 \in 1 .. Len(s) /\ t[j] = s[j + 1] /\ t[j] # h
  BY <1>2, <1>4, <1>5
<1>7. ASSUME NEW j \in 1 .. Len(t), NEW k \in 1 .. Len(t), t[j] = t[k]
      PROVE  j = k
  <2>1. j + 1 \in 1 .. Len(s) /\ k + 1 \in 1 .. Len(s) /\ s[j + 1] = s[k + 1]
    BY <1>6, <1>4, <1>7
  <2>2. j + 1 = k + 1
    BY <2>1
  <2>3. Len(t) \in Nat
    BY <1>2, <1>4
  <2> QED
    BY <2>2, <2>3
<1>8. /\ h \in S /\ h = s[1] /\ 1 \in 1 .. Len(s)
      /\ t \in Seq(S)
      /\ \A j \in 1 .. Len(t) : j + 1 \in 1 .. Len(s) /\ t[j] = s[j + 1] /\ t[j] # h
      /\ \A j, k \in 1 .. Len(t) : t[j] = t[k] => j = k
  BY <1>4, <1>5, <1>6, <1>7
<1> QED
  BY <1>8 DEF t, h

\* A request at the end of a queue that it was not in.
LEMMA AppendFacts ==
    ASSUME NEW S, NEW s \in Seq(S), NEW e \in S,
           \A j \in 1 .. Len(s) : s[j] # e,
           \A j, k \in 1 .. Len(s) : s[j] = s[k] => j = k
    PROVE  /\ Append(s, e) \in Seq(S)
           /\ \A j \in 1 .. Len(Append(s, e)) :
                 Append(s, e)[j] = e \/ \E k \in 1 .. Len(s) : Append(s, e)[j] = s[k]
           /\ \A j, k \in 1 .. Len(Append(s, e)) :
                 Append(s, e)[j] = Append(s, e)[k] => j = k
<1> DEFINE t == Append(s, e)
<1>1. /\ t \in Seq(S) /\ Len(t) = Len(s) + 1
      /\ \A j \in 1 .. Len(s) : t[j] = s[j]
      /\ t[Len(s) + 1] = e
  BY AppendProperties
<1>2. Len(s) \in Nat
  BY LenProperties
<1> HIDE DEF t
<1>3. \A j \in 1 .. Len(t) : t[j] = e \/ \E k \in 1 .. Len(s) : t[j] = s[k]
  BY <1>1, <1>2
<1>4. \A j, k \in 1 .. Len(t) : t[j] = t[k] => j = k
  BY <1>1, <1>2
<1> QED
  BY <1>1, <1>3, <1>4 DEF t

-----------------------------------------------------------------------------
\* The initial states, and the slots in a step.

LEMMA IngressStarts == IngressInit => IngressInv
<1> SUFFICES ASSUME IngressInit PROVE IngressInv
  OBVIOUS
<1>1. MaxBody \in Nat /\ MaxConcurrent \in Nat
  BY IngressConstants
<1>2. /\ signed \in [Requests -> Headers] /\ free = MaxConcurrent
      /\ waiting = <<>> /\ replay = {}
      /\ at = [r \in Requests |-> "arriving"] /\ body = [r \in Requests |-> 0]
      /\ owner = [r \in Requests |-> ""] /\ answer = [r \in Requests |-> ""]
      /\ wall = 0 /\ stamp = [r \in Requests |-> 0] /\ inTime = {}
  BY DEF IngressInit
<1>3. IngressTypeOK
  <2>1. waiting \in Seq(Requests)
    BY <1>2, EmptySeq
  <2>2. at \in [Requests -> IngressStages] /\ answer \in [Requests -> Answers]
    BY <1>2 DEF IngressStages, Answers
  <2>3. body \in [Requests -> Nat] /\ owner \in [Requests -> {"", "peer", "open"}]
    BY <1>2
  <2>4. free \in 0 .. MaxConcurrent
    <3>1. free = MaxConcurrent
      BY <1>2
    <3> QED
      BY <1>1, <3>1
  <2>5. wall \in Nat /\ stamp \in [Requests -> Nat] /\ inTime \subseteq Requests
    BY <1>2
  <2> QED
    BY <1>2, <2>1, <2>2, <2>3, <2>4, <2>5 DEF IngressTypeOK
<1>4. QueueInv
  <2>1. waiting = <<>> /\ Len(<<>>) = 0
    BY <1>2
  <2> QED
    BY <2>1 DEF QueueInv
<1>5. SlotsInv
  <2>1. Holders = {} /\ free = MaxConcurrent
    BY <1>2 DEF Holders, Holding
  <2>2. IsFiniteSet(Holders) /\ Cardinality(Holders) = 0
    BY <2>1, FS_EmptySet, Zenon
  <2> QED
    BY <1>1, <2>1, <2>2 DEF SlotsInv, SlotsConserved
<1>6. BodyInv
  <2>1. \A r \in Requests : body[r] = 0
    BY <1>2
  <2> QED
    BY <1>1, <2>1 DEF BodyInv
<1>7. OwnerInv /\ ReplayInv /\ OnceInv
  <2>1. \A r \in Requests : stamp[r] = wall /\ wall \in Nat
    BY <1>2
  <2>2. \A r \in Requests : stamp[r] <= wall
    BY <2>1
  <2> QED
    BY <1>2, <2>2 DEF OwnerInv, ReplayInv, OnceInv
<1> QED
  BY <1>3, <1>4, <1>5, <1>6, <1>7 DEF IngressInv

\* A request takes a slot that is free.
LEMMA TakeSlot ==
    ASSUME IngressInv, NEW r \in Requests, r \notin Holders, free > 0,
           free' = free - 1, Holders' = Holders \cup {r}
    PROVE  SlotsInv' /\ free' \in 0 .. MaxConcurrent
<1>1. /\ IsFiniteSet(Holders \cup {r})
      /\ Cardinality(Holders \cup {r}) = Cardinality(Holders) + 1
      /\ Cardinality(Holders) \in Nat
  BY FS_AddElement, FS_CardinalityType DEF IngressInv, SlotsInv
<1>2. free \in 0 .. MaxConcurrent /\ free + Cardinality(Holders) = MaxConcurrent
  BY DEF IngressInv, SlotsInv, SlotsConserved, IngressTypeOK
<1>3. SlotsInv'
  BY <1>1, <1>2 DEF SlotsInv, SlotsConserved
<1> QED
  BY <1>2, <1>3, IngressConstants

\* A request gives its slot back.
LEMMA FreeSlot ==
    ASSUME IngressInv, NEW r \in Holders, free' = free + 1, Holders' = Holders \ {r}
    PROVE  SlotsInv' /\ free' \in 0 .. MaxConcurrent
<1>1. /\ IsFiniteSet(Holders \ {r})
      /\ Cardinality(Holders \ {r}) = Cardinality(Holders) - 1
      /\ Cardinality(Holders) \in Nat /\ Cardinality(Holders \ {r}) \in Nat
  BY FS_RemoveElement, FS_CardinalityType DEF IngressInv, SlotsInv
<1>2. free \in 0 .. MaxConcurrent /\ free + Cardinality(Holders) = MaxConcurrent
  BY DEF IngressInv, SlotsInv, SlotsConserved, IngressTypeOK
<1>3. SlotsInv'
  BY <1>1, <1>2 DEF SlotsInv, SlotsConserved
<1> QED
  BY <1>1, <1>2, <1>3, IngressConstants

\* A request hands its slot to one that has none.
LEMMA HandSlot ==
    ASSUME IngressInv, NEW r \in Holders, NEW w, w \notin Holders,
           free' = free, Holders' = (Holders \ {r}) \cup {w}
    PROVE  SlotsInv' /\ free' \in 0 .. MaxConcurrent
<1> DEFINE rest == Holders \ {r}
<1>1. /\ IsFiniteSet(rest) /\ Cardinality(rest) = Cardinality(Holders) - 1
      /\ Cardinality(Holders) \in Nat
  BY FS_RemoveElement, FS_CardinalityType DEF IngressInv, SlotsInv
<1>2. w \notin rest
  OBVIOUS
<1> HIDE DEF rest
<1>3. IsFiniteSet(rest \cup {w}) /\ Cardinality(rest \cup {w}) = Cardinality(rest) + 1
  BY <1>1, <1>2, FS_AddElement
<1>4. free \in 0 .. MaxConcurrent /\ free + Cardinality(Holders) = MaxConcurrent
  BY DEF IngressInv, SlotsInv, SlotsConserved, IngressTypeOK
<1>5. SlotsInv'
  BY <1>1, <1>3, <1>4 DEF SlotsInv, SlotsConserved, rest
<1> QED
  BY <1>4, <1>5

\* The slots stay with those who have them.
LEMMA SlotsKept ==
    ASSUME IngressInv, free' = free, Holders' = Holders
    PROVE  SlotsInv' /\ free' \in 0 .. MaxConcurrent
BY DEF IngressInv, IngressTypeOK, SlotsInv, SlotsConserved

\* Readings of the clock stay behind it when one is forgotten.
LEMMA ReadingsBound ==
    ASSUME NEW S, NEW f \in [S -> Nat], NEW n \in Nat, \A r \in S : f[r] <= n,
           NEW g, g = f \/ \E r \in S : g = [f EXCEPT ![r] = 0]
    PROVE  g \in [S -> Nat] /\ \A r \in S : g[r] <= n
OBVIOUS

\* A step that leaves the owners, the signatures and the replay database alone,
\* and moves no request into the application or out of it but to its end, nor
\* past the verification.
LEMMA OwnersKept ==
    ASSUME IngressInv, UNCHANGED <<signed, owner, replay, wall, inTime>>,
           stamp' = stamp \/ \E r \in Requests : stamp' = [stamp EXCEPT ![r] = 0],
           \A r \in Requests : /\ at'[r] = "app" <=> at[r] = "app" /\ at'[r] # "ended"
                               /\ at[r] = "ended" => at'[r] = "ended"
                               /\ at[r] = "app" => at'[r] \in {"app", "ended"}
                               /\ at'[r] \in {"stamp", "record"} => at[r] = at'[r],
           \A r \in Requests : answer'[r] = answer[r] \/
              (at'[r] = "ended" /\ (answer'[r] = "again" => owner[r] = ""))
    PROVE  OwnerInv' /\ ReplayInv' /\ OnceInv' /\ stamp' \in [Requests -> Nat]
<1>1. OwnerInv /\ ReplayInv /\ OnceInv
  BY DEF IngressInv
<1>2. OwnerInv'
  BY <1>1 DEF OwnerInv
<1>3. stamp' \in [Requests -> Nat] /\ \A r \in Requests : stamp'[r] <= wall
  <2>1. /\ stamp \in [Requests -> Nat] /\ wall \in Nat
        /\ \A r \in Requests : stamp[r] <= wall
    BY <1>1 DEF IngressInv, IngressTypeOK, ReplayInv
  <2> QED
    BY <2>1, ReadingsBound, Zenon
<1>4. ReplayInv'
  BY <1>1, <1>3 DEF ReplayInv
<1> QED
  BY <1>1, <1>2, <1>3, <1>4 DEF OnceInv

-----------------------------------------------------------------------------
\* Leaving with a slot.

\* The slot is given back or handed to the first waiter, who waits no more.
LEMMA ReleaseFacts ==
    ASSUME IngressInv, NEW r \in Requests, at[r] \in Holding, Release(r)
    PROVE  /\ at' \in [Requests -> IngressStages] /\ at'[r] = "ended"
           /\ \A q \in Requests : q # r =>
                 at'[q] = at[q] \/ (at[q] = "waiting" /\ at'[q] = "handed")
           /\ waiting' \in Seq(Requests) /\ QueueInv'
           /\ SlotsInv' /\ free' \in 0 .. MaxConcurrent
<1>1. /\ at \in [Requests -> IngressStages] /\ waiting \in Seq(Requests)
      /\ r \in Holders /\ at[r] # "waiting"
      /\ \A i \in 1 .. Len(waiting) : waiting[i] \in Requests
  BY ElementOfSeq DEF IngressInv, IngressTypeOK, Holders, Holding
<1>2. /\ \A i \in 1 .. Len(waiting) : at[waiting[i]] = "waiting"
      /\ \A i, j \in 1 .. Len(waiting) : waiting[i] = waiting[j] => i = j
  BY DEF IngressInv, QueueInv
<1>3. CASE waiting = <<>>
  <2>1. at' = [at EXCEPT ![r] = "ended"] /\ free' = free + 1 /\ waiting' = waiting
    BY <1>3 DEF Release, Goto
  <2>2. Holders' = Holders \ {r}
    BY <1>1, <2>1 DEF Holders, Holding
  <2>3. SlotsInv' /\ free' \in 0 .. MaxConcurrent
    BY <1>1, <2>1, <2>2, FreeSlot
  <2>4. QueueInv'
    <3>1. Len(waiting') = 0
      BY <1>3, <2>1
    <3> QED
      BY <3>1 DEF QueueInv
  <2>5. at' \in [Requests -> IngressStages]
    BY <1>1, <2>1 DEF IngressStages
  <2> QED
    BY <1>1, <2>1, <2>3, <2>4, <2>5
<1>4. CASE waiting # <<>>
  <2> DEFINE w == Head(waiting)
             t == Tail(waiting)
  <2>1. /\ w \in Requests /\ w = waiting[1] /\ 1 \in 1 .. Len(waiting)
        /\ t \in Seq(Requests)
        /\ \A j \in 1 .. Len(t) :
              j + 1 \in 1 .. Len(waiting) /\ t[j] = waiting[j + 1] /\ t[j] # w
        /\ \A j, k \in 1 .. Len(t) : t[j] = t[k] => j = k
    BY <1>1, <1>2, <1>4, TailFacts, Zenon
  <2>2. /\ at' = [at EXCEPT ![r] = "ended", ![w] = "handed"]
        /\ free' = free /\ waiting' = t
    BY <1>4 DEF Release, Goto
  <2> HIDE DEF w, t
  <2>3. at[w] = "waiting" /\ w # r /\ w \notin Holders
    BY <1>1, <1>2, <2>1 DEF Holders, Holding
  <2>4. /\ at' \in [Requests -> IngressStages]
        /\ at'[r] = "ended" /\ at'[w] = "handed"
        /\ \A q \in Requests : q # r /\ q # w => at'[q] = at[q]
    BY <1>1, <2>1, <2>2, <2>3 DEF IngressStages, Holding
  <2>5. Holders' = (Holders \ {r}) \cup {w}
    BY <2>1, <2>3, <2>4 DEF Holders, Holding
  <2>6. SlotsInv' /\ free' \in 0 .. MaxConcurrent
    BY <1>1, <2>2, <2>3, <2>5, HandSlot
  <2>7. QueueInv'
    <3>1. ASSUME NEW i \in 1 .. Len(t) PROVE at'[t[i]] = "waiting"
      <4>1. i + 1 \in 1 .. Len(waiting) /\ t[i] = waiting[i + 1] /\ t[i] # w
        BY <2>1
      <4>2. at[t[i]] = "waiting" /\ t[i] \in Requests
        BY <1>1, <1>2, <4>1
      <4> QED
        BY <1>1, <2>4, <4>1, <4>2
    <3>2. waiting' = t /\ \A j, k \in 1 .. Len(t) : t[j] = t[k] => j = k
      BY <2>1, <2>2
    <3> QED
      BY <3>1, <3>2 DEF QueueInv
  <2> QED
    BY <2>1, <2>2, <2>3, <2>4, <2>6, <2>7
<1> QED
  BY <1>3, <1>4

\* Every exit keeps the invariant; only one that is not from the application may
\* invite the client to send the request again.
LEMMA LeaveKeeps ==
    ASSUME IngressInv, NEW r \in Requests, at[r] \in Holding,
           NEW code \in Answers, code = "again" => at[r] # "app",
           Leave(r, code)
    PROVE  IngressInv'
<1>1. /\ at' \in [Requests -> IngressStages] /\ at'[r] = "ended"
      /\ \A q \in Requests : q # r =>
            at'[q] = at[q] \/ (at[q] = "waiting" /\ at'[q] = "handed")
      /\ waiting' \in Seq(Requests) /\ QueueInv'
      /\ SlotsInv' /\ free' \in 0 .. MaxConcurrent
  BY ReleaseFacts DEF Leave
<1>2. /\ answer' = [answer EXCEPT ![r] = code]
      /\ body' = [body EXCEPT ![r] = 0]
      /\ stamp' = [stamp EXCEPT ![r] = 0]
      /\ UNCHANGED <<signed, owner, replay, wall, inTime>>
  BY DEF Leave, Answer
<1>3. IngressTypeOK /\ BodyInv /\ OwnerInv
  BY DEF IngressInv
<1>4. IngressTypeOK'
  BY <1>1, <1>2, <1>3 DEF IngressTypeOK
<1>5. BodyInv'
  <2>1. MaxBody \in Nat /\ \A q \in Requests : body'[q] = IF q = r THEN 0 ELSE body[q]
    BY <1>2, <1>3, IngressConstants DEF IngressTypeOK
  <2> QED
    BY <1>1, <1>3, <2>1 DEF BodyInv, Holding
<1>6. OwnerInv' /\ ReplayInv' /\ OnceInv'
  <2>1. \A q \in Requests : /\ at'[q] = "app" <=> at[q] = "app" /\ at'[q] # "ended"
                            /\ at[q] = "ended" => at'[q] = "ended"
                            /\ at[q] = "app" => at'[q] \in {"app", "ended"}
                            /\ at'[q] \in {"stamp", "record"} => at[q] = at'[q]
    BY <1>1 DEF Holding
  <2>2. \A q \in Requests : answer'[q] = answer[q] \/
           (at'[q] = "ended" /\ (answer'[q] = "again" => owner[q] = ""))
    <3>1. at[r] # "app" => owner[r] = ""
      BY <1>3 DEF OwnerInv, Holding
    <3>2. \A q \in Requests : answer'[q] = IF q = r THEN code ELSE answer[q]
      BY <1>2, <1>3 DEF IngressTypeOK
    <3> QED
      BY <1>1, <3>1, <3>2
  <2> QED
    BY <1>2, <2>1, <2>2, OwnersKept
<1> QED
  BY <1>1, <1>4, <1>5, <1>6 DEF IngressInv

-----------------------------------------------------------------------------
\* Coming in, and waiting.

\* A step that moves one request which does not wait, and keeps its claim.
LEMMA QueueKept ==
    ASSUME IngressInv, NEW r \in Requests, at[r] # "waiting", waiting' = waiting,
           \A q \in Requests : q # r => at'[q] = at[q]
    PROVE  QueueInv'
<1>1. /\ waiting \in Seq(Requests)
      /\ \A i \in 1 .. Len(waiting) : waiting[i] \in Requests
  BY ElementOfSeq DEF IngressInv, IngressTypeOK
<1>2. /\ \A i \in 1 .. Len(waiting) : at[waiting[i]] = "waiting"
      /\ \A i, j \in 1 .. Len(waiting) : waiting[i] = waiting[j] => i = j
  BY DEF IngressInv, QueueInv
<1>3. \A i \in 1 .. Len(waiting) : at'[waiting[i]] = "waiting"
  BY <1>1, <1>2
<1> QED
  BY <1>2, <1>3 DEF QueueInv

\* A request that is not for the limits, or is refused before it takes a slot.
LEMMA AsideKeeps ==
    ASSUME IngressInv, NEW r \in Requests,
           PassThrough(r) \/ BearerRefused(r) \/ LengthRefused(r)
    PROVE  IngressInv'
<1>1. /\ at[r] = "arriving"
      /\ \E stage \in {"passed", "ended"} : at' = [at EXCEPT ![r] = stage]
      /\ UNCHANGED <<signed, body, owner, free, waiting, replay, wall, stamp, inTime>>
  BY DEF PassThrough, BearerRefused, LengthRefused, Goto, replayVars
<1>2. \/ answer' = answer
      \/ \E code \in {"refused", "again"} :
            answer' = [answer EXCEPT ![r] = code] /\ at' = [at EXCEPT ![r] = "ended"]
  BY DEF PassThrough, BearerRefused, LengthRefused, Goto, Answer
<1>3. IngressTypeOK /\ BodyInv /\ OwnerInv
  BY DEF IngressInv
<1>4. /\ at' \in [Requests -> IngressStages] /\ at'[r] \in {"passed", "ended"}
      /\ \A q \in Requests : q # r => at'[q] = at[q]
  BY <1>1, <1>3 DEF IngressTypeOK, IngressStages
<1>5. Holders' = Holders
  BY <1>1, <1>4 DEF Holders, Holding
<1>6. SlotsInv' /\ free' \in 0 .. MaxConcurrent
  BY <1>1, <1>5, SlotsKept
<1>7. QueueInv'
  BY <1>1, <1>4, QueueKept
<1>8. /\ answer' \in [Requests -> Answers]
      /\ \A q \in Requests : answer'[q] = answer[q] \/
            (at'[q] = "ended" /\ (answer'[q] = "again" => owner[q] = ""))
  <2>1. owner[r] = ""
    BY <1>1, <1>3 DEF OwnerInv
  <2>2. answer \in [Requests -> Answers] /\ at \in [Requests -> IngressStages]
    BY <1>3 DEF IngressTypeOK
  <2> QED
    BY <1>2, <2>1, <2>2 DEF Answers
<1>9. IngressTypeOK'
  BY <1>1, <1>3, <1>4, <1>6, <1>8 DEF IngressTypeOK
<1>10. BodyInv'
  BY <1>1, <1>3, <1>4 DEF BodyInv, Holding
<1>11. OwnerInv' /\ ReplayInv' /\ OnceInv'
  <2>1. \A q \in Requests : /\ at'[q] = "app" <=> at[q] = "app" /\ at'[q] # "ended"
                            /\ at[q] = "ended" => at'[q] = "ended"
                            /\ at[q] = "app" => at'[q] \in {"app", "ended"}
                            /\ at'[q] \in {"stamp", "record"} => at[q] = at'[q]
    BY <1>1, <1>4
  <2> QED
    BY <1>1, <1>8, <2>1, OwnersKept
<1> QED
  BY <1>6, <1>7, <1>9, <1>10, <1>11 DEF IngressInv

\* A slot, or the end of the queue.
LEMMA AcquireKeeps ==
    ASSUME IngressInv, NEW r \in Requests, Acquire(r)
    PROVE  IngressInv'
<1>1. /\ at[r] = "arriving"
      /\ UNCHANGED <<signed, body, owner, answer, replay, wall, stamp, inTime>>
  BY DEF Acquire, replayVars
<1>2. IngressTypeOK /\ BodyInv /\ OwnerInv /\ QueueInv
  BY DEF IngressInv
<1>3. /\ at \in [Requests -> IngressStages] /\ waiting \in Seq(Requests)
      /\ r \notin Holders
      /\ \A i \in 1 .. Len(waiting) : waiting[i] \in Requests
  BY <1>1, <1>2, ElementOfSeq DEF IngressTypeOK, Holders, Holding
<1>4. /\ at' \in [Requests -> IngressStages] /\ at'[r] \in {"body", "waiting"}
      /\ \A q \in Requests : q # r => at'[q] = at[q]
      /\ waiting' \in Seq(Requests) /\ QueueInv'
      /\ SlotsInv' /\ free' \in 0 .. MaxConcurrent
  <2>1. CASE /\ free > 0 /\ free' = free - 1
             /\ at' = [at EXCEPT ![r] = "body"] /\ waiting' = waiting
    <3>1. /\ at' \in [Requests -> IngressStages] /\ at'[r] = "body"
          /\ \A q \in Requests : q # r => at'[q] = at[q]
      BY <1>3, <2>1 DEF IngressStages, Holding
    <3>2. Holders' = Holders \cup {r}
      BY <3>1 DEF Holders, Holding
    <3>3. SlotsInv' /\ free' \in 0 .. MaxConcurrent
      BY <1>3, <2>1, <3>2, TakeSlot
    <3>4. QueueInv'
      BY <1>1, <2>1, <3>1, QueueKept
    <3> QED
      BY <1>3, <2>1, <3>1, <3>3, <3>4
  <2>2. CASE /\ waiting' = Append(waiting, r) /\ free' = free
             /\ at' = [at EXCEPT ![r] = "waiting"]
    <3>1. /\ at' \in [Requests -> IngressStages] /\ at'[r] = "waiting"
          /\ \A q \in Requests : q # r => at'[q] = at[q]
      BY <1>3, <2>2 DEF IngressStages
    <3>2. Holders' = Holders
      BY <1>1, <3>1 DEF Holders, Holding
    <3>3. SlotsInv' /\ free' \in 0 .. MaxConcurrent
      BY <2>2, <3>2, SlotsKept
    <3> DEFINE t == Append(waiting, r)
    <3>4. /\ t \in Seq(Requests)
          /\ \A j \in 1 .. Len(t) : t[j] = r \/ \E k \in 1 .. Len(waiting) : t[j] = waiting[k]
          /\ \A j, k \in 1 .. Len(t) : t[j] = t[k] => j = k
      <4>1. /\ \A i \in 1 .. Len(waiting) : waiting[i] # r
            /\ \A i, j \in 1 .. Len(waiting) : waiting[i] = waiting[j] => i = j
        BY <1>1, <1>2 DEF QueueInv
      <4> QED
        BY <1>3, <4>1, AppendFacts, Zenon
    <3>5. waiting' = t
      BY <2>2
    <3> HIDE DEF t
    <3>6. \A j \in 1 .. Len(t) : at'[t[j]] = "waiting"
      <4>1. \A i \in 1 .. Len(waiting) : at[waiting[i]] = "waiting"
        BY <1>2 DEF QueueInv
      <4> QED
        BY <1>1, <1>3, <3>1, <3>4, <4>1
    <3>7. QueueInv'
      BY <3>4, <3>5, <3>6 DEF QueueInv
    <3> QED
      BY <3>1, <3>3, <3>4, <3>5, <3>7
  <2> QED
    BY <2>1, <2>2 DEF Acquire, Goto
<1>5. IngressTypeOK'
  BY <1>1, <1>2, <1>4 DEF IngressTypeOK
<1>6. BodyInv'
  BY <1>1, <1>2, <1>4 DEF BodyInv, Holding
<1>7. OwnerInv' /\ ReplayInv' /\ OnceInv'
  <2>1. \A q \in Requests : /\ at'[q] = "app" <=> at[q] = "app" /\ at'[q] # "ended"
                            /\ at[q] = "ended" => at'[q] = "ended"
                            /\ at[q] = "app" => at'[q] \in {"app", "ended"}
                            /\ at'[q] \in {"stamp", "record"} => at[q] = at'[q]
    BY <1>1, <1>4
  <2> QED
    BY <1>1, <2>1, OwnersKept
<1> QED
  BY <1>4, <1>5, <1>6, <1>7 DEF IngressInv

\* A waiter that times out leaves the queue where it stood.
LEMMA WaiterTimesOut ==
    ASSUME IngressInv, NEW r \in Requests, at[r] = "waiting",
           at' = [at EXCEPT ![r] = "ended"],
           NEW i \in DOMAIN waiting, waiting[i] = r, waiting' = RemoveAt(waiting, i),
           answer' = [answer EXCEPT ![r] = "again"],
           UNCHANGED <<signed, body, owner, free, replay, wall, stamp, inTime>>
    PROVE  IngressInv'
<1>1. IngressTypeOK /\ BodyInv /\ OwnerInv /\ QueueInv
  BY DEF IngressInv
<1>2. /\ at \in [Requests -> IngressStages] /\ waiting \in Seq(Requests)
      /\ answer \in [Requests -> Answers] /\ r \notin Holders
      /\ i \in 1 .. Len(waiting)
      /\ \A j \in 1 .. Len(waiting) : waiting[j] \in Requests
  BY <1>1, ElementOfSeq, LenProperties DEF IngressTypeOK, Holders, Holding
<1>3. /\ at' \in [Requests -> IngressStages] /\ at'[r] = "ended"
      /\ \A q \in Requests : q # r => at'[q] = at[q]
  BY <1>2 DEF IngressStages
<1>4. /\ answer' \in [Requests -> Answers]
      /\ \A q \in Requests : answer'[q] = IF q = r THEN "again" ELSE answer[q]
  BY <1>2 DEF Answers
<1>5. SlotsInv' /\ free' \in 0 .. MaxConcurrent
  <2>1. Holders' = Holders
    BY <1>2, <1>3 DEF Holders, Holding
  <2> QED
    BY <2>1, SlotsKept
<1>6. waiting' \in Seq(Requests) /\ QueueInv'
  <2>1. /\ \A j \in 1 .. Len(waiting) : at[waiting[j]] = "waiting"
        /\ \A j, k \in 1 .. Len(waiting) : waiting[j] = waiting[k] => j = k
    BY <1>1 DEF QueueInv
  <2> DEFINE t == RemoveAt(waiting, i)
  <2>2. /\ t \in Seq(Requests)
        /\ \A j \in 1 .. Len(t) : \E k \in 1 .. Len(waiting) : k # i /\ t[j] = waiting[k]
        /\ \A j, k \in 1 .. Len(t) : t[j] = t[k] => j = k
    BY <1>2, <2>1, RemoveAtFacts, Zenon
  <2>3. waiting' = t
    OBVIOUS
  <2> HIDE DEF t
  <2>4. \A k \in 1 .. Len(waiting) : k # i => at'[waiting[k]] = "waiting"
    BY <1>2, <1>3, <2>1
  <2>5. \A j \in 1 .. Len(t) : at'[t[j]] = "waiting"
    BY <2>2, <2>4, Zenon
  <2> QED
    BY <2>2, <2>3, <2>5 DEF QueueInv
<1>7. IngressTypeOK'
  BY <1>1, <1>3, <1>4, <1>5, <1>6 DEF IngressTypeOK
<1>8. BodyInv'
  BY <1>1, <1>3 DEF BodyInv, Holding
<1>9. OwnerInv' /\ ReplayInv' /\ OnceInv'
  <2>1. owner[r] = ""
    BY <1>1 DEF OwnerInv
  <2>2. \A q \in Requests : /\ at'[q] = "app" <=> at[q] = "app" /\ at'[q] # "ended"
                            /\ at[q] = "ended" => at'[q] = "ended"
                            /\ at[q] = "app" => at'[q] \in {"app", "ended"}
                            /\ at'[q] \in {"stamp", "record"} => at[q] = at'[q]
    BY <1>3
  <2>3. \A q \in Requests : answer'[q] = answer[q] \/
           (at'[q] = "ended" /\ (answer'[q] = "again" => owner[q] = ""))
    BY <1>3, <1>4, <2>1
  <2> QED
    BY <2>2, <2>3, OwnersKept
<1> QED
  BY <1>5, <1>6, <1>7, <1>8, <1>9 DEF IngressInv

-----------------------------------------------------------------------------
\* Steps of a request that keeps its slot.

LEMMA HolderMoves ==
    ASSUME IngressInv, NEW r \in Requests, at[r] \in Holding,
           NEW stage \in Holding, at' = [at EXCEPT ![r] = stage],
           UNCHANGED <<free, waiting>>
    PROVE  /\ at' \in [Requests -> IngressStages] /\ at'[r] = stage
           /\ \A q \in Requests : q # r => at'[q] = at[q]
           /\ waiting' \in Seq(Requests) /\ QueueInv'
           /\ SlotsInv' /\ free' \in 0 .. MaxConcurrent
<1>1. at \in [Requests -> IngressStages] /\ waiting \in Seq(Requests)
  BY DEF IngressInv, IngressTypeOK
<1>2. /\ at' \in [Requests -> IngressStages] /\ at'[r] = stage
      /\ \A q \in Requests : q # r => at'[q] = at[q]
  BY <1>1 DEF IngressStages
<1>3. Holders' = Holders
  BY <1>2 DEF Holders
<1>4. SlotsInv' /\ free' \in 0 .. MaxConcurrent
  BY <1>3, SlotsKept
<1>5. QueueInv'
  BY <1>2, QueueKept DEF Holding
<1> QED
  BY <1>1, <1>2, <1>4, <1>5

LEMMA WokenKeeps ==
    ASSUME IngressInv, NEW r \in Requests, Woken(r)
    PROVE  IngressInv'
<1>1. /\ at[r] = "handed" /\ at' = [at EXCEPT ![r] = "body"]
      /\ UNCHANGED <<signed, body, owner, answer, free, waiting>>
      /\ UNCHANGED <<replay, wall, stamp, inTime>>
  BY DEF Woken, Goto, replayVars
<1>2. /\ at' \in [Requests -> IngressStages] /\ at'[r] = "body"
      /\ \A q \in Requests : q # r => at'[q] = at[q]
      /\ waiting' \in Seq(Requests) /\ QueueInv'
      /\ SlotsInv' /\ free' \in 0 .. MaxConcurrent
  <2>1. at[r] \in Holding /\ "body" \in Holding
    BY <1>1 DEF Holding
  <2> QED
    BY <1>1, <2>1, HolderMoves
<1>3. IngressTypeOK /\ BodyInv
  BY DEF IngressInv
<1>4. IngressTypeOK'
  BY <1>1, <1>2, <1>3 DEF IngressTypeOK
<1>5. BodyInv'
  BY <1>1, <1>2, <1>3 DEF BodyInv, Holding
<1>6. OwnerInv' /\ ReplayInv' /\ OnceInv'
  <2>1. \A q \in Requests : /\ at'[q] = "app" <=> at[q] = "app" /\ at'[q] # "ended"
                            /\ at[q] = "ended" => at'[q] = "ended"
                            /\ at[q] = "app" => at'[q] \in {"app", "ended"}
                            /\ at'[q] \in {"stamp", "record"} => at[q] = at'[q]
    BY <1>1, <1>2
  <2> QED
    BY <1>1, <2>1, OwnersKept
<1> QED
  BY <1>2, <1>4, <1>5, <1>6 DEF IngressInv

\* A chunk is buffered only if the body stays within the limit.
LEMMA ChunkKeeps ==
    ASSUME IngressInv, NEW r \in Requests, NEW size \in 0 .. MaxBody + 1,
           NEW more \in BOOLEAN, Chunk(r, size, more)
    PROVE  IngressInv'
<1>1. /\ at[r] = "body" /\ body[r] + size <= MaxBody
      /\ body' = [body EXCEPT ![r] = body[r] + size]
      /\ \/ at' = at
         \/ at' = [at EXCEPT ![r] = "authorize"]
      /\ UNCHANGED <<signed, owner, answer, free, waiting, replay, wall, stamp, inTime>>
  BY DEF Chunk, Fits, Goto, replayVars
<1>2. IngressTypeOK /\ BodyInv
  BY DEF IngressInv
<1>3. \E stage \in {"body", "authorize"} : at' = [at EXCEPT ![r] = stage]
  <2>1. at = [at EXCEPT ![r] = at[r]]
    BY <1>2 DEF IngressTypeOK
  <2> QED
    BY <1>1, <2>1
<1>4. PICK stage \in {"body", "authorize"} : at' = [at EXCEPT ![r] = stage]
  BY <1>3
<1>5. /\ at' \in [Requests -> IngressStages] /\ at'[r] = stage
      /\ \A q \in Requests : q # r => at'[q] = at[q]
      /\ waiting' \in Seq(Requests) /\ QueueInv'
      /\ SlotsInv' /\ free' \in 0 .. MaxConcurrent
  <2>1. at[r] \in Holding /\ stage \in Holding
    BY <1>1 DEF Holding
  <2> QED
    BY <1>1, <1>4, <2>1, HolderMoves
<1>6. /\ body' \in [Requests -> Nat]
      /\ \A q \in Requests : body'[q] <= MaxBody /\ (q # r => body'[q] = body[q])
  <2>1. body \in [Requests -> Nat] /\ size \in Nat /\ \A q \in Requests : body[q] <= MaxBody
    <3>1. MaxBody \in Nat
      BY IngressConstants
    <3>2. size \in Nat
      BY <3>1
    <3>3. body \in [Requests -> Nat]
      BY <1>2 DEF IngressTypeOK
    <3>4. \A q \in Requests : body[q] <= MaxBody
      BY <1>2 DEF BodyInv
    <3> QED
      BY <3>2, <3>3, <3>4
  <2>2. body[r] + size \in Nat
    BY <2>1
  <2>3. \A q \in Requests : body'[q] = IF q = r THEN body[r] + size ELSE body[q]
    BY <1>1, <2>1
  <2> QED
    BY <1>1, <2>1, <2>2, <2>3
<1>7. IngressTypeOK'
  BY <1>1, <1>2, <1>5, <1>6 DEF IngressTypeOK
<1>8. BodyInv'
  <2>1. \A q \in Requests : at'[q] \notin Holding => body'[q] = 0
    BY <1>2, <1>5, <1>6 DEF BodyInv, Holding
  <2> QED
    BY <1>6, <2>1 DEF BodyInv
<1>9. OwnerInv' /\ ReplayInv' /\ OnceInv'
  <2>1. \A q \in Requests : /\ at'[q] = "app" <=> at[q] = "app" /\ at'[q] # "ended"
                            /\ at[q] = "ended" => at'[q] = "ended"
                            /\ at[q] = "app" => at'[q] \in {"app", "ended"}
                            /\ at'[q] \in {"stamp", "record"} => at[q] = at'[q]
    BY <1>1, <1>5
  <2> QED
    BY <1>1, <2>1, OwnersKept
<1> QED
  BY <1>5, <1>7, <1>8, <1>9 DEF IngressInv

\* The first reading lets only a signature that verifies through, and the second
\* is not ahead of the clock.
LEMMA ReadingsKeep ==
    ASSUME IngressInv, NEW r \in Requests, Verify(r) \/ Stamp(r)
    PROVE  IngressInv'
<1>1. IngressTypeOK /\ BodyInv /\ OwnerInv /\ ReplayInv /\ OnceInv
  BY DEF IngressInv
<1>2. PICK stage \in {"stamp", "record"} :
        /\ at[r] \in {"authorize", "stamp"} /\ at' = [at EXCEPT ![r] = stage]
        /\ signed[r] \in Genuine
        /\ stamp' = stamp \/ stamp' = [stamp EXCEPT ![r] = wall]
        /\ UNCHANGED <<signed, body, owner, answer, free, waiting, replay, wall, inTime>>
  BY <1>1 DEF Verify, Stamp, Goto, replayVars, ReplayInv
<1>3. /\ at' \in [Requests -> IngressStages] /\ at'[r] = stage
      /\ \A q \in Requests : q # r => at'[q] = at[q]
      /\ waiting' \in Seq(Requests) /\ QueueInv'
      /\ SlotsInv' /\ free' \in 0 .. MaxConcurrent
  <2>1. at[r] \in Holding /\ stage \in Holding
    BY <1>2 DEF Holding
  <2> QED
    BY <1>2, <2>1, HolderMoves
<1>4. stamp' \in [Requests -> Nat] /\ \A q \in Requests : stamp'[q] <= wall
  <2>1. stamp \in [Requests -> Nat] /\ wall \in Nat
    BY <1>1 DEF IngressTypeOK
  <2> QED
    BY <1>1, <1>2, <2>1 DEF ReplayInv
<1>5. IngressTypeOK'
  BY <1>1, <1>2, <1>3, <1>4 DEF IngressTypeOK
<1>6. BodyInv'
  BY <1>1, <1>2, <1>3 DEF BodyInv, Holding
<1>7. OwnerInv'
  BY <1>1, <1>2, <1>3 DEF OwnerInv
<1>8. ReplayInv'
  BY <1>1, <1>2, <1>3, <1>4 DEF ReplayInv
<1>9. OnceInv'
  BY <1>1, <1>2 DEF OnceInv
<1> QED
  BY <1>3, <1>5, <1>6, <1>7, <1>8, <1>9 DEF IngressInv

\* What an admission of either kind leaves of the invariant, but for the replay
\* database.
LEMMA EntersApp ==
    ASSUME IngressInv, NEW r \in Requests, at[r] \in {"authorize", "record"},
           NEW as \in {"peer", "open"}, owner' = [owner EXCEPT ![r] = as],
           at' = [at EXCEPT ![r] = "app"],
           replay' \subseteq Genuine, inTime' \subseteq Requests,
           stamp' = stamp \/ stamp' = [stamp EXCEPT ![r] = 0],
           as = "peer" => signed[r] \in Genuine,
           as = "open" => signed[r] = Unsigned /\ ~RequireAuth,
           UNCHANGED <<signed, body, answer, free, waiting, wall>>
    PROVE  /\ IngressTypeOK' /\ QueueInv' /\ SlotsInv' /\ BodyInv' /\ OwnerInv'
           /\ owner'[r] = as /\ at'[r] = "app"
           /\ \A q \in Requests : q # r => owner'[q] = owner[q] /\ at'[q] = at[q]
           /\ \A q \in Requests : stamp'[q] <= wall
<1>1. IngressTypeOK /\ BodyInv /\ OwnerInv /\ ReplayInv
  BY DEF IngressInv
<1>2. /\ at' \in [Requests -> IngressStages] /\ at'[r] = "app"
      /\ \A q \in Requests : q # r => at'[q] = at[q]
      /\ waiting' \in Seq(Requests) /\ QueueInv'
      /\ SlotsInv' /\ free' \in 0 .. MaxConcurrent
  <2>1. at[r] \in Holding /\ "app" \in Holding
    BY DEF Holding
  <2> QED
    BY <2>1, HolderMoves
<1>3. /\ owner' \in [Requests -> {"", "peer", "open"}] /\ owner'[r] = as
      /\ \A q \in Requests : q # r => owner'[q] = owner[q]
  BY <1>1 DEF IngressTypeOK
<1>4. stamp' \in [Requests -> Nat] /\ \A q \in Requests : stamp'[q] <= wall
  <2>1. stamp \in [Requests -> Nat] /\ wall \in Nat
    BY <1>1 DEF IngressTypeOK
  <2> QED
    BY <1>1, <2>1 DEF ReplayInv
<1>5. IngressTypeOK'
  BY <1>1, <1>2, <1>3, <1>4 DEF IngressTypeOK
<1>6. BodyInv'
  BY <1>1, <1>2 DEF BodyInv, Holding
<1>7. OwnerInv'
  BY <1>1, <1>2, <1>3 DEF OwnerInv
<1> QED
  BY <1>2, <1>3, <1>4, <1>5, <1>6, <1>7

\* The transaction that admits a request deletes no row that is still needed, as
\* its reading is not ahead of the clock, and meets the row of every copy that
\* was admitted in time, unless the signature has expired by now.
LEMMA AdmitKeeps ==
    ASSUME IngressInv, NEW r \in Requests, Admit(r)
    PROVE  IngressInv'
<1>1. /\ IngressTypeOK /\ OwnerInv /\ ReplayInv /\ OnceInv
      /\ wall \in Nat /\ stamp[r] \in Nat /\ replay \subseteq Genuine
      /\ inTime \subseteq Requests
  BY DEF IngressInv, IngressTypeOK
<1>2. /\ at[r] = "record" /\ signed[r] \in Genuine /\ signed[r] \notin Alive(stamp[r])
      /\ replay' = Alive(stamp[r]) \cup {signed[r]}
      /\ inTime' = IF wall < HttpExpires[signed[r]] THEN inTime \cup {r} ELSE inTime
      /\ owner' = [owner EXCEPT ![r] = "peer"] /\ at' = [at EXCEPT ![r] = "app"]
      /\ stamp' = [stamp EXCEPT ![r] = 0]
      /\ UNCHANGED <<signed, body, answer, free, waiting, wall>>
  BY <1>1 DEF Admit, FirstTime, Goto, ReplayInv
<1>3. replay' \subseteq Genuine /\ inTime' \subseteq Requests
  BY <1>1, <1>2 DEF Alive
<1>4. /\ IngressTypeOK' /\ QueueInv' /\ SlotsInv' /\ BodyInv' /\ OwnerInv'
      /\ owner'[r] = "peer" /\ at'[r] = "app"
      /\ \A q \in Requests : q # r => owner'[q] = owner[q] /\ at'[q] = at[q]
      /\ \A q \in Requests : stamp'[q] <= wall
  BY <1>2, <1>3, EntersApp
<1>5. ASSUME NEW sig \in replay, wall < HttpExpires[sig] PROVE sig \in Alive(stamp[r])
  <2>1. stamp[r] <= wall /\ HttpExpires[sig] \in Nat
    BY <1>1, IngressConstants DEF ReplayInv
  <2> QED
    BY <1>1, <1>5, <2>1 DEF Alive
<1>6. ReplayInv'
  <2>1. ASSUME NEW q \in inTime'
        PROVE  owner'[q] = "peer" /\ (wall < HttpExpires[signed[q]] => signed[q] \in replay')
    <3>1. CASE q = r
      BY <1>2, <1>4, <3>1
    <3>2. CASE q # r
      <4>1. q \in inTime
        BY <1>2, <3>2
      <4>2. owner[q] = "peer" /\ (wall < HttpExpires[signed[q]] => signed[q] \in replay)
        BY <1>1, <4>1 DEF ReplayInv
      <4> QED
        BY <1>1, <1>2, <1>4, <1>5, <3>2, <4>1, <4>2
    <3> QED
      BY <3>1, <3>2
  <2>2. ASSUME NEW q \in Requests, owner'[q] = "peer", wall < HttpExpires[signed[q]]
        PROVE  q \in inTime'
    <3>1. CASE q = r
      BY <1>2, <2>2, <3>1
    <3>2. CASE q # r
      BY <1>1, <1>2, <1>4, <2>2, <3>2 DEF ReplayInv
    <3> QED
      BY <3>1, <3>2
  <2>3. \A q \in Requests : at'[q] \in {"stamp", "record"} => signed[q] \in Genuine
    BY <1>1, <1>4 DEF ReplayInv
  <2> QED
    BY <1>2, <1>4, <2>1, <2>2, <2>3 DEF ReplayInv
<1>7. OnceInv'
  <2>1. ASSUME NEW q \in inTime, signed[q] = signed[r], wall < HttpExpires[signed[r]]
        PROVE  FALSE
    BY <1>1, <1>2, <1>5, <2>1 DEF ReplayInv
  <2> QED
    BY <1>1, <1>2, <2>1 DEF OnceInv
<1> QED
  BY <1>4, <1>6, <1>7 DEF IngressInv

LEMMA AdmitOpenKeeps ==
    ASSUME IngressInv, NEW r \in Requests, AdmitOpen(r)
    PROVE  IngressInv'
<1>1. /\ at[r] = "authorize" /\ signed[r] = Unsigned /\ ~RequireAuth
      /\ owner' = [owner EXCEPT ![r] = "open"] /\ at' = [at EXCEPT ![r] = "app"]
      /\ UNCHANGED <<signed, body, answer, free, waiting, replay, wall, stamp, inTime>>
  BY DEF AdmitOpen, Goto, replayVars
<1>2. /\ replay \subseteq Genuine /\ inTime \subseteq Requests
      /\ ReplayInv /\ OnceInv /\ OwnerInv
  BY DEF IngressInv, IngressTypeOK
<1>3. /\ IngressTypeOK' /\ QueueInv' /\ SlotsInv' /\ BodyInv' /\ OwnerInv'
      /\ owner'[r] = "open" /\ at'[r] = "app"
      /\ \A q \in Requests : q # r => owner'[q] = owner[q] /\ at'[q] = at[q]
      /\ \A q \in Requests : stamp'[q] <= wall
  BY <1>1, <1>2, EntersApp
<1>4. ReplayInv' /\ OnceInv'
  <2>1. r \notin inTime
    BY <1>1, <1>2 DEF ReplayInv, OwnerInv
  <2> QED
    BY <1>1, <1>2, <1>3, <2>1 DEF ReplayInv, OnceInv
<1> QED
  BY <1>3, <1>4 DEF IngressInv

\* Time only expires rows.
LEMMA WallKeeps ==
    ASSUME IngressInv, WallTick
    PROVE  IngressInv'
<1>1. /\ wall' = wall + 1
      /\ UNCHANGED <<signed, at, body, owner, answer, free, waiting, replay, stamp, inTime>>
  BY DEF WallTick
<1>2. /\ wall \in Nat /\ stamp \in [Requests -> Nat] /\ signed \in [Requests -> Headers]
      /\ inTime \subseteq Requests /\ replay \subseteq Genuine
  BY DEF IngressInv, IngressTypeOK
<1>3. SlotsInv'
  <2>1. Holders' = Holders
    BY <1>1 DEF Holders
  <2> QED
    BY <1>1, <2>1, SlotsKept
<1>4. IngressTypeOK' /\ QueueInv' /\ BodyInv' /\ OwnerInv' /\ OnceInv'
  <2>1. wall' \in Nat
    BY <1>1, <1>2
  <2>2. IngressTypeOK'
    BY <1>1, <2>1 DEF IngressInv, IngressTypeOK
  <2>3. QueueInv' /\ BodyInv'
    BY <1>1 DEF IngressInv, QueueInv, BodyInv
  <2>4. OwnerInv' /\ OnceInv'
    BY <1>1 DEF IngressInv, OwnerInv, OnceInv
  <2> QED
    BY <2>2, <2>3, <2>4
<1>5. ReplayInv'
  <2>1. \A r \in Requests : signed[r] \in Genuine /\ wall' < HttpExpires[signed[r]]
                              => wall < HttpExpires[signed[r]]
    BY <1>1, <1>2, IngressConstants
  <2>2. ReplayInv /\ OwnerInv
    BY DEF IngressInv
  <2>3. /\ \A r \in Requests : stamp[r] <= wall
        /\ \A r \in Requests : owner[r] = "peer" => signed[r] \in Genuine
    BY <2>2 DEF ReplayInv, OwnerInv
  <2>4. \A r \in Requests : stamp'[r] <= wall'
    BY <1>1, <1>2, <2>3
  <2> QED
    BY <1>1, <1>2, <2>1, <2>2, <2>3, <2>4 DEF ReplayInv
<1> QED
  BY <1>3, <1>4, <1>5 DEF IngressInv

-----------------------------------------------------------------------------
\* The induction.

\* One step per way out that holds a slot.
LEMMA ExitKeeps ==
    ASSUME IngressInv, NEW r \in Requests,
           \/ at[r] = "handed" /\ Leave(r, "again")
           \/ \E size \in 0 .. MaxBody + 1 : ChunkRefused(r, size)
           \/ BodyBroken(r) \/ BodyTimeout(r) \/ HeadersRefused(r)
           \/ PolicyUnreadable(r) \/ AuthRefused(r) \/ AppEnds(r)
    PROVE  IngressInv'
<1>1. PICK code \in Answers :
        /\ at[r] \in Holding /\ Leave(r, code) /\ (code = "again" => at[r] # "app")
  <2>1. {"refused", "again", "over"} \subseteq Answers
    BY DEF Answers
  <2>2. {"handed", "body", "authorize", "record", "app"} \subseteq Holding
    BY DEF Holding
  <2>3. CASE at[r] = "handed" /\ Leave(r, "again")
    BY <2>1, <2>2, <2>3
  <2>4. CASE \E size \in 0 .. MaxBody + 1 : ChunkRefused(r, size)
    BY <2>1, <2>2, <2>4 DEF ChunkRefused
  <2>5. CASE BodyBroken(r)
    BY <2>1, <2>2, <2>5 DEF BodyBroken
  <2>6. CASE BodyTimeout(r)
    BY <2>1, <2>2, <2>6 DEF BodyTimeout
  <2>7. CASE HeadersRefused(r)
    BY <2>1, <2>2, <2>7 DEF HeadersRefused
  <2>8. CASE PolicyUnreadable(r)
    BY <2>1, <2>2, <2>8 DEF PolicyUnreadable
  <2>9. CASE AuthRefused(r)
    BY <2>1, <2>2, <2>9 DEF AuthRefused
  <2>10. CASE AppEnds(r)
    BY <2>1, <2>2, <2>10 DEF AppEnds
  <2> QED
    BY <2>3, <2>4, <2>5, <2>6, <2>7, <2>8, <2>9, <2>10
<1> QED
  BY <1>1, LeaveKeeps

LEMMA IngressStep == IngressInv /\ [IngressNext]_ingressVars => IngressInv'
<1> SUFFICES ASSUME IngressInv, [IngressNext]_ingressVars PROVE IngressInv'
  OBVIOUS
<1>1. CASE UNCHANGED ingressVars
  <2>1. /\ UNCHANGED <<signed, at, body, owner, answer, free, waiting>>
        /\ UNCHANGED <<replay, wall, stamp, inTime>>
    BY <1>1 DEF ingressVars, replayVars
  <2>2. Holders' = Holders
    BY <2>1 DEF Holders
  <2>3. SlotsInv'
    BY <2>1, <2>2, SlotsKept
  <2>4. IngressTypeOK' /\ QueueInv' /\ BodyInv'
    BY <2>1 DEF IngressInv, IngressTypeOK, QueueInv, BodyInv
  <2>5. OwnerInv' /\ ReplayInv' /\ OnceInv'
    BY <2>1 DEF IngressInv, OwnerInv, ReplayInv, OnceInv
  <2> QED
    BY <2>3, <2>4, <2>5 DEF IngressInv
<1>2. ASSUME NEW r \in Requests, Start(r) PROVE IngressInv'
  BY <1>2, AsideKeeps, AcquireKeeps DEF Start
<1>3. ASSUME NEW r \in Requests, Woken(r) PROVE IngressInv'
  BY <1>3, WokenKeeps
<1>4. ASSUME NEW r \in Requests, Event(r) PROVE IngressInv'
  BY <1>4, ExitKeeps, ChunkKeeps DEF Event
<1>5. ASSUME NEW r \in Requests, Timeout(r) PROVE IngressInv'
  <2>1. CASE QueueTimeout(r) /\ at[r] = "waiting"
    <3>1. PICK i \in DOMAIN waiting : waiting[i] = r /\ waiting' = RemoveAt(waiting, i)
      BY <2>1 DEF QueueTimeout
    <3>2. /\ at' = [at EXCEPT ![r] = "ended"] /\ answer' = [answer EXCEPT ![r] = "again"]
          /\ UNCHANGED <<signed, body, owner, free, replay, wall, stamp, inTime>>
      BY <2>1 DEF QueueTimeout, Goto, Answer, replayVars
    <3> QED
      BY <2>1, <3>1, <3>2, WaiterTimesOut
  <2>2. CASE ~ (QueueTimeout(r) /\ at[r] = "waiting")
    BY <1>5, <2>2, ExitKeeps DEF Timeout, QueueTimeout
  <2> QED
    BY <2>1, <2>2
<1>6. ASSUME NEW r \in Requests, Authorize(r) PROVE IngressInv'
  BY <1>6, ExitKeeps, ReadingsKeep, AdmitKeeps, AdmitOpenKeeps DEF Authorize
<1>7. ASSUME NEW r \in Requests, AppEnds(r) PROVE IngressInv'
  BY <1>7, ExitKeeps
<1>8. CASE WallTick
  BY <1>8, WallKeeps
<1> QED
  BY <1>1, <1>2, <1>3, <1>4, <1>5, <1>6, <1>7, <1>8 DEF IngressNext, Serve

LEMMA IngressInvariant == IngressSpec => []IngressInv
BY IngressStarts, IngressStep, PTL DEF IngressSpec

\* Every variable of the middleware keeps its type; that the semaphore's value
\* never exceeds max_concurrent, and is never negative, is what needs the
\* invariant: a slot that is given back was held, and one that is taken is free.
THEOREM IngressTypes == IngressSpec => []IngressTypeOK
<1>1. IngressInv => IngressTypeOK
  BY DEF IngressInv
<1> QED
  BY <1>1, IngressInvariant, PTL

\* No exit of the middleware loses a slot or gives one back twice, whichever
\* timeout races whichever hand-over, for any number of slots and of requests.
THEOREM SlotsAreConserved == IngressSpec => []SlotsConserved
<1>1. IngressInv => SlotsConserved
  BY DEF IngressInv, SlotsInv
<1> QED
  BY <1>1, IngressInvariant, PTL

\* A request is served as the peer whose signature verified, and never as
\* anonymous when it carries Raven headers; while a signature is valid it admits
\* one request, whichever threads read the clock when, and however late their
\* transactions come; a request that is told to try again has not used its
\* signature up.
THEOREM AdmissionIsVerified == IngressSpec => []AdmittedAsVerified
<1>1. ASSUME IngressInv PROVE NoDowngrade
  <2> SUFFICES ASSUME NEW r \in Requests, at[r] = "app"
               PROVE  \/ /\ owner[r] = "peer" /\ signed[r] \in Genuine
                         /\ wall < HttpExpires[signed[r]] => signed[r] \in replay
                      \/ owner[r] = "open" /\ signed[r] = Unsigned /\ ~RequireAuth
    BY DEF NoDowngrade
  <2>1. owner[r] \in {"peer", "open"}
    BY <1>1 DEF IngressInv, IngressTypeOK, OwnerInv
  <2> QED
    BY <1>1, <2>1 DEF IngressInv, OwnerInv, ReplayInv
<1>2. ASSUME IngressInv PROVE OncePerSignature
  <2>1. ASSUME NEW sig \in Genuine PROVE Cardinality(Admitted(sig)) <= 1
    <3>1. CASE Admitted(sig) = {}
      BY <3>1, FS_EmptySet
    <3>2. CASE Admitted(sig) # {}
      <4>1. PICK r \in inTime : signed[r] = sig
        BY <3>2 DEF Admitted
      <4>2. Admitted(sig) = {r}
        BY <1>2, <2>1, <4>1 DEF Admitted, IngressInv, OnceInv
      <4>3. Cardinality({r}) = 1
        BY FS_Singleton
      <4> QED
        BY <4>2, <4>3
    <3> QED
      BY <3>1, <3>2
  <2>2. \A r \in Requests : answer[r] = "again" => owner[r] = ""
    BY <1>2 DEF IngressInv, OwnerInv
  <2> QED
    BY <2>1, <2>2 DEF OncePerSignature
<1>3. IngressInv => AdmittedAsVerified
  BY <1>1, <1>2 DEF AdmittedAsVerified
<1> QED
  BY <1>3, IngressInvariant, PTL

\* Whatever finite number of clients connect, and whatever sizes they declare and
\* send, the server buffers at most max_concurrent bodies of max_body_bytes: a
\* buffer needs a slot, and there are max_concurrent of them.
THEOREM ResourcesAreBounded ==
    ASSUME IsFiniteSet(Requests)
    PROVE  IngressSpec => []ResourcesBounded
<1>1. ASSUME IngressInv PROVE BufferBounded
  <2>1. /\ MaxBody \in Nat /\ MaxConcurrent \in Nat
        /\ Holders \in SUBSET Requests
        /\ Cardinality(Holders) \in Nat /\ Cardinality(Holders) <= MaxConcurrent
    <3>1. MaxBody \in Nat /\ MaxConcurrent \in Nat
      BY IngressConstants
    <3>2. Cardinality(Holders) \in Nat /\ free + Cardinality(Holders) = MaxConcurrent
      BY <1>1, FS_CardinalityType DEF IngressInv, SlotsInv, SlotsConserved
    <3>3. free \in 0 .. MaxConcurrent
      BY <1>1 DEF IngressInv, IngressTypeOK
    <3> QED
      BY <3>1, <3>2, <3>3 DEF Holders
  <2>2. /\ \A r \in Requests : body[r] \in 0 .. MaxBody
        /\ \A r \in Requests \ Holders : body[r] = 0
    <3>1. body \in [Requests -> Nat]
      BY <1>1 DEF IngressInv, IngressTypeOK
    <3>2. \A r \in Requests : body[r] <= MaxBody
      BY <1>1 DEF IngressInv, BodyInv
    <3>3. \A r \in Requests \ Holders : body[r] = 0
      BY <1>1 DEF IngressInv, BodyInv, Holders
    <3> QED
      BY <2>1, <3>1, <3>2, <3>3
  <2>3. SumFunctionOnSet(body, Requests) <= Cardinality(Holders) * MaxBody
    BY <2>1, <2>2, SumBound
  <2>4. Cardinality(Holders) * MaxBody <= MaxConcurrent * MaxBody
    BY <2>1
  <2>5. SumFunctionOnSet(body, Requests) \in Nat
    BY <2>1, <2>2, SumInNat
  <2>6. MapThenSumSet(LAMBDA r : body[r], Requests) = SumFunctionOnSet(body, Requests)
    BY DEF MapThenSumSet, SumFunctionOnSet, FoldFunctionOnSet, MapThenFoldSet
  <2>7. /\ Cardinality(Holders) * MaxBody \in Nat
        /\ MaxConcurrent * MaxBody \in Nat
    BY <2>1
  <2> QED
    BY <2>3, <2>4, <2>5, <2>6, <2>7 DEF BufferBounded
<1>2. IngressInv => ResourcesBounded
  BY <1>1 DEF ResourcesBounded, IngressInv, SlotsInv
<1> QED
  BY <1>2, IngressInvariant, PTL

-----------------------------------------------------------------------------
\* The executor: the inductive invariant.

States    == Ended \cup {"SUBMITTED", "WORKING"}
Accepted  == Running \cup {"finally", "done", "raised"}
Busy      == Running \cup {"authorize", "finally"}
WithEvent == {"start", "brain", "complete", "fail", "finally"}
Open      == {"authorize", "register", "start", "brain", "complete"}

TaskTypes ==
    /\ msg \in [Messages -> Stages]
    /\ step \in [Messages -> 0 .. MaxSteps]
    /\ isSet \subseteq Messages /\ queueClosed \subseteq Messages
    /\ touched \subseteq Messages
    /\ call \in [Cancels -> CallStages]
Registries ==
    /\ owners \subseteq Principals \cup Earlier
    /\ IsFiniteSet(owners) /\ Cardinality(owners) <= MaxOwners

\* A row is of an accepted message, and open while its task runs.
RowsInv ==
    /\ \A k \in DOMAIN row :
          row[k] \in States /\ \E m \in Messages : Row(m) = k /\ msg[m] \in Accepted
    /\ \A m \in touched : msg[m] \in Accepted
    /\ \A m \in Messages : msg[m] \in Open /\ Row(m) \in DOMAIN row =>
          row[Row(m)] \notin {"COMPLETED", "FAILED"}
    /\ \A x \in Cancels : call[x] \in {"authorize", "stop", "hook", "drained"} =>
          Row(x) \in DOMAIN row

\* One message of a task at a time, and its event under the task's id.
OneRun ==
    \A m, n \in Messages : Row(m) = Row(n) /\ msg[m] \in Busy /\ msg[n] \in Busy => m = n
EventsInv ==
    /\ \A k \in DOMAIN events :
          events[k] \in Messages /\ k \in EventKeys(events[k]) /\ msg[events[k]] \in WithEvent
    /\ \A m \in Messages : Registered(m) => Row(m) \in DOMAIN events /\ events[Row(m)] = m

TaskInv == TaskTypes /\ Registries /\ RowsInv /\ OneRun /\ EventsInv

-----------------------------------------------------------------------------
\* What the steps change.

\* An event that is saved changes the row of its task only, or nothing.
LEMMA EmitFacts ==
    ASSUME NEW m \in Messages, NEW state, Emit(m, state)
    PROVE  /\ DOMAIN row \subseteq DOMAIN row'
           /\ \A k \in DOMAIN row' :
                 \/ k \in DOMAIN row /\ row'[k] = row[k]
                 \/ k = Row(m) /\ row'[k] = state
<1>1. CASE m \in queueClosed
  BY <1>1 DEF Emit
<1>2. CASE m \notin queueClosed
  <2>1. row' = [k \in DOMAIN row \cup {Row(m)} |-> IF k = Row(m) THEN state ELSE row[k]]
    BY <1>2 DEF Emit
  <2> QED
    BY <2>1
<1> QED
  BY <1>1, <1>2

\* The two keys of a running message are not the task id of another.
LEMMA KeysApart ==
    ASSUME OneRun, NEW m \in Messages, NEW n \in Messages,
           msg[m] \in Busy, msg[n] \in Busy, Row(n) \in EventKeys(m)
    PROVE  n = m
<1>1. CASE Row(n) = Row(m)
  BY <1>1 DEF OneRun
<1>2. CASE Row(n) = <<By[m], MessageId[m]>>
  <2>1. By[m] = By[n] /\ MessageId[m] = About[n]
    BY <1>2 DEF Row
  <2>2. Row(n) = Row(m)
    BY <2>1, FreshIds DEF Row
  <2> QED
    BY <2>2, <1>1
<1> QED
  BY <1>1, <1>2 DEF EventKeys

\* How a message goes from stage to stage, whatever step it is.
Moves ==
    \A m \in Messages :
        \/ msg'[m] = msg[m]
        \/ msg[m] = "new" /\ msg'[m] = "refused"
        \/ /\ msg[m] = "new" /\ msg'[m] = "authorize"
           /\ row' = row
           /\ Row(m) \in DOMAIN row => row[Row(m)] \notin Ended
           /\ \A n \in Messages : Row(n) = Row(m) => msg[n] \notin Busy
           /\ \A n \in Messages \ {m} : msg'[n] = msg[n]
        \/ msg[m] = "authorize" /\ msg'[m] \in {"rejected", "register", "done"}
        \/ msg[m] = "register" /\ msg'[m] \in {"start", "done"}
        \/ msg[m] = "start" /\ msg'[m] \in {"brain", "fail", "finally"}
        \/ msg[m] = "brain" /\ msg'[m] \in {"complete", "fail", "finally"}
        \/ msg[m] = "complete" /\ msg'[m] \in {"fail", "finally"}
        \/ msg[m] = "fail" /\ msg'[m] \in {"raised", "finally"}
        \/ msg[m] = "finally" /\ msg'[m] = "done"

\* An interrupted message goes to its end.
LEMMA StopMoves ==
    ASSUME TaskTypes, NEW x \in Cancels, CancelStop(x)
    PROVE  \A m \in Messages :
               \/ msg'[m] = msg[m]
               \/ msg[m] \in {"authorize", "register"} /\ msg'[m] = "done"
               \/ msg[m] \in {"start", "brain", "complete", "fail"} /\ msg'[m] = "finally"
<1> DEFINE mine == {m \in Messages : Row(m) = Row(x) /\ msg[m] \in Running \cup {"authorize"}}
           stopped == [m \in Messages |-> IF m \notin mine THEN msg[m]
                          ELSE IF msg[m] \in {"authorize", "register"} THEN "done" ELSE "finally"]
<1>1. msg' = msg \/ msg' = stopped
  BY DEF CancelStop
<1>2. ASSUME msg' = stopped, NEW m \in Messages
      PROVE  \/ msg'[m] = msg[m]
             \/ msg[m] \in {"authorize", "register"} /\ msg'[m] = "done"
             \/ msg[m] \in {"start", "brain", "complete", "fail"} /\ msg'[m] = "finally"
  BY <1>2 DEF Running
<1> QED
  BY <1>1, <1>2

\* Every step is of one message, one cancellation or an operator.
LEMMA MoveFacts ==
    ASSUME TaskTypes, TaskNext
    PROVE  Moves
<1>1. ASSUME NEW m \in Messages, TaskArrive(m) PROVE Moves
  <2>1. ASSUME NEW n \in Messages, n # m PROVE msg'[n] = msg[n]
    BY <1>1, <2>1 DEF TaskArrive, To, TaskTypes
  <2>2. \A n \in Messages : Row(n) = Row(m) => msg[n] \notin Busy
    BY <1>1 DEF TaskArrive, Busy
  <2>3. msg[m] = "new" /\ row' = row /\ (Row(m) \in DOMAIN row => row[Row(m)] \notin Ended)
    BY <1>1 DEF TaskArrive
  <2>4. msg'[m] \in {"authorize", "refused"}
    BY <1>1 DEF TaskArrive, To, TaskTypes
  <2> QED
    BY <2>1, <2>2, <2>3, <2>4 DEF Moves
<1>2. ASSUME NEW m \in Messages,
             TaskReject(m) \/ TaskAccept(m) \/ TaskRegister(m) \/ TaskStart(m)
      PROVE  Moves
  BY <1>2 DEF TaskReject, TaskAccept, TaskRegister, TaskStart, To, TaskTypes, Moves
<1>3. ASSUME NEW m \in Messages,
             TaskBrain(m) \/ TaskComplete(m) \/ TaskFail(m) \/ TaskFinally(m)
      PROVE  Moves
  BY <1>3 DEF TaskBrain, TaskComplete, TaskFail, TaskFinally, To, TaskTypes, Moves
<1>4. ASSUME NEW x \in Cancels, CancelStop(x) PROVE Moves
  BY <1>4, StopMoves DEF Moves
<1>5. ASSUME NEW x \in Cancels,
             CancelLookup(x) \/ CancelAuthorize(x) \/ CancelHook(x) \/ CancelForceSave(x)
      PROVE  Moves
  BY <1>5 DEF CancelLookup, CancelAuthorize, CancelHook, CancelForceSave, Moves
<1>6. ASSUME NEW o \in Doubted, PolicyEdit(o) PROVE Moves
  BY <1>6 DEF PolicyEdit, Moves
<1> QED
  BY <1>1, <1>2, <1>3, <1>4, <1>5, <1>6 DEF TaskNext, ExecuteStep, CancelStep

LEMMA OneRunKept ==
    ASSUME TaskTypes, TaskNext, OneRun
    PROVE  OneRun'
<1> SUFFICES ASSUME NEW m \in Messages, NEW n \in Messages, Row(m) = Row(n),
                    msg'[m] \in Busy, msg'[n] \in Busy
             PROVE  m = n
  BY DEF OneRun, Row
<1>1. Moves
  BY MoveFacts
<1>2. \A k \in Messages : msg'[k] \in Busy => msg[k] \in Busy \/ msg[k] = "new"
  BY <1>1 DEF Moves, Busy, Running
<1>3. \A k, l \in Messages : msg[k] = "new" /\ msg'[k] \in Busy /\ Row(l) = Row(k) /\ l # k
          => msg'[l] = msg[l] /\ msg[l] \notin Busy
  BY <1>1 DEF Moves, Busy, Running
<1> QED
  BY <1>2, <1>3 DEF OneRun

LEMMA TaskTypesKept ==
    ASSUME TaskTypes, EventsInv, TaskNext
    PROVE  TaskTypes'
<1>1. ASSUME NEW m \in Messages,
             TaskArrive(m) \/ TaskReject(m) \/ TaskAccept(m) \/ TaskRegister(m) \/ TaskStart(m)
      PROVE  TaskTypes'
  BY <1>1 DEF TaskArrive, TaskReject, TaskAccept, TaskRegister, TaskStart, To, TaskTypes,
              Stages, Running
<1>2. ASSUME NEW m \in Messages, TaskBrain(m) PROVE TaskTypes'
  <2>1. msg' \in [Messages -> Stages]
    BY <1>2 DEF TaskBrain, To, TaskTypes, Stages, Running
  <2>2. step' \in [Messages -> 0 .. MaxSteps]
    BY <1>2, TaskConstants DEF TaskBrain, TaskTypes
  <2> QED
    BY <1>2, <2>1, <2>2 DEF TaskBrain, TaskTypes
<1>3. ASSUME NEW m \in Messages, TaskComplete(m) \/ TaskFail(m) \/ TaskFinally(m)
      PROVE  TaskTypes'
  BY <1>3 DEF TaskComplete, TaskFail, TaskFinally, To, TaskTypes, Stages, Running
<1>4. ASSUME NEW x \in Cancels, CancelStop(x) PROVE TaskTypes'
  <2>1. msg' \in [Messages -> Stages]
    BY <1>4 DEF CancelStop, TaskTypes, Stages
  <2>2. call' \in [Cancels -> CallStages] /\ queueClosed' \subseteq Messages
    BY <1>4 DEF CancelStop, At, TaskTypes, CallStages
  <2> QED
    BY <1>4, <2>1, <2>2 DEF CancelStop, TaskTypes
<1>5. ASSUME NEW x \in Cancels,
             CancelLookup(x) \/ CancelAuthorize(x) \/ CancelHook(x) \/ CancelForceSave(x)
      PROVE  TaskTypes'
  BY <1>5 DEF CancelLookup, CancelAuthorize, CancelHook, CancelForceSave, At, TaskTypes,
              CallStages, EventsInv
<1>6. ASSUME NEW o \in Doubted, PolicyEdit(o) PROVE TaskTypes'
  BY <1>6 DEF PolicyEdit, TaskTypes
<1> QED
  BY <1>1, <1>2, <1>3, <1>4, <1>5, <1>6 DEF TaskNext, ExecuteStep, CancelStep

LEMMA RegistriesKept ==
    ASSUME TaskTypes, Registries, TaskNext
    PROVE  Registries'
<1>1. ASSUME NEW m \in Messages, TaskArrive(m) PROVE Registries'
  <2>1. CASE By[m] \in owners \/ owners' = owners
    <3>1. owners' = owners
      BY <1>1, <2>1 DEF TaskArrive
    <3> QED
      BY <3>1 DEF Registries, Principals
  <2>2. CASE By[m] \notin owners /\ owners' # owners
    <3>1. Cardinality(owners) < MaxOwners /\ owners' = owners \cup {By[m]}
      BY <1>1, <2>2 DEF TaskArrive
    <3>2. IsFiniteSet(owners') /\ Cardinality(owners') = Cardinality(owners) + 1
      BY <3>1, <2>2, FS_AddElement DEF Registries
    <3>3. By[m] \in Principals
      BY DEF Principals
    <3>4. Cardinality(owners) \in Nat
      BY FS_CardinalityType DEF Registries
    <3> QED
      BY <3>1, <3>2, <3>3, <3>4, TaskConstants DEF Registries, Principals
  <2> QED
    BY <2>1, <2>2
<1>2. ASSUME owners' = owners PROVE Registries'
  BY <1>2 DEF Registries, Principals
<1>3. \/ owners' = owners
      \/ \E m \in Messages : TaskArrive(m)
  BY DEF TaskNext, ExecuteStep, CancelStep, TaskReject, TaskAccept, TaskRegister, TaskStart,
         TaskBrain, TaskComplete, TaskFail, TaskFinally, CancelLookup, CancelAuthorize,
         CancelStop, CancelHook, CancelForceSave, PolicyEdit
<1> QED
  BY <1>1, <1>2, <1>3


-----------------------------------------------------------------------------
\* The rows of the task store.

\* Who changes a row: a message that runs, with an outcome only when it ends, or
\* a cancellation that was allowed.
RowSteps ==
    /\ DOMAIN row \subseteq DOMAIN row'
    /\ \A k \in DOMAIN row' :
          \/ k \in DOMAIN row /\ row'[k] = row[k]
          \/ \E m \in Messages :
                /\ k = Row(m) /\ msg[m] \in Open /\ msg'[m] \in Accepted
                /\ row'[k] \in States \ {"FAILED"}
                /\ row'[k] = "COMPLETED" => msg'[m] \in {"finally", "fail"}
          \/ \E m \in Messages :
                /\ k = Row(m) /\ msg[m] = "fail" /\ msg'[m] = "finally"
                /\ row'[k] = "FAILED"
          \/ \E x \in Cancels :
                /\ k = Row(x) /\ k \in DOMAIN row /\ call[x] = "drained"
                /\ row'[k] = "CANCELED"

LEMMA RowFacts ==
    ASSUME TaskTypes, RowsInv, TaskNext
    PROVE  RowSteps
<1>1. ASSUME row' = row PROVE RowSteps
  BY <1>1 DEF RowSteps
<1>2. ASSUME NEW m \in Messages, NEW state \in States \ {"FAILED"}, Emit(m, state),
             msg[m] \in Open, msg'[m] \in Accepted,
             state = "COMPLETED" => msg'[m] \in {"finally", "fail"}
      PROVE  RowSteps
  BY <1>2, EmitFacts DEF RowSteps
<1>3. ASSUME NEW m \in Messages, TaskAccept(m) PROVE RowSteps
  <2>1. msg[m] \in Open /\ msg'[m] \in Accepted
    BY <1>3 DEF TaskAccept, To, TaskTypes, Open, Accepted, Running
  <2>2. row' = row \/ Emit(m, "SUBMITTED")
    BY <1>3 DEF TaskAccept
  <2> QED
    BY <2>1, <2>2, <1>1, <1>2 DEF States, Ended
<1>4. ASSUME NEW m \in Messages, TaskRegister(m) \/ TaskStart(m) PROVE RowSteps
  <2>1. msg[m] \in Open /\ msg'[m] \in Accepted
    BY <1>4 DEF TaskRegister, TaskStart, To, TaskTypes, Open, Accepted, Running
  <2>2. Emit(m, "SUBMITTED") \/ Emit(m, "WORKING")
    BY <1>4 DEF TaskRegister, TaskStart
  <2> QED
    BY <2>1, <2>2, <1>2 DEF States, Ended
<1>5. ASSUME NEW m \in Messages, TaskComplete(m) PROVE RowSteps
  <2>1. msg[m] \in Open /\ msg'[m] \in {"finally", "fail"} /\ msg'[m] \in Accepted
    BY <1>5 DEF TaskComplete, To, TaskTypes, Open, Accepted, Running
  <2>2. row' = row \/ Emit(m, "COMPLETED")
    BY <1>5 DEF TaskComplete
  <2> QED
    BY <2>1, <2>2, <1>1, <1>2 DEF States, Ended
<1>6. ASSUME NEW m \in Messages, TaskFail(m) PROVE RowSteps
  <2>1. CASE Emit(m, "FAILED") /\ To(m, "finally")
    <3>1. msg[m] = "fail" /\ msg'[m] = "finally"
      BY <1>6, <2>1 DEF TaskFail, To, TaskTypes
    <3> QED
      BY <3>1, <2>1, EmitFacts DEF RowSteps
  <2> QED
    BY <1>6, <2>1, <1>1 DEF TaskFail
<1>7. ASSUME NEW x \in Cancels, CancelForceSave(x) PROVE RowSteps
  <2>1. Row(x) \in DOMAIN row /\ call[x] = "drained"
    BY <1>7 DEF CancelForceSave, RowsInv
  <2>2. row' = [row EXCEPT ![Row(x)] = "CANCELED"]
    BY <1>7 DEF CancelForceSave
  <2>3. DOMAIN row' = DOMAIN row
    BY <2>2
  <2>4. \A k \in DOMAIN row : k # Row(x) => row'[k] = row[k]
    BY <2>2
  <2>5. row'[Row(x)] = "CANCELED"
    BY <2>1, <2>2
  <2> QED
    BY <2>1, <2>3, <2>4, <2>5 DEF RowSteps
<1>8. \/ row' = row
      \/ \E m \in Messages : TaskAccept(m) \/ TaskRegister(m) \/ TaskStart(m) \/ TaskComplete(m)
                                \/ TaskFail(m)
      \/ \E x \in Cancels : CancelForceSave(x)
  BY DEF TaskNext, ExecuteStep, CancelStep, TaskArrive, TaskReject, TaskBrain, TaskFinally,
         CancelLookup, CancelAuthorize, CancelStop, CancelHook, PolicyEdit
<1> QED
  BY <1>1, <1>3, <1>4, <1>5, <1>6, <1>7, <1>8

LEMMA RowsInvKept ==
    ASSUME TaskTypes, RowsInv, OneRun, TaskNext
    PROVE  RowsInv'
<1>1. Moves /\ RowSteps
  BY MoveFacts, RowFacts
<1>2. \A m \in Messages : msg[m] \in Accepted => msg'[m] \in Accepted
  BY <1>1 DEF Moves, Accepted, Running
<1>3. ASSUME NEW k \in DOMAIN row'
      PROVE  row'[k] \in States /\ \E m \in Messages : Row(m) = k /\ msg'[m] \in Accepted
  <2>1. CASE k \in DOMAIN row /\ row'[k] = row[k]
    BY <2>1, <1>2 DEF RowsInv
  <2>2. CASE k \in DOMAIN row /\ row'[k] = "CANCELED"
    BY <2>2, <1>2 DEF RowsInv, States, Ended
  <2>3. CASE \E m \in Messages : k = Row(m) /\ msg'[m] \in Accepted /\ row'[k] \in States
    BY <2>3
  <2> QED
    BY <1>1, <2>1, <2>2, <2>3 DEF RowSteps, States, Ended, Accepted
<1>4. ASSUME NEW m \in touched' PROVE msg'[m] \in Accepted
  <2>1. CASE m \in touched
    BY <2>1, <1>2 DEF RowsInv, TaskTypes
  <2>2. CASE m \in Messages /\ TaskStart(m)
    BY <2>2 DEF TaskStart, To, TaskTypes, Accepted, Running
  <2>3. \/ touched' = touched
        \/ \E n \in Messages : TaskStart(n)
    <3>1. \A n \in Messages :
             \/ touched' = touched
             \/ ~TaskArrive(n) /\ (ExecuteStep(n) => TaskStart(n))
      BY DEF ExecuteStep, TaskArrive, TaskReject, TaskAccept, TaskRegister, TaskBrain,
           TaskComplete, TaskFail, TaskFinally
    <3>2. \A x \in Cancels : CancelLookup(x) \/ CancelStep(x) => touched' = touched
      BY DEF CancelStep, CancelLookup, CancelAuthorize, CancelStop, CancelHook, CancelForceSave
    <3>3. \A o \in Doubted : PolicyEdit(o) => touched' = touched
      BY DEF PolicyEdit
    <3> QED
      BY <3>1, <3>2, <3>3, Zenon DEF TaskNext
  <2>4. \A n \in Messages : TaskStart(n) => touched' = touched \cup {n}
    BY DEF TaskStart
  <2>5. m \in touched \/ (m \in Messages /\ TaskStart(m))
    BY <1>4, <2>3, <2>4, Zenon
  <2> QED
    BY <2>1, <2>2, <2>5
<1>5. ASSUME NEW m \in Messages, msg'[m] \in Open, Row(m) \in DOMAIN row'
      PROVE  row'[Row(m)] \notin {"COMPLETED", "FAILED"}
  <2>1. CASE msg[m] = "new"
    BY <1>1, <1>5, <2>1 DEF Moves, Open, Ended
  <2>2. CASE msg[m] # "new"
    <3>1. msg[m] \in Open /\ msg[m] \in Busy
      BY <1>1, <1>5, <2>2 DEF Moves, Open, Busy, Running
    <3>2. \A n \in Messages : Row(n) = Row(m) /\ msg[n] \in Busy => n = m
      BY <3>1 DEF OneRun
    <3>3. Open \subseteq Busy /\ "fail" \in Busy
      BY DEF Open, Busy, Running
    <3>4. CASE Row(m) \in DOMAIN row /\ row'[Row(m)] = row[Row(m)]
      BY <3>4, <3>1 DEF RowsInv
    <3>5. ASSUME NEW n \in Messages, Row(m) = Row(n), msg[n] \in Open,
                 row'[Row(m)] \in States \ {"FAILED"},
                 row'[Row(m)] = "COMPLETED" => msg'[n] \in {"finally", "fail"}
          PROVE  row'[Row(m)] \notin {"COMPLETED", "FAILED"}
      <4>1. n = m
        BY <3>5, <3>2, <3>3
      <4> QED
        BY <4>1, <3>5, <1>5 DEF Open
    <3>6. ~ \E n \in Messages : Row(m) = Row(n) /\ msg[n] = "fail"
      BY <3>2, <3>3, <3>1 DEF Open
    <3> QED
      BY <1>1, <1>5, <3>4, <3>5, <3>6 DEF RowSteps
  <2> QED
    BY <2>1, <2>2
<1>6. ASSUME NEW x \in Cancels, call'[x] \in {"authorize", "stop", "hook", "drained"}
      PROVE  Row(x) \in DOMAIN row'
  <2>1. CASE call[x] \in {"authorize", "stop", "hook", "drained"}
    BY <2>1, <1>1 DEF RowsInv, RowSteps
  <2>2. CASE CancelLookup(x) /\ call[x] = "new"
    BY <1>6, <2>2 DEF CancelLookup, At, TaskTypes
  <2>3. \A y \in Cancels : CancelLookup(y) => y = x \/ call'[x] = call[x]
    BY DEF CancelLookup, At, TaskTypes
  <2>4. \A y \in Cancels : CancelStep(y) => call'[x] = call[x] \/ (y = x /\
            call[x] \in {"authorize", "stop", "hook", "drained"})
    BY DEF CancelStep, CancelAuthorize, CancelStop, CancelHook, CancelForceSave, At, TaskTypes
  <2>5. call'[x] = call[x] \/ \E y \in Cancels : CancelLookup(y) \/ CancelStep(y)
    BY DEF TaskNext, ExecuteStep, TaskArrive, TaskReject, TaskAccept,
         TaskRegister, TaskStart, TaskBrain, TaskComplete, TaskFail, TaskFinally, PolicyEdit
  <2> QED
    BY <1>6, <2>1, <2>2, <2>3, <2>4, <2>5 DEF CancelLookup
<1>7. /\ \A k \in DOMAIN row' :
            row'[k] \in States /\ \E m \in Messages : Row(m) = k /\ msg'[m] \in Accepted
      /\ \A m \in touched' : msg'[m] \in Accepted
      /\ \A m \in Messages : msg'[m] \in Open /\ Row(m) \in DOMAIN row' =>
            row'[Row(m)] \notin {"COMPLETED", "FAILED"}
      /\ \A x \in Cancels : call'[x] \in {"authorize", "stop", "hook", "drained"} =>
            Row(x) \in DOMAIN row'
  BY <1>3, <1>4, <1>5, <1>6
<1> QED
  BY <1>7 DEF RowsInv, Row

-----------------------------------------------------------------------------
\* The registry of cancel events.

LEMMA EventsInvKept ==
    ASSUME TaskTypes, OneRun, EventsInv, TaskNext
    PROVE  EventsInv'
<1>0. Moves
  BY MoveFacts
<1> DEFINE Good(ev) ==
             /\ \A k \in DOMAIN ev :
                   ev[k] \in Messages /\ k \in EventKeys(ev[k]) /\ msg'[ev[k]] \in WithEvent
             /\ \A n \in Messages : msg'[n] \in {"start", "brain", "complete", "fail"} =>
                   Row(n) \in DOMAIN ev /\ ev[Row(n)] = n
<1>1. Good(events') => EventsInv'
  BY DEF EventsInv, Registered, Row, EventKeys
<1>2. ASSUME NEW m \in Messages, TaskRegister(m) PROVE Good(events')
  <2>1. msg[m] = "register" /\ msg'[m] = "start"
    BY <1>2 DEF TaskRegister, To, TaskTypes
  <2>2. \A n \in Messages : n # m => msg'[n] = msg[n]
    BY <1>2 DEF TaskRegister, To, TaskTypes
  <2>3. events' = [k \in DOMAIN events \cup EventKeys(m) |->
                     IF k \in EventKeys(m) THEN m ELSE events[k]]
    BY <1>2 DEF TaskRegister
  <2>4. ASSUME NEW k \in DOMAIN events'
        PROVE  /\ events'[k] \in Messages /\ k \in EventKeys(events'[k])
               /\ msg'[events'[k]] \in WithEvent
    <3>1. CASE k \in EventKeys(m)
      BY <3>1, <2>1, <2>3 DEF WithEvent
    <3>2. CASE k \notin EventKeys(m)
      <4>1. k \in DOMAIN events /\ events'[k] = events[k]
        BY <2>3, <3>2
      <4>2. events[k] \in Messages /\ k \in EventKeys(events[k]) /\ msg[events[k]] \in WithEvent
        BY <4>1 DEF EventsInv
      <4>3. events[k] # m
        BY <4>2, <3>2
      <4> QED
        BY <4>1, <4>2, <4>3, <2>2
    <3> QED
      BY <3>1, <3>2
  <2>5. ASSUME NEW n \in Messages, msg'[n] \in {"start", "brain", "complete", "fail"}
        PROVE  Row(n) \in DOMAIN events' /\ events'[Row(n)] = n
    <3>1. CASE n = m
      BY <3>1, <2>3 DEF EventKeys
    <3>2. CASE n # m
      <4>1. Registered(n)
        BY <2>5, <3>2, <2>2 DEF Registered
      <4>2. Row(n) \notin EventKeys(m)
        BY <3>2, <4>1, <2>1, KeysApart DEF Busy, Running, Registered
      <4> QED
        BY <4>1, <4>2, <2>3 DEF EventsInv
    <3> QED
      BY <3>1, <3>2
  <2> QED
    BY <2>4, <2>5
<1>3. ASSUME NEW m \in Messages, msg[m] \in Busy,
             msg'[m] \notin {"start", "brain", "complete", "fail"},
             \A n \in Messages : n # m => msg'[n] = msg[n],
             events' = Restrict(events, DOMAIN events \ EventKeys(m))
      PROVE  Good(events')
  <2>1. /\ DOMAIN events' = DOMAIN events \ EventKeys(m)
        /\ \A k \in DOMAIN events' : events'[k] = events[k]
    BY <1>3 DEF Restrict
  <2>2. ASSUME NEW k \in DOMAIN events'
        PROVE  /\ events'[k] \in Messages /\ k \in EventKeys(events'[k])
               /\ msg'[events'[k]] \in WithEvent
    <3>1. events'[k] = events[k] /\ k \in DOMAIN events /\ k \notin EventKeys(m)
      BY <2>1
    <3>2. events[k] \in Messages /\ k \in EventKeys(events[k]) /\ msg[events[k]] \in WithEvent
      BY <3>1 DEF EventsInv
    <3>3. events[k] # m
      BY <3>1, <3>2
    <3> QED
      BY <3>1, <3>2, <3>3, <1>3
  <2>3. ASSUME NEW n \in Messages, msg'[n] \in {"start", "brain", "complete", "fail"}
        PROVE  Row(n) \in DOMAIN events' /\ events'[Row(n)] = n
    <3>1. n # m /\ Registered(n)
      BY <1>3, <2>3 DEF Registered
    <3>2. Row(n) \notin EventKeys(m)
      BY <3>1, <1>3, KeysApart DEF Registered, Busy, Running
    <3> QED
      BY <3>1, <3>2, <2>1 DEF EventsInv
  <2> QED
    BY <2>2, <2>3
<1>4. ASSUME NEW m \in Messages, TaskFinally(m) PROVE Good(events')
  <2>1. msg[m] \in Busy /\ msg'[m] \notin {"start", "brain", "complete", "fail"}
    BY <1>4 DEF TaskFinally, To, TaskTypes, Busy, Running
  <2>2. \A n \in Messages : n # m => msg'[n] = msg[n]
    BY <1>4 DEF TaskFinally, To, TaskTypes
  <2>3. events' = Restrict(events, DOMAIN events \ EventKeys(m))
    BY <1>4 DEF TaskFinally
  <2> HIDE DEF Good
  <2> QED
    BY <2>1, <2>2, <2>3, <1>3
<1>5. ASSUME NEW m \in Messages, TaskFail(m), msg'[m] = "raised" PROVE Good(events')
  <2>1. msg[m] \in Busy /\ msg'[m] \notin {"start", "brain", "complete", "fail"}
    BY <1>5 DEF TaskFail, Busy, Running
  <2>2. \A n \in Messages : n # m => msg'[n] = msg[n]
    BY <1>5 DEF TaskFail, To, TaskTypes
  <2>3. events' = Restrict(events, DOMAIN events \ EventKeys(m))
    BY <1>5 DEF TaskFail
  <2> HIDE DEF Good
  <2> QED
    BY <2>1, <2>2, <2>3, <1>3
<1>6. ASSUME events' = events,
             \A n \in Messages : msg'[n] = "raised" => msg[n] = "raised",
             \A n \in Messages : msg[n] = "finally" => msg'[n] = "finally",
             \A n \in Messages : msg'[n] = "start" => msg[n] = "start"
      PROVE  Good(events')
  <2>1. \A n \in Messages : msg[n] \in WithEvent => msg'[n] \in WithEvent
    BY <1>0, <1>6 DEF Moves, WithEvent
  <2>2. \A n \in Messages : msg'[n] \in {"start", "brain", "complete", "fail"} =>
            msg[n] \in {"start", "brain", "complete", "fail"}
    BY <1>0, <1>6 DEF Moves
  <2> QED
    BY <2>1, <2>2, <1>6 DEF EventsInv, Registered
<1>7. ASSUME NEW m \in Messages,
             \/ TaskArrive(m) \/ TaskReject(m) \/ TaskAccept(m) \/ TaskStart(m)
             \/ TaskBrain(m) \/ TaskComplete(m)
             \/ TaskFail(m) /\ msg'[m] # "raised"
      PROVE  Good(events')
  <2>1. events' = events
    BY <1>7 DEF TaskArrive, TaskReject, TaskAccept, TaskStart, TaskBrain, TaskComplete, TaskFail
  <2>2. \A n \in Messages : n # m => msg'[n] = msg[n]
    BY <1>7 DEF TaskArrive, TaskReject, TaskAccept, TaskStart, TaskBrain, TaskComplete, TaskFail,
                To, TaskTypes
  <2>3. msg[m] # "finally" /\ (msg'[m] = "raised" => msg[m] = "raised")
                           /\ (msg'[m] = "start" => msg[m] = "start")
    BY <1>7 DEF TaskArrive, TaskReject, TaskAccept, TaskStart, TaskBrain, TaskComplete, TaskFail,
                To, TaskTypes
  <2> HIDE DEF Good
  <2> QED
    BY <2>1, <2>2, <2>3, <1>6
<1>8. ASSUME NEW x \in Cancels, CancelStop(x) PROVE Good(events')
  <2>1. events' = events
    BY <1>8 DEF CancelStop
  <2>2. \A n \in Messages : /\ msg[n] = "finally" => msg'[n] = "finally"
                            /\ msg'[n] = "raised" => msg[n] = "raised"
                            /\ msg'[n] = "start" => msg[n] = "start"
    BY <1>8, StopMoves
  <2> HIDE DEF Good
  <2> QED
    BY <2>1, <2>2, <1>6
<1>9. ASSUME events' = events, msg' = msg PROVE Good(events')
  <2> HIDE DEF Good
  <2> QED
    BY <1>9, <1>6
<1>10. \/ events' = events /\ msg' = msg
       \/ \E m \in Messages : TaskArrive(m) \/ ExecuteStep(m)
       \/ \E x \in Cancels : CancelStop(x)
  BY DEF TaskNext, CancelStep, CancelLookup, CancelAuthorize, CancelHook, CancelForceSave,
         PolicyEdit
<1>11. Good(events')
  <2> HIDE DEF Good
  <2> QED
    BY <1>2, <1>4, <1>5, <1>7, <1>8, <1>9, <1>10 DEF ExecuteStep
<1> QED
  BY <1>1, <1>11


-----------------------------------------------------------------------------
\* The theorems.

LEMMA TaskInvInit ==
    ASSUME TaskInit
    PROVE  TaskInv
<1>1. TaskTypes
  <2>1. 0 \in 0 .. MaxSteps
    BY TaskConstants
  <2> QED
    BY <2>1 DEF TaskInit, TaskTypes, Stages, CallStages
<1>2. Registries
  <2>1. owners \subseteq Earlier
    BY DEF TaskInit
  <2>2. IsFiniteSet(owners) /\ Cardinality(owners) <= Cardinality(Earlier)
    BY <2>1, TaskConstants, FS_Subset
  <2>3. Cardinality(owners) \in Nat /\ Cardinality(Earlier) \in Nat
    BY <2>2, TaskConstants, FS_CardinalityType
  <2> QED
    BY <2>1, <2>2, <2>3, TaskConstants DEF Registries
<1>3. DOMAIN row = {} /\ DOMAIN events = {}
  BY DEF TaskInit
<1>4. RowsInv
  BY <1>3 DEF TaskInit, RowsInv
<1>5. OneRun
  BY DEF TaskInit, OneRun, Busy, Running
<1>6. EventsInv
  BY <1>3 DEF TaskInit, EventsInv, Registered
<1> QED
  BY <1>1, <1>2, <1>4, <1>5, <1>6 DEF TaskInv

LEMMA TaskInvKept ==
    ASSUME TaskInv, [TaskNext]_taskVars
    PROVE  TaskInv'
<1>1. CASE TaskNext
  BY <1>1, TaskTypesKept, RegistriesKept, RowsInvKept, OneRunKept, EventsInvKept DEF TaskInv
<1>2. CASE UNCHANGED taskVars
  BY <1>2 DEF taskVars, TaskInv, TaskTypes, Registries, RowsInv, OneRun, EventsInv, Registered,
              Row, EventKeys, Principals
<1> QED
  BY <1>1, <1>2

LEMMA TaskInvAlways ==
    TaskSpec => []TaskInv
<1>1. TaskInit => TaskInv
  BY TaskInvInit
<1>2. TaskInv /\ [TaskNext]_taskVars => TaskInv'
  BY TaskInvKept
<1> QED
  BY <1>1, <1>2, PTL DEF TaskSpec

\* Every variable of the executor has its type; in particular owner_core never
\* keeps more registries of owners than max_owners.
THEOREM TaskTypesHold ==
    TaskSpec => []TaskTypeOK
<1>1. TaskInv => TaskTypeOK
  <2> SUFFICES ASSUME TaskInv PROVE TaskTypeOK
    OBVIOUS
  <2>1. /\ DOMAIN events \subseteq UNION {EventKeys(m) : m \in Messages}
        /\ \A k \in DOMAIN events : events[k] \in Messages
    BY DEF TaskInv, EventsInv
  <2>2. /\ DOMAIN row \subseteq {Row(m) : m \in Messages}
        /\ \A k \in DOMAIN row : row[k] \in Ended \cup {"SUBMITTED", "WORKING"}
    BY DEF TaskInv, RowsInv, States
  <2> QED
    BY <2>1, <2>2 DEF TaskInv, TaskTypes, Registries, TaskTypeOK
<1> QED
  BY <1>1, TaskInvAlways, PTL

\* A message that authorize rejects leaves neither a row nor an entry in team
\* memory, and when execute is over, however it ended, its finally (or its handler
\* of errors) has removed its cancel event from both keys.
THEOREM NothingLeftBehind ==
    TaskSpec => []NoTrace
<1>1. TaskInv => NoTrace
  <2> SUFFICES ASSUME TaskInv PROVE NoTrace
    OBVIOUS
  <2>1. \A m \in touched : msg[m] \notin {"rejected", "refused"}
    BY DEF TaskInv, RowsInv, Accepted, Running
  <2>2. Accepted \subseteq Stages \ {"new", "authorize", "rejected", "refused"}
    BY DEF Accepted, Running, Stages
  <2>3. \A k \in DOMAIN row : \E m \in Messages :
            Row(m) = k /\ msg[m] \in Stages \ {"new", "authorize", "rejected", "refused"}
    BY <2>2 DEF TaskInv, RowsInv
  <2>4. \A k \in DOMAIN events : \E m \in Messages :
            k \in EventKeys(m) /\ msg[m] \notin {"done", "raised", "rejected"}
    BY DEF TaskInv, EventsInv, WithEvent
  <2> QED
    BY <2>1, <2>3, <2>4 DEF NoTrace
<1> QED
  BY <1>1, TaskInvAlways, PTL

\* Only on_cancel_task of the task's own owner, after _authorize_cancellation, sets
\* an event, interrupts an execution or overrules an outcome, and the event that
\* it sets is that of the execution which runs.
LEMMA ScopedStep ==
    ASSUME TaskInv, TaskNext
    PROVE  CancelScopedStep
<1> USE DEF TaskInv
<1>0. Moves /\ RowSteps
  BY MoveFacts, RowFacts
<1>1. ASSUME NEW m \in isSet' \ isSet PROVE MayCancel(Row(m)) # {}
  <2>1. PICK x \in Cancels : CancelHook(x)
    BY <1>1 DEF TaskNext, ExecuteStep, CancelStep, TaskArrive, TaskReject, TaskAccept,
         TaskRegister, TaskStart, TaskBrain, TaskComplete, TaskFail, TaskFinally, CancelLookup,
         CancelAuthorize, CancelStop, CancelForceSave, PolicyEdit
  <2>2. Row(x) \in DOMAIN events /\ m = events[Row(x)] /\ call[x] = "hook"
    BY <1>1, <2>1 DEF CancelHook
  <2>3. m \in Messages /\ Row(x) \in EventKeys(m) /\ msg[m] \in WithEvent
    BY <2>2 DEF EventsInv
  <2>4. Row(x) \in DOMAIN row
    BY <2>2 DEF RowsInv
  <2>5. PICK n \in Messages : Row(n) = Row(x)
    BY <2>4 DEF RowsInv
  <2>6. Row(m) = Row(x)
    <3>1. CASE Row(x) = <<By[m], MessageId[m]>>
      <4>1. By[m] = By[n] /\ MessageId[m] = About[n]
        BY <2>5, <3>1 DEF Row
      <4>2. Row(n) = Row(m)
        BY <4>1, <2>3, FreshIds DEF Row
      <4> QED
        BY <4>2, <2>5
    <3> QED
      BY <2>3, <3>1 DEF EventKeys
  <2> QED
    BY <2>2, <2>6 DEF MayCancel
<1>2. ASSUME NEW m \in queueClosed' \ queueClosed PROVE MayCancel(Row(m)) # {}
  <2>1. PICK x \in Cancels : CancelStop(x)
    BY <1>2 DEF TaskNext, ExecuteStep, CancelStep, TaskArrive, TaskReject, TaskAccept,
         TaskRegister, TaskStart, TaskBrain, TaskComplete, TaskFail, TaskFinally, CancelLookup,
         CancelAuthorize, CancelHook, CancelForceSave, PolicyEdit
  <2>2. Row(m) = Row(x) /\ call[x] = "stop"
    BY <1>2, <2>1 DEF CancelStop
  <2> QED
    BY <2>2 DEF MayCancel
<1>3. ASSUME NEW x \in Cancels, call[x] = "hook", call'[x] = "drained",
             NEW m \in Messages, Row(m) = Row(x), Registered(m)
      PROVE  m \in isSet'
  <2>1. CancelHook(x)
    <3>1. \A y \in Cancels : y # x =>
             /\ CancelLookup(y) => call'[x] = call[x]
             /\ CancelAuthorize(y) => call'[x] = call[x]
             /\ CancelStop(y) => call'[x] = call[x]
             /\ CancelHook(y) => call'[x] = call[x]
             /\ CancelForceSave(y) => call'[x] = call[x]
      BY DEF CancelLookup, CancelAuthorize, CancelStop, CancelHook, CancelForceSave, At, TaskTypes
    <3>2. /\ ~ CancelLookup(x) /\ ~ CancelAuthorize(x) /\ ~ CancelStop(x)
          /\ ~ CancelForceSave(x)
      BY <1>3 DEF CancelLookup, CancelAuthorize, CancelStop, CancelForceSave
    <3>3. call'[x] # call[x]
      BY <1>3
    <3>4. \E y \in Cancels : CancelLookup(y) \/ CancelAuthorize(y) \/ CancelStop(y)
                                \/ CancelHook(y) \/ CancelForceSave(y)
      BY <3>3 DEF TaskNext, ExecuteStep, CancelStep, TaskArrive, TaskReject, TaskAccept,
           TaskRegister, TaskStart, TaskBrain, TaskComplete, TaskFail, TaskFinally, PolicyEdit
    <3> QED
      BY <3>1, <3>2, <3>3, <3>4
  <2>2. Row(x) \in DOMAIN events /\ events[Row(x)] = m
    BY <1>3 DEF EventsInv
  <2> QED
    BY <2>1, <2>2 DEF CancelHook
<1>4. ASSUME NEW k \in DOMAIN row, row[k] \in {"COMPLETED", "FAILED"},
             row'[k] \notin {row[k], "FAILED"}
      PROVE  MayCancel(k) # {}
  <2>1. k \in DOMAIN row'
    BY <1>0 DEF RowSteps
  <2>2. ~ \E m \in Messages : k = Row(m) /\ msg[m] \in Open
    BY <1>4 DEF RowsInv
  <2>3. \E x \in Cancels : k = Row(x) /\ call[x] = "drained"
    BY <1>0, <1>4, <2>1, <2>2 DEF RowSteps
  <2> QED
    BY <2>3 DEF MayCancel
<1> QED
  BY <1>1, <1>2, <1>3, <1>4 DEF CancelScopedStep

\* A cancellation works on the caller's own task and on no other, whatever ids
\* the owners' tasks and messages share and however the runs interleave.
THEOREM CancelsAreScoped ==
    TaskSpec => CancelScoped
<1>1. TaskInv /\ [TaskNext]_taskVars => [CancelScopedStep]_taskVars
  BY ScopedStep
<1> QED
  BY <1>1, TaskInvAlways, PTL DEF TaskSpec, CancelScoped

-----------------------------------------------------------------------------
\* The task store.

\* Removing keys keeps a table typed, finite and no larger, and leaves the
\* other rows as they are.
LEMMA WithoutFacts ==
    ASSUME NEW rows, NEW gone,
           DOMAIN rows \subseteq Keys, IsFiniteSet(DOMAIN rows),
           rows \in [DOMAIN rows -> Entry]
    PROVE  /\ DOMAIN Without(rows, gone) = DOMAIN rows \ gone
           /\ DOMAIN Without(rows, gone) \subseteq Keys
           /\ IsFiniteSet(DOMAIN Without(rows, gone))
           /\ Without(rows, gone) \in [DOMAIN Without(rows, gone) -> Entry]
           /\ Cardinality(DOMAIN Without(rows, gone)) <= Cardinality(DOMAIN rows)
           /\ \A k \in DOMAIN rows \ gone : Without(rows, gone)[k] = rows[k]
<1>1. DOMAIN Without(rows, gone) = DOMAIN rows \ gone
  BY DEF Without, Restrict
<1>2. DOMAIN rows \ gone \subseteq DOMAIN rows
  OBVIOUS
<1>3. IsFiniteSet(DOMAIN rows \ gone)
      /\ Cardinality(DOMAIN rows \ gone) <= Cardinality(DOMAIN rows)
  BY <1>2, FS_Subset
<1>4. \A k \in DOMAIN rows \ gone : Without(rows, gone)[k] = rows[k]
  BY DEF Without, Restrict
<1>5. Without(rows, gone) \in [DOMAIN rows \ gone -> Entry]
  BY DEF Without, Restrict
<1> QED
  BY <1>1, <1>3, <1>4, <1>5

\* What pruning does to a typed table: only finished rows go.
LEMMA PrunedFacts ==
    ASSUME TypeOK
    PROVE  /\ DOMAIN Pruned = DOMAIN entries \ Expired(entries, clock)
           /\ DOMAIN Pruned \subseteq Keys
           /\ IsFiniteSet(DOMAIN Pruned)
           /\ Pruned \in [DOMAIN Pruned -> Entry]
           /\ Cardinality(DOMAIN Pruned) <= Cardinality(DOMAIN entries)
           /\ \A k \in DOMAIN Pruned : Pruned[k] = entries[k]
           /\ \A k \in Expired(entries, clock) : entries[k].state \notin Active
<1>1. \A k \in Expired(entries, clock) : entries[k].state \notin Active
  BY DEF Expired, IsTerminal, Terminal, Active
<1>2. /\ DOMAIN entries \subseteq Keys
      /\ IsFiniteSet(DOMAIN entries)
      /\ entries \in [DOMAIN entries -> Entry]
  BY DEF TypeOK
<1> DEFINE gone == Expired(entries, clock)
<1>3. /\ DOMAIN Without(entries, gone) = DOMAIN entries \ gone
      /\ DOMAIN Without(entries, gone) \subseteq Keys
      /\ IsFiniteSet(DOMAIN Without(entries, gone))
      /\ Without(entries, gone) \in [DOMAIN Without(entries, gone) -> Entry]
      /\ Cardinality(DOMAIN Without(entries, gone)) <= Cardinality(DOMAIN entries)
      /\ \A k \in DOMAIN entries \ gone : Without(entries, gone)[k] = entries[k]
  <2> HIDE DEF gone
  <2> QED
    BY <1>2, WithoutFacts, Zenon
<1> QED
  BY <1>1, <1>3, Zenon DEF Pruned

\* A well-typed finite table.
Table(rows) ==
    /\ DOMAIN rows \subseteq Keys
    /\ IsFiniteSet(DOMAIN rows)
    /\ rows \in [DOMAIN rows -> Entry]

\* What is to be known of a table new made of rows by a save that gave up
\* victims: it fits, and only the saved key changed and only victims went.
Stored(new, rows, victims, key, stored) ==
    /\ DOMAIN new = (DOMAIN rows \ victims) \cup {key}
    /\ Table(new)
    /\ Cardinality(DOMAIN new) <= MaxCount
    /\ new[key] = stored
    /\ \A k \in DOMAIN rows \ victims : k # key => new[k] = rows[k]
    /\ \A k \in victims : k # key /\ rows[k].state \notin Active

\* The table after a successful save fits the count limit: the victims are
\* other rows of the table, so the projected count is the real one.
LEMMA SavedFacts ==
    ASSUME NEW rows, NEW key \in Keys, NEW stored \in Entry, NEW victims,
           Table(rows),
           victims \subseteq Candidates(rows, key),
           ProjectedCount(rows, key, victims) <= MaxCount
    PROVE  Stored(Put(Without(rows, victims), key, stored), rows, victims, key, stored)
<1> DEFINE new == Put(Without(rows, victims), key, stored)
<1>1. /\ DOMAIN rows \subseteq Keys
      /\ IsFiniteSet(DOMAIN rows)
      /\ rows \in [DOMAIN rows -> Entry]
  BY DEF Table
<1>2. /\ victims \subseteq DOMAIN rows
      /\ \A k \in victims : k # key /\ rows[k].state \notin Active
  BY DEF Candidates, IsTerminal, Terminal, Active
<1>3. /\ DOMAIN new = (DOMAIN rows \ victims) \cup {key}
      /\ new[key] = stored
      /\ \A k \in DOMAIN rows \ victims : k # key => new[k] = rows[k]
  <2>1. /\ DOMAIN Without(rows, victims) = DOMAIN rows \ victims
        /\ \A k \in DOMAIN rows \ victims : Without(rows, victims)[k] = rows[k]
    BY <1>1, WithoutFacts, Zenon
  <2> QED
    BY <2>1 DEF Put
<1>4. new \in [DOMAIN new -> Entry]
  <2>1. \A k \in DOMAIN new : new[k] \in Entry
    <3> HIDE DEF new
    <3> QED
      BY <1>1, <1>3
  <2>2. new = [k \in DOMAIN new |-> new[k]]
    BY DEF Put
  <2> QED
    BY <2>1, <2>2
<1>5. IsFiniteSet(DOMAIN rows \cup {key})
  BY <1>1, FS_AddElement
<1>6. /\ IsFiniteSet(DOMAIN new)
      /\ Cardinality(DOMAIN new) = Cardinality(DOMAIN rows \cup {key}) - Cardinality(victims)
  <2>1. DOMAIN new = (DOMAIN rows \cup {key}) \ victims
    BY <1>2, <1>3
  <2>2. (DOMAIN rows \cup {key}) \cap victims = victims
    BY <1>2
  <2>3. /\ IsFiniteSet((DOMAIN rows \cup {key}) \ victims)
        /\ Cardinality((DOMAIN rows \cup {key}) \ victims) =
             Cardinality(DOMAIN rows \cup {key})
               - Cardinality((DOMAIN rows \cup {key}) \cap victims)
    BY <1>5, FS_Difference, Zenon
  <2> QED
    BY <2>1, <2>2, <2>3, Zenon
<1>7. Cardinality(DOMAIN new) <= MaxCount
  BY <1>6 DEF ProjectedCount
<1>8. DOMAIN new \subseteq Keys
  BY <1>1, <1>3
<1> HIDE DEF new
<1>9. Stored(new, rows, victims, key, stored)
  BY <1>2, <1>3, <1>4, <1>6, <1>7, <1>8 DEF Stored, Table
<1> QED
  BY <1>9 DEF new

-----------------------------------------------------------------------------

\* The invariant the induction carries.
StoreInv == TypeOK /\ CountBounded /\ NoRejectedRow

\* A step that only prunes and answers.
LEMMA PruneOnlyInv ==
    ASSUME StoreInv, entries' = Pruned, clock' = clock,
           reply' \in [op : Methods, key : Keys \cup {NoTaskKey},
                       result : Outcomes, rows : SUBSET Keys]
    PROVE  StoreInv'
<1>1. TypeOK'
  BY PrunedFacts DEF StoreInv, TypeOK
<1>2. CountBounded'
  <2>1. /\ Cardinality(DOMAIN Pruned) <= Cardinality(DOMAIN entries)
        /\ IsFiniteSet(DOMAIN Pruned)
        /\ IsFiniteSet(DOMAIN entries)
    BY PrunedFacts DEF StoreInv, TypeOK
  <2>2. Cardinality(DOMAIN Pruned) \in Nat /\ Cardinality(DOMAIN entries) \in Nat
    BY <2>1, FS_CardinalityType
  <2> QED
    BY <2>1, <2>2, StoreLimits DEF StoreInv, CountBounded
<1>3. NoRejectedRow'
  BY PrunedFacts DEF StoreInv, NoRejectedRow
<1> QED
  BY <1>1, <1>2, <1>3 DEF StoreInv

\* A step that prunes, then removes the row of one key.
LEMMA RemoveInv ==
    ASSUME StoreInv, NEW gone, entries' = Without(Pruned, gone), clock' = clock,
           reply' \in [op : Methods, key : Keys \cup {NoTaskKey},
                       result : Outcomes, rows : SUBSET Keys]
    PROVE  StoreInv'
<1> DEFINE rows == Pruned
<1>1. /\ DOMAIN rows \subseteq Keys
      /\ IsFiniteSet(DOMAIN rows)
      /\ rows \in [DOMAIN rows -> Entry]
      /\ Cardinality(DOMAIN rows) <= Cardinality(DOMAIN entries)
      /\ DOMAIN rows \subseteq DOMAIN entries
      /\ \A k \in DOMAIN rows : rows[k] = entries[k]
  BY PrunedFacts DEF StoreInv
<1>2. /\ DOMAIN Without(rows, gone) = DOMAIN rows \ gone
      /\ DOMAIN Without(rows, gone) \subseteq Keys
      /\ IsFiniteSet(DOMAIN Without(rows, gone))
      /\ Without(rows, gone) \in [DOMAIN Without(rows, gone) -> Entry]
      /\ Cardinality(DOMAIN Without(rows, gone)) <= Cardinality(DOMAIN rows)
      /\ \A k \in DOMAIN rows \ gone : Without(rows, gone)[k] = rows[k]
  <2> HIDE DEF rows
  <2> QED
    BY <1>1, WithoutFacts, Zenon
<1> HIDE DEF rows
<1>3. entries' = Without(rows, gone)
  BY DEF rows
<1>4. TypeOK'
  BY <1>2, <1>3 DEF StoreInv, TypeOK
<1>5. CountBounded'
  <2>1. IsFiniteSet(DOMAIN entries)
    BY DEF StoreInv, TypeOK
  <2>2. /\ Cardinality(DOMAIN Without(rows, gone)) \in Nat
        /\ Cardinality(DOMAIN rows) \in Nat
        /\ Cardinality(DOMAIN entries) \in Nat
    BY <1>1, <1>2, <2>1, FS_CardinalityType
  <2> QED
    BY <1>1, <1>2, <1>3, <2>2, StoreLimits DEF StoreInv, CountBounded
<1>6. NoRejectedRow'
  BY <1>1, <1>2, <1>3 DEF StoreInv, NoRejectedRow
<1> QED
  BY <1>4, <1>5, <1>6 DEF StoreInv

\* A step that stores a row.
LEMMA StoredInv ==
    ASSUME StoreInv, NEW o \in Owners, NEW id \in TaskIds,
           NEW state \in SavedStates, NEW size \in Sizes,
           SaveStored(o, id, state, size)
    PROVE  StoreInv'
<1> DEFINE rows == Pruned
           key  == <<o, id>>
           stored == [state |-> state, updated_at |-> clock, size |-> size]
<1>1. key \in Keys /\ stored \in Entry
  BY StoreInputs DEF Keys, Entry, StoreInv, TypeOK
<1>2. PICK victims \in Evictions(rows, PrunedBytes, key, size) :
        entries' = Put(Without(rows, victims), key, stored)
  BY DEF SaveStored
<1>3. /\ DOMAIN rows \subseteq Keys
      /\ IsFiniteSet(DOMAIN rows)
      /\ rows \in [DOMAIN rows -> Entry]
      /\ DOMAIN rows \subseteq DOMAIN entries
      /\ \A k \in DOMAIN rows : rows[k] = entries[k]
  BY PrunedFacts DEF StoreInv
<1>4. stored.state # "REJECTED"
  BY DEF SaveStored
<1> HIDE DEF rows, key, stored
<1> DEFINE new == Put(Without(rows, victims), key, stored)
<1>5. Stored(new, rows, victims, key, stored)
  <2>1. victims \subseteq Candidates(rows, key)
    BY <1>2 DEF Evictions, VictimLists
  <2>2. ProjectedCount(rows, key, victims) <= MaxCount
    BY <1>2 DEF Evictions
  <2>3. Table(rows)
    BY <1>3 DEF Table
  <2> QED
    BY <1>1, <2>1, <2>2, <2>3, SavedFacts, Zenon
<1>6. entries' = new
  BY <1>2
<1> HIDE DEF new
<1>7. TypeOK'
  <2>1. reply' \in [op : Methods, key : Keys \cup {NoTaskKey},
                    result : Outcomes, rows : SUBSET Keys]
    BY DEF SaveStored, Reply, Methods, Outcomes, Keys
  <2> QED
    BY <1>5, <1>6, <2>1 DEF SaveStored, StoreInv, TypeOK, Stored, Table
<1>8. CountBounded'
  BY <1>5, <1>6 DEF CountBounded, Stored
<1>9. NoRejectedRow'
  BY <1>3, <1>4, <1>5, <1>6 DEF StoreInv, NoRejectedRow, Stored
<1> QED
  BY <1>7, <1>8, <1>9 DEF StoreInv

\* Every step of the store keeps the invariant.
LEMMA StoreSteps == StoreInv /\ [Next]_vars => StoreInv'
<1> SUFFICES ASSUME StoreInv, [Next]_vars
             PROVE  StoreInv'
  OBVIOUS
<1> DEFINE Replies == [op : Methods, key : Keys \cup {NoTaskKey},
                       result : Outcomes, rows : SUBSET Keys]
<1>0. DOMAIN Pruned \subseteq Keys
  BY PrunedFacts DEF StoreInv
<1>1. ASSUME NEW o \in Owners, NEW id \in TaskIds, SaveRejected(o, id)
      PROVE  StoreInv'
  <2>1. reply' \in Replies /\ clock' = clock
    BY <1>1 DEF SaveRejected, Reply, Methods, Outcomes, Keys
  <2>2. PICK gone : entries' = Without(Pruned, gone)
    BY <1>1 DEF SaveRejected
  <2> QED
    BY <2>1, <2>2, RemoveInv
<1>2. ASSUME NEW o \in Owners, NEW id \in TaskIds, Get(o, id)
      PROVE  StoreInv'
  <2>1. reply' \in Replies /\ clock' = clock /\ entries' = Pruned
    BY <1>0, <1>2 DEF Get, Reply, Methods, Outcomes, Keys
  <2> QED
    BY <2>1, PruneOnlyInv
<1>3. ASSUME NEW o \in Owners, NEW id \in TaskIds, Delete(o, id)
      PROVE  StoreInv'
  <2>1. reply' \in Replies /\ clock' = clock
    BY <1>3 DEF Delete, Reply, Methods, Outcomes, Keys
  <2>2. PICK gone : entries' = Without(Pruned, gone)
    BY <1>3 DEF Delete
  <2> QED
    BY <2>1, <2>2, RemoveInv
<1>4. ASSUME NEW o \in Owners, NEW id \in TaskIds,
             NEW state \in SavedStates, NEW size \in Sizes,
             Save(o, id, state, size)
      PROVE  StoreInv'
  <2>1. CASE SaveOversized(o, id, size)
    BY <2>1 DEF SaveOversized, Reply, Methods, Outcomes, Keys, StoreInv, TypeOK,
                CountBounded, NoRejectedRow
  <2>2. CASE SaveStored(o, id, state, size)
    BY <2>2, StoredInv
  <2>3. CASE SaveNoRoom(o, id, state, size)
    <3>1. reply' \in Replies /\ clock' = clock /\ entries' = Pruned
      BY <2>3 DEF SaveNoRoom, Reply, Methods, Outcomes, Keys
    <3> QED
      BY <3>1, PruneOnlyInv
  <2> QED
    BY <1>4, <2>1, <2>2, <2>3 DEF Save
<1>5. ASSUME NEW o \in Owners, List(o)
      PROVE  StoreInv'
  <2>1. reply' \in Replies /\ clock' = clock /\ entries' = Pruned
    BY <1>0, <1>5 DEF List, Reply, Methods, Outcomes
  <2> QED
    BY <2>1, PruneOnlyInv
<1>6. CASE InvalidParams
  BY <1>6 DEF InvalidParams, Reply, Methods, Outcomes, NoTaskKey, StoreInv, TypeOK,
              CountBounded, NoRejectedRow
<1>7. CASE Stats
  <2>1. reply' \in Replies /\ clock' = clock /\ entries' = Pruned
    BY <1>0, <1>7 DEF Stats, Reply, Methods, Outcomes
  <2> QED
    BY <2>1, PruneOnlyInv
<1>8. CASE Tick
  BY <1>8 DEF Tick, NoReply, Reply, Methods, Outcomes, NoTaskKey, StoreInv, TypeOK,
              CountBounded, NoRejectedRow
<1>9. CASE UNCHANGED vars
  BY <1>9 DEF vars, StoreInv, TypeOK, CountBounded, NoRejectedRow
<1> QED
  BY <1>1, <1>2, <1>3, <1>4, <1>5, <1>6, <1>7, <1>8, <1>9 DEF Next

\* The invariant holds in the empty store the constructor builds.
LEMMA StoreBegins == Init => StoreInv
<1> SUFFICES ASSUME Init PROVE StoreInv
  OBVIOUS
<1>1. DOMAIN entries = {}
  BY DEF Init
<1>2. IsFiniteSet(DOMAIN entries) /\ Cardinality(DOMAIN entries) = 0
  BY <1>1, FS_EmptySet
<1>3. entries \in [DOMAIN entries -> Entry]
  BY <1>1 DEF Init
<1> QED
  BY <1>1, <1>2, <1>3, StoreLimits
  DEF Init, NoReply, Reply, Methods, Outcomes, NoTaskKey, StoreInv, TypeOK,
      CountBounded, NoRejectedRow

\* Every state of BoundedTaskStore satisfies the invariant.
THEOREM StoreInvariant == Spec => []StoreInv
BY StoreBegins, StoreSteps, PTL DEF Spec

\* The table of BoundedTaskStore is always a finite, well-typed function.
THEOREM StoreTyped == Spec => []TypeOK
<1>1. StoreInv => TypeOK
  BY DEF StoreInv
<1> QED
  BY <1>1, StoreInvariant, PTL

\* The store never holds more than max_count rows, whatever is saved when.
THEOREM CountStaysBounded == Spec => []CountBounded
<1>1. StoreInv => CountBounded
  BY DEF StoreInv
<1> QED
  BY <1>1, StoreInvariant, PTL

\* No rejected task is ever retained.
THEOREM RejectedNeverRetained == Spec => []NoRejectedRow
<1>1. StoreInv => NoRejectedRow
  BY DEF StoreInv
<1> QED
  BY <1>1, StoreInvariant, PTL

\* A finished step that only pruned keeps every unfinished row.
LEMMA PruneKeepsActive ==
    ASSUME TypeOK, entries' = Pruned
    PROVE  \A k \in DOMAIN entries : entries[k].state \in Active => ~Lost(k)
BY PrunedFacts DEF Lost

\* No step but its own save or delete touches unfinished work.
LEMMA NextKeepsActive == TypeOK /\ [Next]_vars => [ActiveKeptStep]_vars
<1> SUFFICES ASSUME TypeOK, Next
             PROVE  ActiveKeptStep
  OBVIOUS
<1> USE DEF ActiveKeptStep
<1>1. ASSUME NEW o \in Owners, NEW id \in TaskIds, SaveRejected(o, id)
      PROVE  ActiveKeptStep
  <2> DEFINE gone == {k \in DOMAIN Pruned \cap {<<o, id>>} : IsRejected(Pruned[k])}
  <2>1. entries' = Without(Pruned, gone)
    BY <1>1 DEF SaveRejected
  <2>2. \A k \in gone : entries[k].state \notin Active
    BY PrunedFacts DEF IsRejected, Active
  <2> HIDE DEF gone
  <2>3. \A k \in DOMAIN Pruned \ gone : k \in DOMAIN entries' /\ entries'[k] = entries[k]
    BY <2>1, PrunedFacts, Zenon DEF Without, Restrict
  <2> QED
    BY <2>2, <2>3, PrunedFacts DEF Lost
<1>2. ASSUME NEW o \in Owners, NEW id \in TaskIds, Get(o, id)
      PROVE  ActiveKeptStep
  BY <1>2, PruneKeepsActive DEF Get
<1>3. ASSUME NEW o \in Owners, NEW id \in TaskIds, Delete(o, id)
      PROVE  ActiveKeptStep
  <2> DEFINE gone == DOMAIN Pruned \cap {<<o, id>>}
  <2>1. entries' = Without(Pruned, gone)
    BY <1>3 DEF Delete
  <2>2. \A k \in gone : k = <<o, id>>
    OBVIOUS
  <2>3. reply'.key = <<o, id>> /\ reply'.op = "delete" /\ reply'.result = "ok"
    BY <1>3 DEF Delete, Reply
  <2> HIDE DEF gone
  <2>4. \A k \in DOMAIN Pruned \ gone : k \in DOMAIN entries' /\ entries'[k] = entries[k]
    BY <2>1, PrunedFacts, Zenon DEF Without, Restrict
  <2> QED
    BY <2>2, <2>3, <2>4, PrunedFacts DEF Lost
<1>4. ASSUME NEW o \in Owners, NEW id \in TaskIds,
             NEW state \in SavedStates, NEW size \in Sizes,
             Save(o, id, state, size)
      PROVE  ActiveKeptStep
  <2>1. CASE SaveOversized(o, id, size)
    BY <2>1 DEF SaveOversized, Lost
  <2>2. CASE SaveStored(o, id, state, size)
    <3> DEFINE key == <<o, id>>
               stored == [state |-> state, updated_at |-> clock, size |-> size]
    <3>1. PICK victims \in Evictions(Pruned, PrunedBytes, key, size) :
            entries' = Put(Without(Pruned, victims), key, stored)
      BY <2>2 DEF SaveStored
    <3>2. key \in Keys /\ stored \in Entry
      BY StoreInputs DEF Keys, Entry, TypeOK
    <3>3. reply'.key = key /\ reply'.op = "save" /\ reply'.result = "ok"
      BY <2>2 DEF SaveStored, Reply
    <3> HIDE DEF key, stored
    <3>4. Stored(entries', Pruned, victims, key, stored)
      <4>1. Table(Pruned)
        BY PrunedFacts DEF Table
      <4>2. victims \subseteq Candidates(Pruned, key)
        BY <3>1 DEF Evictions, VictimLists
      <4>3. ProjectedCount(Pruned, key, victims) <= MaxCount
        BY <3>1 DEF Evictions
      <4>4. Stored(Put(Without(Pruned, victims), key, stored), Pruned, victims, key, stored)
        BY <3>2, <4>1, <4>2, <4>3, SavedFacts, Zenon
      <4> QED
        BY <3>1, <4>4
    <3> QED
      BY <3>3, <3>4, PrunedFacts DEF Stored, Lost
  <2>3. CASE SaveNoRoom(o, id, state, size)
    BY <2>3, PruneKeepsActive DEF SaveNoRoom
  <2> QED
    BY <1>4, <2>1, <2>2, <2>3 DEF Save
<1>5. ASSUME NEW o \in Owners, List(o)
      PROVE  ActiveKeptStep
  BY <1>5, PruneKeepsActive DEF List
<1>6. CASE InvalidParams
  BY <1>6 DEF InvalidParams, Lost
<1>7. CASE Stats
  BY <1>7, PruneKeepsActive DEF Stats
<1>8. CASE Tick
  BY <1>8 DEF Tick, Lost
<1> QED
  BY <1>1, <1>2, <1>3, <1>4, <1>5, <1>6, <1>7, <1>8 DEF Next

\* Unfinished work is never expired, evicted or overwritten for another task, be it
\* of another owner or of its own: only its own save replaces its row, and only its
\* own delete removes it.
THEOREM ActiveNeverDropped == Spec => ActiveKept
BY StoreTyped, NextKeepsActive, PTL DEF Spec, ActiveKept

-----------------------------------------------------------------------------
\* The byte counter.

\* The bytes of any rows of a table are a number.
LEMMA BytesInNat ==
    ASSUME NEW rows, Table(rows), NEW keys \in SUBSET DOMAIN rows
    PROVE  Bytes(rows, keys) \in Nat
<1> DEFINE f == [k \in keys |-> rows[k].size]
<1>1. IsFiniteSet(keys) /\ \A k \in keys : rows[k] \in Entry
  BY FS_Subset DEF Table
<1>2. \A k \in keys : f[k] \in Nat
  BY <1>1 DEF Entry
<1> HIDE DEF f
<1>3. SumFunctionOnSet(f, keys) \in Nat
  BY <1>1, <1>2, SumInNat
<1> QED
  BY <1>3 DEF Bytes, f

\* Two tables with the same rows under some keys have the same bytes there.
LEMMA BytesAgree ==
    ASSUME NEW rows, NEW other, NEW keys, IsFiniteSet(keys),
           \A k \in keys : rows[k] = other[k]
    PROVE  Bytes(rows, keys) = Bytes(other, keys)
<1>1. [k \in keys |-> rows[k].size] = [k \in keys |-> other[k].size]
  OBVIOUS
<1> QED
  BY <1>1 DEF Bytes

\* The bytes of two disjoint sets of rows add up.
LEMMA BytesAddUp ==
    ASSUME NEW rows, Table(rows), NEW A \in SUBSET DOMAIN rows,
           NEW B \in SUBSET DOMAIN rows, A \cap B = {}
    PROVE  Bytes(rows, A \cup B) = Bytes(rows, A) + Bytes(rows, B)
<1> DEFINE f == [k \in A \cup B |-> rows[k].size]
           g == [k \in A |-> rows[k].size]
           h == [k \in B |-> rows[k].size]
<1>1. /\ IsFiniteSet(A) /\ IsFiniteSet(B)
      /\ \A k \in A \cup B : rows[k] \in Entry
  BY FS_Subset DEF Table
<1>2. /\ \A k \in A \cup B : f[k] \in Nat
      /\ \A k \in A : f[k] = g[k]
      /\ \A k \in B : f[k] = h[k]
  BY <1>1 DEF Entry
<1>3. /\ Bytes(rows, A \cup B) = SumFunctionOnSet(f, A \cup B)
      /\ Bytes(rows, A) = SumFunctionOnSet(g, A)
      /\ Bytes(rows, B) = SumFunctionOnSet(h, B)
  BY DEF Bytes
<1> HIDE DEF f, g, h
<1>4. SumFunctionOnSet(f, A \cup B) = SumFunctionOnSet(f, A) + SumFunctionOnSet(f, B)
  BY <1>1, <1>2, SumOfUnion
<1>5. SumFunctionOnSet(f, A) = SumFunctionOnSet(g, A)
  BY <1>1, <1>2, SumOfEqual
<1>6. SumFunctionOnSet(f, B) = SumFunctionOnSet(h, B)
  BY <1>1, <1>2, SumOfEqual
<1> QED
  BY <1>3, <1>4, <1>5, <1>6

\* The bytes of one row.
LEMMA BytesOfOne ==
    ASSUME NEW rows, Table(rows), NEW k \in DOMAIN rows
    PROVE  Bytes(rows, {k}) = rows[k].size
<1> DEFINE f == [m \in {k} |-> rows[m].size]
<1>1. rows[k].size \in Nat
  BY DEF Table, Entry
<1>2. \A m \in {k} : f[m] \in Nat
  BY <1>1
<1>3. f[k] = rows[k].size
  OBVIOUS
<1>4. Bytes(rows, {k}) = SumFunctionOnSet(f, {k})
  BY DEF Bytes
<1> HIDE DEF f
<1>5. SumFunctionOnSet(f, {k}) = f[k] + SumFunctionOnSet(f, {k} \ {k})
  <2>1. IsFiniteSet({k}) /\ k \in {k}
    BY FS_Singleton
  <2> QED
    BY <1>2, <2>1, SumOfRemove, Zenon
<1>6. SumFunctionOnSet(f, {k} \ {k}) = 0
  BY SumOfEmpty, {k} \ {k} = {}
<1> QED
  BY <1>1, <1>3, <1>4, <1>5, <1>6

\* A counter that is right for a table, and within the limit.
Counted(rows, bytes) == bytes \in 0 .. MaxBytes /\ bytes = Bytes(rows, DOMAIN rows)

\* _remove_locked of any rows of a table keeps the counter right.
LEMMA WithoutCounted ==
    ASSUME NEW rows, Table(rows), NEW bytes, Counted(rows, bytes),
           NEW gone \in SUBSET DOMAIN rows
    PROVE  Counted(Without(rows, gone), bytes - Bytes(rows, gone))
<1> DEFINE rest == DOMAIN rows \ gone
           new  == Without(rows, gone)
<1>1. /\ DOMAIN new = rest /\ IsFiniteSet(rest)
      /\ \A k \in rest : new[k] = rows[k]
  BY WithoutFacts, FS_Subset, Zenon DEF Table
<1>2. rest \cup gone = DOMAIN rows /\ rest \cap gone = {} /\ rest \in SUBSET DOMAIN rows
  OBVIOUS
<1> HIDE DEF rest, new
<1>3. Bytes(new, DOMAIN new) = Bytes(rows, rest)
  BY <1>1, BytesAgree
<1>4. Bytes(rows, DOMAIN rows) = Bytes(rows, rest) + Bytes(rows, gone)
  BY <1>2, BytesAddUp
<1>5. Bytes(rows, rest) \in Nat /\ Bytes(rows, gone) \in Nat
  BY <1>2, BytesInNat
<1>6. bytes \in Nat /\ bytes <= MaxBytes /\ MaxBytes \in Nat
      /\ bytes = Bytes(rows, DOMAIN rows)
  BY StoreLimits DEF Counted
<1>7. /\ bytes - Bytes(rows, gone) = Bytes(rows, rest)
      /\ bytes - Bytes(rows, gone) \in 0 .. MaxBytes
  BY <1>4, <1>5, <1>6
<1> QED
  BY <1>3, <1>7 DEF Counted, new

\* What pruning leaves is counted by the pruned counter.
LEMMA PrunedCounted ==
    ASSUME TypeOK, BytesBounded
    PROVE  Table(Pruned) /\ Counted(Pruned, PrunedBytes)
<1>1. Table(entries) /\ Counted(entries, total_bytes)
  BY DEF TypeOK, Table, BytesBounded, Counted
<1>2. Expired(entries, clock) \in SUBSET DOMAIN entries
  BY DEF Expired
<1>3. Counted(Without(entries, Expired(entries, clock)),
              total_bytes - Bytes(entries, Expired(entries, clock)))
  BY <1>1, <1>2, WithoutCounted
<1>4. Table(Pruned)
  BY PrunedFacts DEF Table
<1> QED
  BY <1>3, <1>4 DEF Pruned, PrunedBytes

\* The projection that save tests is the counter of the table it makes.
LEMMA SavedCounted ==
    ASSUME NEW rows, Table(rows), NEW bytes, Counted(rows, bytes),
           NEW key, NEW stored \in Entry, NEW victims \in SUBSET Candidates(rows, key),
           NEW new, Stored(new, rows, victims, key, stored),
           ProjectedBytes(rows, bytes, key, stored.size, victims) <= MaxBytes
    PROVE  Counted(new, ProjectedBytes(rows, bytes, key, stored.size, victims))
<1> DEFINE old  == DOMAIN rows \cap {key}
           rest == DOMAIN rows \ (old \cup victims)
<1>1. /\ victims \in SUBSET DOMAIN rows /\ key \notin victims
      /\ DOMAIN new = (DOMAIN rows \ victims) \cup {key}
      /\ new[key] = stored
      /\ \A k \in DOMAIN rows \ victims : k # key => new[k] = rows[k]
      /\ Table(new)
  BY DEF Stored, Candidates
<1>2. /\ old \in SUBSET DOMAIN rows /\ rest \in SUBSET DOMAIN rows
      /\ old \cap victims = {} /\ rest \cap (old \cup victims) = {}
      /\ rest \cup (old \cup victims) = DOMAIN rows
      /\ old \cup victims \in SUBSET DOMAIN rows
      /\ rest \cup {key} = DOMAIN new /\ rest \cap {key} = {}
      /\ rest \in SUBSET DOMAIN new /\ {key} \in SUBSET DOMAIN new /\ key \in DOMAIN new
      /\ \A k \in rest : new[k] = rows[k]
  BY <1>1
<1>3. ProjectedBytes(rows, bytes, key, stored.size, victims) =
        (bytes - Bytes(rows, old) + stored.size) - Bytes(rows, victims)
  BY DEF ProjectedBytes
<1> HIDE DEF old, rest
<1>4. /\ Bytes(rows, old \cup victims) = Bytes(rows, old) + Bytes(rows, victims)
      /\ Bytes(rows, DOMAIN rows) = Bytes(rows, rest) + Bytes(rows, old \cup victims)
  <2>1. Bytes(rows, old \cup victims) = Bytes(rows, old) + Bytes(rows, victims)
    BY <1>1, <1>2, BytesAddUp
  <2>2. Bytes(rows, rest \cup (old \cup victims)) =
          Bytes(rows, rest) + Bytes(rows, old \cup victims)
    BY <1>2, BytesAddUp
  <2> QED
    BY <1>2, <2>1, <2>2
<1>5. Bytes(new, DOMAIN new) = Bytes(new, rest) + Bytes(new, {key})
  <2>1. Bytes(new, rest \cup {key}) = Bytes(new, rest) + Bytes(new, {key})
    BY <1>1, <1>2, BytesAddUp
  <2> QED
    BY <1>2, <2>1
<1>6. Bytes(new, rest) = Bytes(rows, rest)
  <2>1. IsFiniteSet(rest)
    BY <1>2, FS_Subset DEF Table
  <2> QED
    BY <1>2, <2>1, BytesAgree
<1>7. Bytes(new, {key}) = stored.size
  BY <1>1, <1>2, BytesOfOne
<1>8. /\ Bytes(rows, rest) \in Nat /\ Bytes(rows, old) \in Nat
      /\ Bytes(rows, victims) \in Nat /\ stored.size \in Nat
      /\ bytes = Bytes(rows, DOMAIN rows) /\ MaxBytes \in Nat
  BY <1>1, <1>2, BytesInNat, StoreLimits DEF Entry, Counted
<1> DEFINE projected == ProjectedBytes(rows, bytes, key, stored.size, victims)
<1>9. projected = Bytes(new, DOMAIN new) /\ projected \in 0 .. MaxBytes
  <2>1. projected = Bytes(rows, rest) + stored.size
    BY <1>3, <1>4, <1>8
  <2>2. projected \in Nat
    BY <1>8, <2>1
  <2>3. projected <= MaxBytes
    OBVIOUS
  <2> HIDE DEF projected
  <2> QED
    BY <1>5, <1>6, <1>7, <1>8, <2>1, <2>2, <2>3
<1> QED
  BY <1>9 DEF Counted

\* Every step keeps the counter right.
LEMMA NextCounts == TypeOK /\ BytesBounded /\ [Next]_vars => BytesBounded'
<1> SUFFICES ASSUME TypeOK, BytesBounded, [Next]_vars
             PROVE  Counted(entries, total_bytes)'
  BY DEF BytesBounded, Counted
<1>0. Table(Pruned) /\ Counted(Pruned, PrunedBytes)
  BY PrunedCounted
<1>1. Counted(entries, total_bytes)
  BY DEF BytesBounded, Counted
<1>2. ASSUME entries' = Pruned, total_bytes' = PrunedBytes
      PROVE  Counted(entries, total_bytes)'
  BY <1>0, <1>2 DEF Counted
<1>3. ASSUME NEW gone \in SUBSET DOMAIN Pruned, entries' = Without(Pruned, gone),
             total_bytes' = PrunedBytes - Bytes(Pruned, gone)
      PROVE  Counted(entries, total_bytes)'
  <2>1. Counted(Without(Pruned, gone), PrunedBytes - Bytes(Pruned, gone))
    BY <1>0, WithoutCounted
  <2> QED
    BY <1>3, <2>1 DEF Counted
<1>4. ASSUME UNCHANGED <<entries, total_bytes>>
      PROVE  Counted(entries, total_bytes)'
  BY <1>1, <1>4 DEF Counted
<1>5. ASSUME NEW o \in Owners, NEW id \in TaskIds, SaveRejected(o, id)
      PROVE  Counted(entries, total_bytes)'
  BY <1>3, <1>5 DEF SaveRejected
<1>6. ASSUME NEW o \in Owners, NEW id \in TaskIds, Delete(o, id)
      PROVE  Counted(entries, total_bytes)'
  BY <1>3, <1>6 DEF Delete
<1>7. ASSUME NEW o \in Owners, NEW id \in TaskIds,
             NEW state \in SavedStates, NEW size \in Sizes,
             SaveStored(o, id, state, size)
      PROVE  Counted(entries, total_bytes)'
  <2> DEFINE key == <<o, id>>
             stored == [state |-> state, updated_at |-> clock, size |-> size]
  <2>1. PICK victims \in Evictions(Pruned, PrunedBytes, key, size) :
          /\ entries' = Put(Without(Pruned, victims), key, stored)
          /\ total_bytes' = ProjectedBytes(Pruned, PrunedBytes, key, size, victims)
    BY <1>7 DEF SaveStored
  <2>2. key \in Keys /\ stored \in Entry /\ stored.size = size
    BY StoreInputs DEF Keys, Entry, TypeOK
  <2> HIDE DEF key, stored
  <2>3. /\ victims \in SUBSET Candidates(Pruned, key)
        /\ ProjectedCount(Pruned, key, victims) <= MaxCount
        /\ ProjectedBytes(Pruned, PrunedBytes, key, stored.size, victims) <= MaxBytes
    BY <2>1, <2>2 DEF Evictions, VictimLists
  <2> DEFINE new == Put(Without(Pruned, victims), key, stored)
  <2>4. Stored(new, Pruned, victims, key, stored)
    BY <1>0, <2>2, <2>3, SavedFacts, Zenon
  <2>5. entries' = new
    BY <2>1
  <2> HIDE DEF new
  <2>6. Counted(new, ProjectedBytes(Pruned, PrunedBytes, key, stored.size, victims))
    BY <1>0, <2>2, <2>3, <2>4, SavedCounted
  <2> QED
    BY <2>1, <2>2, <2>5, <2>6 DEF Counted
<1>8. ASSUME NEW o \in Owners, NEW id \in TaskIds,
             NEW state \in SavedStates, NEW size \in Sizes,
             Save(o, id, state, size)
      PROVE  Counted(entries, total_bytes)'
  BY <1>2, <1>4, <1>7, <1>8 DEF Save, SaveOversized, SaveNoRoom
<1>9. ASSUME NEW o \in Owners, NEW id \in TaskIds, Get(o, id)
      PROVE  Counted(entries, total_bytes)'
  BY <1>2, <1>9 DEF Get
<1>10. ASSUME NEW o \in Owners, List(o)
       PROVE  Counted(entries, total_bytes)'
  BY <1>2, <1>10 DEF List
<1>11. CASE InvalidParams \/ Tick \/ UNCHANGED vars
  BY <1>4, <1>11 DEF InvalidParams, Tick, vars
<1>12. CASE Stats
  BY <1>2, <1>12 DEF Stats
<1> QED
  BY <1>5, <1>6, <1>8, <1>9, <1>10, <1>11, <1>12 DEF Next

\* The running counter that every removal and insertion adjusts is the bytes of
\* the rows really stored, so the limit that save tests holds of the store.
THEOREM BytesStayCounted == Spec => []BytesBounded
<1>1. Init => BytesBounded
  <2> SUFFICES ASSUME Init PROVE BytesBounded
    OBVIOUS
  <2>1. total_bytes = 0 /\ DOMAIN entries = {}
    BY DEF Init
  <2>2. Bytes(entries, {}) = 0
    BY SumOfEmpty DEF Bytes
  <2>3. MaxBytes \in Nat
    BY StoreLimits
  <2> QED
    BY <2>1, <2>2, <2>3 DEF BytesBounded
<1> QED
  BY <1>1, StoreTyped, NextCounts, PTL DEF Spec


-----------------------------------------------------------------------------
\* The order of evictions.

\* (updated_at, key) is a strict total order of the rows.
LEMMA OlderIsTotal ==
    ASSUME NEW rows, Table(rows), NEW a \in DOMAIN rows, NEW b \in DOMAIN rows,
           NEW c \in DOMAIN rows
    PROVE  /\ ~ OlderThan(rows, a, a)
           /\ a # b => OlderThan(rows, a, b) \/ OlderThan(rows, b, a)
           /\ OlderThan(rows, a, b) => ~ OlderThan(rows, b, a)
           /\ OlderThan(rows, a, b) /\ OlderThan(rows, b, c) => OlderThan(rows, a, c)
<1>1. \A k \in DOMAIN rows : /\ k = <<k[1], k[2]>> /\ k[1] \in Nat /\ k[2] \in Nat
                             /\ rows[k].updated_at \in Nat
  <2>1. \A k \in Keys : k = <<k[1], k[2]>> /\ k[1] \in Nat /\ k[2] \in Nat
    <3>1. \A k \in Keys : k = <<k[1], k[2]>> /\ k[1] \in Owners /\ k[2] \in TaskIds
      BY DEF Keys
    <3> QED
      BY <3>1, StoreInputs
  <2>2. \A k \in DOMAIN rows : rows[k] \in Entry
    BY DEF Table
  <2>3. \A e \in Entry : e.updated_at \in Nat
    BY DEF Entry
  <2>4. DOMAIN rows \subseteq Keys
    BY DEF Table
  <2> QED
    BY <2>1, <2>2, <2>3, <2>4, Zenon
<1>2. a # b => a[1] # b[1] \/ a[2] # b[2]
  BY <1>1, Zenon
<1>3. /\ a[1] \in Nat /\ a[2] \in Nat /\ rows[a].updated_at \in Nat
      /\ b[1] \in Nat /\ b[2] \in Nat /\ rows[b].updated_at \in Nat
      /\ c[1] \in Nat /\ c[2] \in Nat /\ rows[c].updated_at \in Nat
  BY <1>1
<1>4. ~ OlderThan(rows, a, a)
  BY <1>3 DEF OlderThan, KeyBefore
<1>5. a # b => OlderThan(rows, a, b) \/ OlderThan(rows, b, a)
  BY <1>2, <1>3 DEF OlderThan, KeyBefore
<1>6. OlderThan(rows, a, b) => ~ OlderThan(rows, b, a)
  BY <1>3 DEF OlderThan, KeyBefore
<1>7. OlderThan(rows, a, b) /\ OlderThan(rows, b, c) => OlderThan(rows, a, c)
  BY <1>3 DEF OlderThan, KeyBefore
<1> QED
  BY <1>4, <1>5, <1>6, <1>7

\* Some rows have a youngest: the one that the fewest are younger than.
LEMMA YoungestExists ==
    ASSUME NEW rows, Table(rows), NEW some \in SUBSET DOMAIN rows, some # {}
    PROVE  \E c \in some : \A k \in some \ {c} : OlderThan(rows, k, c)
<1> DEFINE Above(c) == {k \in some : OlderThan(rows, c, k)}
           B == {Above(c) : c \in some}
<1>1. IsFiniteSet(some)
  BY FS_Subset DEF Table
<1>2. \A c \in some : IsFiniteSet(Above(c))
  BY <1>1, FS_Subset
<1>3. B # {} /\ \A T \in B : IsFiniteSet(T)
  BY <1>2
<1>4. PICK T \in B : \A U \in B : Cardinality(T) <= Cardinality(U)
  <2> HIDE DEF B
  <2> QED
    BY <1>3, SmallestSet
<1>5. PICK c \in some : T = Above(c)
  OBVIOUS
<1>6. ASSUME NEW d \in Above(c) PROVE FALSE
  <2>1. d \in some /\ OlderThan(rows, c, d)
    OBVIOUS
  <2>2. Above(d) \subseteq Above(c)
    BY <2>1, OlderIsTotal
  <2>3. d \notin Above(d)
    BY <2>1, OlderIsTotal
  <2>4. Cardinality(Above(c)) <= Cardinality(Above(d))
    BY <1>4, <1>5, <2>1
  <2>5. IsFiniteSet(Above(c)) /\ Above(c) # Above(d)
    BY <1>2, <1>6, <2>3
  <2> HIDE DEF Above
  <2>6. Cardinality(Above(d)) \in Nat /\ Cardinality(Above(c)) \in Nat
    BY <1>2, <2>1, FS_CardinalityType
  <2>7. Cardinality(Above(d)) < Cardinality(Above(c))
    BY <2>2, <2>5, <2>6, FS_Subset
  <2> QED
    BY <2>4, <2>6, <2>7
<1>7. \A k \in some \ {c} : ~ OlderThan(rows, c, k)
  BY <1>6
<1> QED
  BY <1>7, OlderIsTotal

\* A list of victims without its youngest is a list that the loop went through.
LEMMA ShorterList ==
    ASSUME NEW rows, Table(rows), NEW key, NEW victims \in VictimLists(rows, key),
           NEW k \in victims, \A m \in victims \ {k} : OlderThan(rows, m, k)
    PROVE  victims \ {k} \in VictimLists(rows, key)
<1> DEFINE C == Candidates(rows, key)
           UpTo(c) == {j \in C : j = c \/ OlderThan(rows, j, c)}
           less == victims \ {k}
<1>1. C \subseteq DOMAIN rows
  BY DEF Candidates
<1>2. \A V : V \in VictimLists(rows, key) <=> V = {} \/ \E c \in C : V = UpTo(c)
  BY DEF VictimLists
<1>3. PICK c \in C : victims = UpTo(c)
  BY <1>2
<1>4. k \in C /\ victims \subseteq C
  BY <1>3
<1>5. CASE less = {}
  BY <1>2, <1>5
<1>6. CASE less # {}
  <2>1. PICK d \in less : \A j \in less \ {d} : OlderThan(rows, j, d)
    BY <1>1, <1>4, <1>6, YoungestExists
  <2>2. d \in C /\ d # k /\ OlderThan(rows, d, k)
    BY <1>4
  <2>3. c = k
    <3>1. CASE c # k
      <4>1. OlderThan(rows, c, k) /\ OlderThan(rows, k, c)
        BY <1>3, <1>4, <3>1
      <4> QED
        BY <1>1, <1>3, <1>4, <4>1, OlderIsTotal
    <3> QED
      BY <3>1
  <2>4. less \subseteq UpTo(d)
    BY <1>4, <2>1
  <2>5. ASSUME NEW j \in UpTo(d) PROVE j \in less
    <3>1. j \in C /\ (j = d \/ OlderThan(rows, j, d))
      BY <2>5
    <3>2. OlderThan(rows, j, k) /\ j # k
      BY <1>1, <1>4, <2>2, <3>1, OlderIsTotal
    <3> QED
      BY <1>3, <2>3, <3>1, <3>2
  <2>6. less = UpTo(d)
    BY <2>4, <2>5
  <2> QED
    BY <1>2, <2>2, <2>6
<1> QED
  BY <1>5, <1>6

\* What a save that stored something gave up.
LEMMA SaveGaveUp ==
    ASSUME StoreInv, BytesBounded, NEW o \in Owners, NEW id \in TaskIds,
           NEW state \in SavedStates, NEW size \in Sizes, SaveStored(o, id, state, size)
    PROVE  \E stored \in Entry, victims \in Evictions(Pruned, PrunedBytes, <<o, id>>, size) :
              /\ stored.size = size /\ stored.updated_at = clock
              /\ \A other \in Evictions(Pruned, PrunedBytes, <<o, id>>, size) : victims \subseteq other
              /\ Stored(entries', Pruned, victims, <<o, id>>, stored)
              /\ total_bytes' = ProjectedBytes(Pruned, PrunedBytes, <<o, id>>, size, victims)
              /\ reply'.op = "save" /\ reply'.result = "ok"
              /\ Evicted = victims
<1> DEFINE key == <<o, id>>
           stored == [state |-> state, updated_at |-> clock, size |-> size]
<1>1. PICK victims \in Evictions(Pruned, PrunedBytes, key, size) :
        /\ \A other \in Evictions(Pruned, PrunedBytes, key, size) : victims \subseteq other
        /\ entries' = Put(Without(Pruned, victims), key, stored)
        /\ total_bytes' = ProjectedBytes(Pruned, PrunedBytes, key, size, victims)
  BY DEF SaveStored
<1>2. /\ stored \in Entry /\ stored.size = size /\ stored.updated_at = clock
      /\ key \in Keys
  BY StoreInputs DEF Keys, Entry, StoreInv, TypeOK
<1>3. reply'.op = "save" /\ reply'.result = "ok"
  BY DEF SaveStored, Reply
<1> HIDE DEF key, stored
<1>4. /\ victims \subseteq Candidates(Pruned, key)
      /\ ProjectedCount(Pruned, key, victims) <= MaxCount
  BY <1>1 DEF Evictions, VictimLists
<1>5. Table(Pruned)
  BY PrunedFacts DEF Table, StoreInv
<1>6. Stored(entries', Pruned, victims, key, stored)
  BY <1>1, <1>2, <1>4, <1>5, SavedFacts
<1>7. DOMAIN entries' = (DOMAIN Pruned \ victims) \cup {key}
      /\ victims \subseteq DOMAIN Pruned /\ key \notin victims
  BY <1>4, <1>6 DEF Stored, Candidates
<1>8. DOMAIN Pruned = DOMAIN entries \ Expired(entries, clock)
  BY PrunedFacts DEF StoreInv
<1>9. Evicted = victims
  BY <1>3, <1>7, <1>8 DEF Evicted
<1> QED
  BY <1>1, <1>2, <1>3, <1>6, <1>9 DEF key


\* The victims are older than every finished row that a save left as it was.  One
\* of these may be the saved row itself: it is then written as it was, which
\* needs no room.
LEMMA SaveOldestFirst ==
    ASSUME StoreInv, BytesBounded, NEW o \in Owners, NEW id \in TaskIds,
           NEW state \in SavedStates, NEW size \in Sizes, SaveStored(o, id, state, size)
    PROVE  OldestEvicted
<1> DEFINE key == <<o, id>>
<1>1. PICK stored \in Entry, victims \in Evictions(Pruned, PrunedBytes, key, size) :
        /\ stored.size = size /\ stored.updated_at = clock
        /\ \A other \in Evictions(Pruned, PrunedBytes, key, size) : victims \subseteq other
        /\ Stored(entries', Pruned, victims, key, stored)
        /\ total_bytes' = ProjectedBytes(Pruned, PrunedBytes, key, size, victims)
        /\ reply'.op = "save" /\ reply'.result = "ok"
        /\ Evicted = victims
  BY SaveGaveUp, Zenon
<1> HIDE DEF key
<1>2. Table(Pruned) /\ Counted(Pruned, PrunedBytes)
  BY PrunedCounted DEF StoreInv
<1>3. /\ DOMAIN Pruned = DOMAIN entries \ Expired(entries, clock)
      /\ \A k \in DOMAIN Pruned : Pruned[k] = entries[k]
      /\ Cardinality(DOMAIN Pruned) <= Cardinality(DOMAIN entries)
  BY PrunedFacts DEF StoreInv
<1>4. SUFFICES ASSUME NEW k \in Evicted, NEW m \in DOMAIN entries, ~Lost(m),
                      entries[m].state \in Terminal
               PROVE  OlderThan(entries, k, m)
  BY DEF OldestEvicted
<1>5. /\ victims \subseteq Candidates(Pruned, key) /\ k \in victims
      /\ m \in DOMAIN entries' /\ entries'[m] = entries[m]
  BY <1>1, <1>4 DEF Lost, Evictions, VictimLists
<1>6. CASE m # key
  <2>1. m \in DOMAIN Pruned /\ m \notin victims
    BY <1>1, <1>5, <1>6 DEF Stored
  <2>2. m \in Candidates(Pruned, key)
    BY <1>3, <1>4, <1>6, <2>1 DEF Candidates, IsTerminal
  <2>3. PICK c \in Candidates(Pruned, key) :
           victims = {j \in Candidates(Pruned, key) : j = c \/ OlderThan(Pruned, j, c)}
    BY <1>1, <1>5 DEF Evictions, VictimLists
  <2>4. m # c /\ ~OlderThan(Pruned, m, c) /\ (k = c \/ OlderThan(Pruned, k, c))
    BY <1>5, <2>1, <2>2, <2>3
  <2>5. k \in DOMAIN Pruned /\ c \in DOMAIN Pruned
    BY <1>5 DEF Candidates
  <2>6. OlderThan(Pruned, k, m)
    BY <1>2, <2>1, <2>4, <2>5, OlderIsTotal
  <2> QED
    BY <1>3, <2>1, <2>5, <2>6 DEF OlderThan
<1>7. CASE m = key
  <2>1. entries[key].updated_at = clock /\ entries[key].size = size
    BY <1>1, <1>5, <1>7 DEF Stored
  <2>2. key \in DOMAIN Pruned
    <3>1. clock - entries[key].updated_at = 0
      BY <2>1 DEF StoreInv, TypeOK
    <3>2. key \notin Expired(entries, clock)
      BY <3>1, StoreLimits DEF Expired
    <3> QED
      BY <1>3, <1>4, <1>7, <3>2
  <2>3. {} \in Evictions(Pruned, PrunedBytes, key, size)
    <3>1. DOMAIN Pruned \cup {key} = DOMAIN Pruned /\ DOMAIN Pruned \cap {key} = {key}
      BY <2>2
    <3>2. Bytes(Pruned, {key}) = size /\ Bytes(Pruned, {}) = 0
      <4>1. Bytes(Pruned, {key}) = Pruned[key].size
        BY <1>2, <2>2, BytesOfOne
      <4>2. Bytes(Pruned, {}) = 0
        BY SumOfEmpty DEF Bytes
      <4> QED
        BY <1>3, <2>1, <2>2, <4>1, <4>2
    <3>3. ProjectedBytes(Pruned, PrunedBytes, key, size, {}) = PrunedBytes
      <4>1. PrunedBytes \in Nat /\ size \in Nat
        BY <1>2, StoreLimits, StoreInputs DEF Counted
      <4>2. ProjectedBytes(Pruned, PrunedBytes, key, size, {}) = (PrunedBytes - size + size) - 0
        BY <3>1, <3>2 DEF ProjectedBytes
      <4> QED
        BY <4>1, <4>2
    <3>4. ProjectedCount(Pruned, key, {}) = Cardinality(DOMAIN Pruned)
      <4>1. Cardinality(DOMAIN Pruned) \in Nat /\ Cardinality({}) = 0
        BY <1>2, FS_CardinalityType, FS_EmptySet DEF Table
      <4> QED
        BY <3>1, <4>1 DEF ProjectedCount
    <3>5. Cardinality(DOMAIN Pruned) <= MaxCount
      <4>1. Cardinality(DOMAIN Pruned) \in Nat /\ Cardinality(DOMAIN entries) \in Nat
        BY <1>2, FS_CardinalityType DEF Table, StoreInv, TypeOK
      <4> QED
        BY <1>3, <4>1, StoreLimits DEF StoreInv, CountBounded
    <3>6. PrunedBytes <= MaxBytes
      BY <1>2, StoreLimits DEF Counted
    <3> QED
      BY <3>3, <3>4, <3>5, <3>6 DEF Evictions, VictimLists
  <2> QED
    BY <1>1, <1>5, <2>3
<1> QED
  BY <1>6, <1>7

\* With its youngest victim kept, the table would have exceeded a limit.
LEMMA SaveNotNeedless ==
    ASSUME StoreInv, BytesBounded, NEW o \in Owners, NEW id \in TaskIds,
           NEW state \in SavedStates, NEW size \in Sizes, SaveStored(o, id, state, size)
    PROVE  NoNeedlessEviction
<1> DEFINE key == <<o, id>>
<1>1. PICK stored \in Entry, victims \in Evictions(Pruned, PrunedBytes, key, size) :
        /\ stored.size = size /\ stored.updated_at = clock
        /\ \A other \in Evictions(Pruned, PrunedBytes, key, size) : victims \subseteq other
        /\ Stored(entries', Pruned, victims, key, stored)
        /\ total_bytes' = ProjectedBytes(Pruned, PrunedBytes, key, size, victims)
        /\ reply'.op = "save" /\ reply'.result = "ok"
        /\ Evicted = victims
  BY SaveGaveUp, Zenon
<1> HIDE DEF key
<1>2. Table(Pruned) /\ Counted(Pruned, PrunedBytes)
  BY PrunedCounted DEF StoreInv
<1>3. \A k \in DOMAIN Pruned : Pruned[k] = entries[k]
  BY PrunedFacts DEF StoreInv
<1>4. SUFFICES ASSUME NEW k \in Evicted, \A m \in Evicted \ {k} : OlderThan(entries, m, k),
                      Cardinality(DOMAIN entries') + 1 <= MaxCount,
                      Bytes(entries', DOMAIN entries') + entries[k].size <= MaxBytes
               PROVE  FALSE
  <2>1. Cardinality(DOMAIN entries') \in Nat
    BY <1>1, FS_CardinalityType DEF Stored, Table
  <2>2. Table(entries')
    BY <1>1 DEF Stored
  <2>3. Bytes(entries', DOMAIN entries') \in Nat
    BY <2>2, BytesInNat
  <2>4. \A k \in Evicted : entries[k].size \in Nat
    BY DEF Evicted, StoreInv, TypeOK, Entry
  <2> QED
    BY <2>1, <2>3, <2>4, StoreLimits DEF NoNeedlessEviction
<1> DEFINE less == victims \ {k}
<1>5. /\ victims \in VictimLists(Pruned, key) /\ victims \subseteq Candidates(Pruned, key)
      /\ k \in victims /\ victims \subseteq DOMAIN Pruned /\ key \notin victims
  BY <1>1, <1>4 DEF Evictions, VictimLists, Candidates
<1>6. less \in VictimLists(Pruned, key)
  <2>1. \A m \in victims \ {k} : OlderThan(Pruned, m, k)
    BY <1>1, <1>3, <1>4, <1>5 DEF OlderThan
  <2> QED
    BY <1>2, <1>5, <2>1, ShorterList
<1>7. ProjectedCount(Pruned, key, less) <= MaxCount
  <2> DEFINE all == DOMAIN Pruned \cup {key}
  <2>1. IsFiniteSet(all) /\ IsFiniteSet(victims) /\ victims \subseteq all
    BY <1>2, <1>5, FS_AddElement, FS_Subset DEF Table
  <2>2. DOMAIN entries' = all \ victims
    BY <1>1, <1>5 DEF Stored
  <2>3. Cardinality(all \ victims) = Cardinality(all) - Cardinality(victims)
    <3>1. all \cap victims = victims
      BY <2>1
    <3> HIDE DEF all
    <3>2. Cardinality(all \ victims) = Cardinality(all) - Cardinality(all \cap victims)
      BY <2>1, FS_Difference, Zenon
    <3> QED
      BY <3>1, <3>2
  <2>4. Cardinality(less) = Cardinality(victims) - 1
    BY <1>5, <2>1, FS_RemoveElement
  <2>5. Cardinality(all) \in Nat /\ Cardinality(victims) \in Nat
    BY <2>1, FS_CardinalityType
  <2>6. Cardinality(all) - Cardinality(less) = Cardinality(DOMAIN entries') + 1
    BY <2>2, <2>3, <2>4, <2>5
  <2> QED
    BY <1>4, <2>6 DEF ProjectedCount
<1>8. ProjectedBytes(Pruned, PrunedBytes, key, size, less) <= MaxBytes
  <2> DEFINE old == Bytes(Pruned, DOMAIN Pruned \cap {key})
  <2>1. Counted(entries', ProjectedBytes(Pruned, PrunedBytes, key, size, victims))
    BY <1>1, <1>2, <1>5, SavedCounted DEF Evictions
  <2>2. Bytes(Pruned, victims) = Bytes(Pruned, less) + Bytes(Pruned, {k})
    <3>1. less \cup {k} = victims /\ less \cap {k} = {} /\ less \in SUBSET DOMAIN Pruned
          /\ {k} \in SUBSET DOMAIN Pruned
      BY <1>5
    <3> HIDE DEF less
    <3>2. Bytes(Pruned, less \cup {k}) = Bytes(Pruned, less) + Bytes(Pruned, {k})
      BY <1>2, <3>1, BytesAddUp
    <3> QED
      BY <3>1, <3>2
  <2>3. Bytes(Pruned, {k}) = entries[k].size
    <3>1. Bytes(Pruned, {k}) = Pruned[k].size
      BY <1>2, <1>5, BytesOfOne
    <3> QED
      BY <1>3, <1>5, <3>1
  <2>4. /\ Bytes(Pruned, less) \in Nat /\ Bytes(Pruned, {k}) \in Nat /\ old \in Nat
        /\ PrunedBytes \in Nat /\ size \in Nat
    <3>1. less \in SUBSET DOMAIN Pruned /\ {k} \in SUBSET DOMAIN Pruned
          /\ DOMAIN Pruned \cap {key} \in SUBSET DOMAIN Pruned
      BY <1>5
    <3>2. PrunedBytes \in Nat /\ size \in Nat
      BY <1>2, StoreLimits, StoreInputs DEF Counted
    <3> QED
      BY <1>2, <3>1, <3>2, BytesInNat
  <2>5. /\ ProjectedBytes(Pruned, PrunedBytes, key, size, victims) =
             (PrunedBytes - old + size) - Bytes(Pruned, victims)
        /\ ProjectedBytes(Pruned, PrunedBytes, key, size, less) =
             (PrunedBytes - old + size) - Bytes(Pruned, less)
    BY DEF ProjectedBytes
  <2>6. ProjectedBytes(Pruned, PrunedBytes, key, size, victims) = Bytes(entries', DOMAIN entries')
    BY <2>1 DEF Counted
  <2> HIDE DEF old, less
  <2> QED
    BY <1>4, <2>2, <2>3, <2>4, <2>5, <2>6
<1>9. less \in Evictions(Pruned, PrunedBytes, key, size)
  BY <1>6, <1>7, <1>8 DEF Evictions
<1> QED
  BY <1>1, <1>5, <1>9

\* A step that is no successful save gives up nothing but expired rows, unless
\* it is a delete.
LEMMA NextMinimal ==
    StoreInv /\ BytesBounded /\ [Next]_vars
       => [OldestEvicted /\ NoNeedlessEviction /\ RefusalEvictsNothing]_vars
<1> DEFINE Minimal == OldestEvicted /\ NoNeedlessEviction /\ RefusalEvictsNothing
<1> SUFFICES ASSUME StoreInv, BytesBounded, Next PROVE Minimal
  BY DEF Minimal
<1>1. ASSUME Evicted = {}, RefusalEvictsNothing PROVE Minimal
  BY <1>1 DEF OldestEvicted, NoNeedlessEviction
<1>2. ASSUME entries' = Pruned PROVE Evicted = {} /\ RefusalEvictsNothing
  <2>1. /\ DOMAIN Pruned = DOMAIN entries \ Expired(entries, clock)
        /\ \A k \in DOMAIN Pruned : Pruned[k] = entries[k]
    BY PrunedFacts DEF StoreInv
  <2>2. \A k \in DOMAIN entries : Lost(k) => k \in Expired(entries, clock)
    BY <1>2, <2>1 DEF Lost
  <2>3. DOMAIN entries \ (DOMAIN entries' \cup Expired(entries, clock)) = {}
    BY <1>2, <2>1
  <2> QED
    BY <2>2, <2>3 DEF Evicted, RefusalEvictsNothing
<1>3. ASSUME entries' = entries PROVE Evicted = {} /\ RefusalEvictsNothing
  BY <1>3 DEF Evicted, RefusalEvictsNothing, Lost
<1>4. ASSUME NEW o \in Owners, NEW id \in TaskIds, SaveRejected(o, id)
      PROVE  Minimal
  <2>1. \A k \in DOMAIN Pruned : ~IsRejected(Pruned[k])
    BY PrunedFacts DEF StoreInv, NoRejectedRow, IsRejected
  <2>2. entries' = Without(Pruned, {}) /\ reply'.op = "save_rejected"
    <3>1. {k \in DOMAIN Pruned \cap {<<o, id>>} : IsRejected(Pruned[k])} = {}
      BY <2>1
    <3> QED
      BY <1>4, <3>1 DEF SaveRejected, Reply
  <2>3. /\ DOMAIN entries' = DOMAIN Pruned \ {}
        /\ \A k \in DOMAIN Pruned \ {} : entries'[k] = Pruned[k]
    <3> DEFINE rows == Pruned
    <3>1. /\ DOMAIN rows \subseteq Keys /\ IsFiniteSet(DOMAIN rows)
          /\ rows \in [DOMAIN rows -> Entry]
      BY PrunedFacts DEF StoreInv
    <3> HIDE DEF rows
    <3>2. /\ DOMAIN Without(rows, {}) = DOMAIN rows \ {}
          /\ \A k \in DOMAIN rows \ {} : Without(rows, {})[k] = rows[k]
      BY <3>1, WithoutFacts, Zenon
    <3> QED
      BY <2>2, <3>2 DEF rows
  <2>4. /\ DOMAIN Pruned = DOMAIN entries \ Expired(entries, clock)
        /\ \A k \in DOMAIN Pruned : Pruned[k] = entries[k]
    BY PrunedFacts DEF StoreInv
  <2>5. \A k \in DOMAIN entries : Lost(k) => k \in Expired(entries, clock)
    BY <2>3, <2>4 DEF Lost
  <2>6. Evicted = {}
    BY <2>2 DEF Evicted
  <2> QED
    BY <1>1, <2>5, <2>6 DEF RefusalEvictsNothing
<1>5. ASSUME NEW o \in Owners, NEW id \in TaskIds, Delete(o, id)
      PROVE  Minimal
  <2>1. reply'.op = "delete" /\ reply'.result = "ok"
    BY <1>5 DEF Delete, Reply
  <2> QED
    BY <1>1, <2>1 DEF Evicted, RefusalEvictsNothing
<1>6. ASSUME NEW o \in Owners, NEW id \in TaskIds,
             NEW state \in SavedStates, NEW size \in Sizes, SaveStored(o, id, state, size)
      PROVE  Minimal
  <2>1. reply'.op = "save" /\ reply'.result = "ok"
    BY <1>6 DEF SaveStored, Reply
  <2> QED
    BY <1>6, <2>1, SaveOldestFirst, SaveNotNeedless DEF RefusalEvictsNothing
<1>7. ASSUME NEW o \in Owners, NEW id \in TaskIds,
             NEW state \in SavedStates, NEW size \in Sizes, Save(o, id, state, size)
      PROVE  Minimal
  <2>1. CASE SaveOversized(o, id, size)
    BY <1>1, <1>3, <2>1 DEF SaveOversized
  <2>2. CASE SaveNoRoom(o, id, state, size)
    BY <1>1, <1>2, <2>2 DEF SaveNoRoom
  <2> QED
    BY <1>6, <1>7, <2>1, <2>2 DEF Save
<1>8. ASSUME NEW o \in Owners, NEW id \in TaskIds, Get(o, id) PROVE Minimal
  BY <1>1, <1>2, <1>8 DEF Get
<1>9. ASSUME NEW o \in Owners, List(o) PROVE Minimal
  BY <1>1, <1>2, <1>9 DEF List
<1>10. CASE InvalidParams \/ Tick
  BY <1>1, <1>3, <1>10 DEF InvalidParams, Tick
<1>11. CASE Stats
  BY <1>1, <1>2, <1>11 DEF Stats
<1> HIDE DEF Minimal
<1> QED
  BY <1>4, <1>5, <1>7, <1>8, <1>9, <1>10, <1>11 DEF Next

\* A save gives up finished rows oldest first, no more of them than it must, and
\* none when it ends up refused, however the rows compare in age, size and key.
THEOREM EvictsMinimally == Spec => EvictionMinimal
<1>1. Spec => []StoreInv
  BY StoreBegins, StoreSteps, PTL DEF Spec
<1> QED
  BY <1>1, BytesStayCounted, NextMinimal, PTL DEF Spec, EvictionMinimal

-----------------------------------------------------------------------------
\* The run of the two parts of the server.

\* Whichever part runs, every variable of both keeps its type: no slot of the
\* middleware is given back twice, and the executor never keeps more registries of
\* owners than max_owners, for any requests, messages, owners and limits.
THEOREM NodeTyped == NodeSpec => []NodeTypeOK
<1>1. NodeInit => IngressInit /\ TaskInit
  BY DEF NodeInit
<1>2. [NodeNext]_nodeVars => [IngressNext]_ingressVars /\ [TaskNext]_taskVars
  BY DEF NodeNext, nodeVars
<1> QED
  BY <1>1, <1>2, IngressTypes, TaskTypesHold, PTL
  DEF NodeSpec, IngressSpec, TaskSpec, NodeTypeOK
=============================================================================
