------------------------ MODULE DelegationAuthProofs ------------------------
(***************************************************************************)
(* Proofs about DelegationAuth for any threads, peers, delegations, time   *)
(* bounds and cache size.  The strengthening adds what a request knows at  *)
(* each stage (Known), that first_time's clock reading is never ahead of   *)
(* the clock (StampedPast), and that an accepted delegation stays recorded *)
(* while it is valid (ValidRecorded).                                      *)
(***************************************************************************)
EXTENDS DelegationAuth, FiniteSetTheorems, TLAPS

Checked == {"stamp", "commit", "run"}

\* What the stages already passed have established about a request.
KnownOf(r, tr, rv) ==
    /\ r.at # "idle" =>
         /\ r.owner \in tr => r.everTrusted
         /\ r.owner \notin rv => r.everClear
    /\ r.at \in {"stamp", "commit"} => r.sig # NoSig
    /\ r.at \in {"revocations", "verify"} \cup Checked =>
         /\ ~IsForwarded(r)
         /\ r.known => r.everTrusted
    /\ r.at \in {"verify"} \cup Checked => r.barred \/ r.everClear
    /\ r.at \in Checked =>
         IF r.sig = NoSig THEN ~RequireSigned
         ELSE Intact[r.sig] /\ r.known /\ ~r.barred

Known == \A t \in Threads : KnownOf(req[t], trusted, revoked)

StampedPast == \A t \in Threads : req[t].at = "commit" => req[t].now <= clock

ValidRecorded ==
    \A s \in Sigs : timely[s] # 0 /\ clock < Expires[s] => s \in recorded

AuthInv == TypeOK /\ Known /\ StampedPast /\ ValidRecorded /\ OnceWhileValid

\* A freshly started node satisfies the invariant.
LEMMA InitInv == Init => AuthInv
<1> SUFFICES ASSUME Init PROVE AuthInv
  OBVIOUS
<1> USE DEF Init, Idle
<1>1. TypeOK
  BY FS_EmptySet DEF TypeOK, Request, Stages
<1>2. Known
  BY DEF Known, KnownOf, Checked
<1>3. StampedPast /\ ValidRecorded /\ OnceWhileValid
  BY DEF StampedPast, ValidRecorded, OnceWhileValid
<1> QED
  BY <1>1, <1>2, <1>3 DEF AuthInv

\* Requests are closed under the updates the stages make.
LEMMA RequestUpdates ==
    ASSUME NEW q \in Request, NEW at \in Stages, NEW b \in BOOLEAN, NEW n \in Nat
    PROVE  /\ [q EXCEPT !.at = at] \in Request
           /\ [q EXCEPT !.at = at, !.known = b] \in Request
           /\ [q EXCEPT !.at = at, !.barred = b] \in Request
           /\ [q EXCEPT !.at = at, !.now = n] \in Request
BY DEF Request

\* A step of one thread that leaves everything but its request alone.
LEMMA QuietStep ==
    ASSUME AuthInv, NEW t \in Threads, NEW r \in Request,
           req' = [req EXCEPT ![t] = r],
           UNCHANGED <<clock, trusted, revoked, recorded, timely>>,
           runs' \in [Sigs -> Nat],
           KnownOf(r, trusted, revoked),
           r.at = "commit" => r.now <= clock
    PROVE  AuthInv'
<1> USE DEF AuthInv
<1>1. \A u \in Threads : req'[u] = IF u = t THEN r ELSE req[u]
  BY DEF TypeOK
<1>2. TypeOK'
  BY DEF TypeOK
<1>3. Known'
  BY <1>1 DEF Known, KnownOf, IsForwarded
<1>4. StampedPast'
  BY <1>1 DEF StampedPast
<1>5. ValidRecorded' /\ OnceWhileValid'
  BY DEF ValidRecorded, OnceWhileValid
<1> QED
  BY <1>2, <1>3, <1>4, <1>5

\* Dropping a request is such a step.
LEMMA DropStep ==
    ASSUME AuthInv, NEW t \in Threads, req' = [req EXCEPT ![t] = Idle],
           UNCHANGED <<clock, trusted, revoked, recorded, timely>>,
           runs' \in [Sigs -> Nat]
    PROVE  AuthInv'
<1>1. Idle \in Request
  BY DEF Idle, Request, Stages
<1> QED
  BY <1>1, QuietStep DEF Idle, Checked, KnownOf

\* Editing a policy file keeps what requests in progress know.
LEMMA EditKeepsKnown ==
    ASSUME NEW q, NEW r, NEW tr, NEW rv, NEW tr2, NEW rv2,
           KnownOf(q, tr, rv),
           r.at = q.at, r.sig = q.sig, r.owner = q.owner, r.known = q.known,
           r.barred = q.barred,
           q.everTrusted \/ q.owner \in tr2 => r.everTrusted,
           q.everClear \/ q.owner \notin rv2 => r.everClear
    PROVE  KnownOf(r, tr2, rv2)
BY DEF KnownOf, Checked, IsForwarded

\* The acceptance of a signature by first_time.
LEMMA FirstTimeInv ==
    ASSUME AuthInv, NEW t \in Threads, FirstTime(t)
    PROVE  AuthInv'
<1> USE DEF AuthInv
<1> DEFINE sig == req[t].sig
           now == req[t].now
<1>1. /\ sig \in Sigs /\ now \in Nat /\ now <= clock /\ clock \in Nat
      /\ sig \notin Live(now)
      /\ recorded' = Live(now) \cup {sig}
  BY DEF FirstTime, TypeOK, Request, Known, KnownOf, StampedPast
<1>2. \A s \in Sigs : Expires[s] \in Nat
  BY AuthConstants
<1>3. \A s \in recorded : clock < Expires[s] => s \in Live(now)
  BY <1>1, <1>2 DEF Live, TypeOK
<1>4. timely[sig] = 0 \/ ~(clock < Expires[sig])
  BY <1>1, <1>3 DEF ValidRecorded
<1>5. /\ timely' \in [Sigs -> Nat]
      /\ \A s \in Sigs : timely'[s] = IF s = sig /\ clock < Expires[sig]
                                     THEN timely[s] + 1 ELSE timely[s]
  BY <1>1 DEF FirstTime, TypeOK
<1>6. ValidRecorded'
  BY <1>1, <1>3, <1>5 DEF ValidRecorded, FirstTime
<1>7. OnceWhileValid'
  BY <1>1, <1>4, <1>5 DEF OnceWhileValid, TypeOK
<1>8. \A u \in Threads : req'[u] = IF u = t THEN [req[u] EXCEPT !.at = "run"] ELSE req[u]
  BY DEF FirstTime, TypeOK
<1>9. TypeOK'
  <2>1. req' \in [Threads -> Request]
    BY <1>8 DEF FirstTime, TypeOK, Request, Stages
  <2>2. recorded' \subseteq Sigs
    BY <1>1 DEF Live, TypeOK
  <2>3. IsFiniteSet(recorded')
    <3>1. Live(now) \subseteq recorded
      BY DEF Live
    <3>2. IsFiniteSet(Live(now))
      BY <3>1, FS_Subset DEF TypeOK
    <3> QED
      BY <1>1, <3>2, FS_AddElement
  <2> QED
    BY <1>5, <2>1, <2>2, <2>3 DEF FirstTime, TypeOK
<1>10. Known'
  BY <1>8 DEF FirstTime, Known, KnownOf, Checked, IsForwarded, TypeOK, Request
<1>11. StampedPast'
  BY <1>8 DEF FirstTime, StampedPast, TypeOK, Request
<1> QED
  BY <1>6, <1>7, <1>9, <1>10, <1>11

\* Every step of the node, its operator and its clock keeps the invariant.
LEMMA NextInv == AuthInv /\ [Next]_vars => AuthInv'
<1> SUFFICES ASSUME AuthInv, [Next]_vars PROVE AuthInv'
  OBVIOUS
<1>1. ASSUME NEW t \in Threads, Step(t) PROVE AuthInv'
  <2>1. ASSUME NEW sig \in Sigs \cup {NoSig}, NEW owner \in Peers, Arrive(t, sig, owner)
        PROVE  AuthInv'
    <3> DEFINE a == owner \in trusted
               c == owner \notin revoked
               r == [Idle EXCEPT !.at = "peers", !.sig = sig, !.owner = owner,
                                 !.everTrusted = a, !.everClear = c]
    <3>1. a \in BOOLEAN /\ c \in BOOLEAN
      OBVIOUS
    <3>2. req' = [req EXCEPT ![t] = r]
      BY <2>1 DEF Arrive
    <3>3. UNCHANGED <<clock, trusted, revoked, recorded, timely>> /\ runs' \in [Sigs -> Nat]
      BY <2>1 DEF Arrive, AuthInv, TypeOK
    <3>4. (owner \in trusted => a) /\ (owner \notin revoked => c)
      OBVIOUS
    <3> HIDE DEF a, c
    <3>5. r \in Request
      BY <3>1 DEF Idle, Request, Stages
    <3>6. r.at = "peers" /\ r.owner = owner /\ r.everTrusted = a /\ r.everClear = c
      BY DEF Idle
    <3> HIDE DEF r
    <3>9. KnownOf(r, trusted, revoked) /\ (r.at = "commit" => r.now <= clock)
      BY <3>2, <3>3, <3>4, <3>5, <3>6 DEF KnownOf, Checked, IsForwarded
    <3> QED
      BY <3>2, <3>3, <3>4, <3>5, <3>6, <3>9, QuietStep, Zenon
  <2>2. CASE Forwarded(t)
    BY <2>2, DropStep DEF Forwarded, AuthInv, TypeOK
  <2>3. CASE LoadPeers(t)
    <3> DEFINE q == req[t]
               b == q.owner \in trusted
               r == [q EXCEPT !.at = "revocations", !.known = b]
    <3>1. q \in Request /\ b \in BOOLEAN
      BY DEF AuthInv, TypeOK
    <3>2. req' = [req EXCEPT ![t] = r]
      BY <2>3 DEF LoadPeers, AuthInv, TypeOK, Request
    <3>3. UNCHANGED <<clock, trusted, revoked, recorded, timely>> /\ runs' \in [Sigs -> Nat]
      BY <2>3 DEF LoadPeers, AuthInv, TypeOK
    <3>4. /\ ~IsForwarded(q)
          /\ q.owner \in trusted => q.everTrusted
          /\ q.owner \notin revoked => q.everClear
          /\ b => q.everTrusted
      BY <2>3 DEF LoadPeers, AuthInv, Known, KnownOf
    <3> HIDE DEF q, b
    <3>5. r \in Request
      BY <3>1, RequestUpdates DEF Stages
    <3>6. /\ r.at = "revocations" /\ r.owner = q.owner /\ r.known = b /\ r.sig = q.sig
          /\ r.everTrusted = q.everTrusted /\ r.everClear = q.everClear
      BY <3>1 DEF Request
    <3> HIDE DEF r
    <3>9. KnownOf(r, trusted, revoked) /\ (r.at = "commit" => r.now <= clock)
      BY <3>2, <3>3, <3>4, <3>5, <3>6 DEF KnownOf, Checked, IsForwarded
    <3> QED
      BY <3>2, <3>3, <3>4, <3>5, <3>6, <3>9, QuietStep, Zenon
  <2>4. CASE LoadRevocations(t)
    <3> DEFINE q == req[t]
               b == q.owner \in revoked
               r == [q EXCEPT !.at = "verify", !.barred = b]
    <3>1. q \in Request /\ b \in BOOLEAN
      BY DEF AuthInv, TypeOK
    <3>2. req' = [req EXCEPT ![t] = r]
      BY <2>4 DEF LoadRevocations, AuthInv, TypeOK, Request
    <3>3. UNCHANGED <<clock, trusted, revoked, recorded, timely>> /\ runs' \in [Sigs -> Nat]
      BY <2>4 DEF LoadRevocations, AuthInv, TypeOK
    <3>4. /\ ~IsForwarded(q)
          /\ q.known => q.everTrusted
          /\ q.owner \in trusted => q.everTrusted
          /\ q.owner \notin revoked => q.everClear
          /\ b \/ q.everClear
      BY <2>4 DEF LoadRevocations, AuthInv, Known, KnownOf
    <3> HIDE DEF q, b
    <3>5. r \in Request
      BY <3>1, RequestUpdates DEF Stages
    <3>6. /\ r.at = "verify" /\ r.owner = q.owner /\ r.barred = b /\ r.sig = q.sig
          /\ r.known = q.known
          /\ r.everTrusted = q.everTrusted /\ r.everClear = q.everClear
      BY <3>1 DEF Request
    <3> HIDE DEF r
    <3>9. KnownOf(r, trusted, revoked) /\ (r.at = "commit" => r.now <= clock)
      BY <3>2, <3>3, <3>4, <3>5, <3>6 DEF KnownOf, Checked, IsForwarded
    <3> QED
      BY <3>2, <3>3, <3>4, <3>5, <3>6, <3>9, QuietStep, Zenon
  <2>5. CASE Verify(t)
    <3> DEFINE q == req[t]
    <3>1. PICK at \in {"run", "stamp"} :
            /\ req' = [req EXCEPT ![t].at = at]
            /\ IF q.sig = NoSig THEN at = "run" /\ ~RequireSigned
               ELSE at = "stamp" /\ Intact[q.sig] /\ q.known /\ ~q.barred
      <4>1. Acceptable(q) /\ req' = [req EXCEPT ![t].at = IF q.sig = NoSig THEN "run" ELSE "stamp"]
        BY <2>5 DEF Verify
      <4>2. CASE q.sig = NoSig
        BY <4>1, <4>2 DEF Acceptable
      <4>3. CASE q.sig # NoSig
        BY <4>1, <4>3 DEF Acceptable
      <4> QED
        BY <4>2, <4>3
    <3> DEFINE r == [q EXCEPT !.at = at]
    <3>2. q \in Request
      BY DEF AuthInv, TypeOK
    <3>3. req' = [req EXCEPT ![t] = r]
      BY <3>1 DEF AuthInv, TypeOK, Request
    <3>4. UNCHANGED <<clock, trusted, revoked, recorded, timely>> /\ runs' \in [Sigs -> Nat]
      BY <2>5 DEF Verify, AuthInv, TypeOK
    <3>5. /\ ~IsForwarded(q)
          /\ q.known => q.everTrusted
          /\ q.owner \in trusted => q.everTrusted
          /\ q.owner \notin revoked => q.everClear
          /\ q.barred \/ q.everClear
      BY <2>5 DEF Verify, AuthInv, Known, KnownOf
    <3> HIDE DEF q
    <3>6. r \in Request
      BY <3>2, RequestUpdates DEF Stages
    <3>7. /\ r.at = at /\ r.owner = q.owner /\ r.barred = q.barred /\ r.sig = q.sig
          /\ r.known = q.known
          /\ r.everTrusted = q.everTrusted /\ r.everClear = q.everClear
      BY <3>2 DEF Request
    <3> HIDE DEF r
    <3>9. KnownOf(r, trusted, revoked) /\ (r.at = "commit" => r.now <= clock)
      BY <3>1, <3>3, <3>4, <3>5, <3>6, <3>7 DEF KnownOf, Checked, IsForwarded
    <3> QED
      BY <3>1, <3>3, <3>4, <3>5, <3>6, <3>7, <3>9, QuietStep, Zenon
  <2>6. CASE VerifyRefuses(t)
    BY <2>6, DropStep DEF VerifyRefuses, AuthInv, TypeOK
  <2>7. CASE Stamp(t)
    <3> DEFINE q == req[t]
               r == [q EXCEPT !.at = "commit", !.now = clock]
    <3>1. q \in Request /\ clock \in Nat
      BY DEF AuthInv, TypeOK
    <3>2. req' = [req EXCEPT ![t] = r]
      BY <2>7 DEF Stamp, AuthInv, TypeOK, Request
    <3>3. UNCHANGED <<clock, trusted, revoked, recorded, timely>> /\ runs' \in [Sigs -> Nat]
      BY <2>7 DEF Stamp, AuthInv, TypeOK
    <3>4. /\ ~IsForwarded(q) /\ q.sig # NoSig
          /\ q.known => q.everTrusted
          /\ q.owner \in trusted => q.everTrusted
          /\ q.owner \notin revoked => q.everClear
          /\ q.barred \/ q.everClear
          /\ Intact[q.sig] /\ q.known /\ ~q.barred
      BY <2>7 DEF Stamp, AuthInv, Known, KnownOf, Checked
    <3> HIDE DEF q
    <3>5. r \in Request
      BY <3>1, RequestUpdates DEF Stages
    <3>6. /\ r.at = "commit" /\ r.owner = q.owner /\ r.barred = q.barred /\ r.sig = q.sig
          /\ r.known = q.known /\ r.now = clock
          /\ r.everTrusted = q.everTrusted /\ r.everClear = q.everClear
      BY <3>1 DEF Request
    <3> HIDE DEF r
    <3>9. KnownOf(r, trusted, revoked) /\ (r.at = "commit" => r.now <= clock)
      BY <3>1, <3>2, <3>3, <3>4, <3>5, <3>6 DEF KnownOf, Checked, IsForwarded
    <3> QED
      BY <3>1, <3>2, <3>3, <3>4, <3>5, <3>6, <3>9, QuietStep, Zenon
  <2>8. CASE ReplayRefused(t)
    BY <2>8, DropStep DEF ReplayRefused, AuthInv, TypeOK
  <2>9. CASE FirstTime(t)
    BY <2>9, FirstTimeInv
  <2>10. CASE Unavailable(t)
    BY <2>10, DropStep DEF Unavailable, AuthInv, TypeOK
  <2>11. CASE Run(t)
    <3>1. runs' \in [Sigs -> Nat]
      <4>1. runs \in [Sigs -> Nat]
        BY DEF AuthInv, TypeOK
      <4>2. \A s \in Sigs : [runs EXCEPT ![s] = @ + 1] \in [Sigs -> Nat]
        BY <4>1
      <4>3. req[t].sig = NoSig \/ req[t].sig \in Sigs
        BY DEF AuthInv, TypeOK, Request
      <4> QED
        BY <2>11, <4>1, <4>2, <4>3 DEF Run
    <3> QED
      BY <2>11, <3>1, DropStep DEF Run
  <2> QED
    BY <1>1, <2>1, <2>2, <2>3, <2>4, <2>5, <2>6, <2>7, <2>8, <2>9, <2>10, <2>11 DEF Step
<1>2. CASE Crash
  <2> USE <1>2 DEF Crash, AuthInv
  <2>1. \A t \in Threads : req'[t] = Idle /\ req'[t].at = "idle"
    BY DEF Idle
  <2>2. TypeOK'
    BY DEF TypeOK, Idle, Request, Stages
  <2>3. Known' /\ StampedPast'
    BY <2>1 DEF Known, KnownOf, StampedPast, Checked
  <2>4. ValidRecorded' /\ OnceWhileValid'
    BY DEF ValidRecorded, OnceWhileValid
  <2> QED
    BY <2>2, <2>3, <2>4
<1>3. ASSUME NEW peer \in Peers, EditPolicy(peer) PROVE AuthInv'
  <2> USE <1>3 DEF EditPolicy, AuthInv
  <2>1. trusted' \subseteq Peers /\ revoked' \subseteq Peers
    BY DEF TypeOK
  <2>2. \A t \in Threads :
          /\ req'[t] \in Request
          /\ req'[t].at = req[t].at /\ req'[t].sig = req[t].sig
          /\ req'[t].owner = req[t].owner /\ req'[t].known = req[t].known
          /\ req'[t].barred = req[t].barred /\ req'[t].now = req[t].now
          /\ req'[t].everTrusted = (req[t].everTrusted \/ req[t].owner \in trusted')
          /\ req'[t].everClear = (req[t].everClear \/ req[t].owner \notin revoked')
    <3> SUFFICES ASSUME NEW t \in Threads
                 PROVE  /\ req'[t] \in Request
                        /\ req'[t].at = req[t].at /\ req'[t].sig = req[t].sig
                        /\ req'[t].owner = req[t].owner /\ req'[t].known = req[t].known
                        /\ req'[t].barred = req[t].barred /\ req'[t].now = req[t].now
                        /\ req'[t].everTrusted = (req[t].everTrusted \/ req[t].owner \in trusted')
                        /\ req'[t].everClear = (req[t].everClear \/ req[t].owner \notin revoked')
      OBVIOUS
    <3> DEFINE q == req[t]
               a == q.everTrusted \/ q.owner \in trusted'
               c == q.everClear \/ q.owner \notin revoked'
    <3>1. q \in Request /\ a \in BOOLEAN /\ c \in BOOLEAN
      BY DEF TypeOK
    <3>2. req'[t] = [q EXCEPT !.everTrusted = a, !.everClear = c]
      OBVIOUS
    <3> HIDE DEF q, a, c
    <3>3. /\ req'[t] \in Request
          /\ req'[t].at = q.at /\ req'[t].sig = q.sig
          /\ req'[t].owner = q.owner /\ req'[t].known = q.known
          /\ req'[t].barred = q.barred /\ req'[t].now = q.now
          /\ req'[t].everTrusted = a
          /\ req'[t].everClear = c
      BY <3>1, <3>2 DEF Request
    <3> QED
      BY <3>3 DEF q, a, c
  <2>3. TypeOK'
    <3>1. req' \in [Threads -> Request]
      BY <2>2
    <3> QED
      BY <2>1, <3>1 DEF TypeOK
  <2>4. Known'
    <3> SUFFICES ASSUME NEW t \in Threads
                 PROVE  KnownOf(req'[t], trusted', revoked')
      BY DEF Known
    <3>1. KnownOf(req[t], trusted, revoked)
      BY DEF Known
    <3>2. /\ req'[t].at = req[t].at /\ req'[t].sig = req[t].sig
          /\ req'[t].owner = req[t].owner /\ req'[t].known = req[t].known
          /\ req'[t].barred = req[t].barred
          /\ req[t].everTrusted \/ req[t].owner \in trusted' => req'[t].everTrusted
          /\ req[t].everClear \/ req[t].owner \notin revoked' => req'[t].everClear
      BY <2>2
    <3> QED
      BY <3>1, <3>2, EditKeepsKnown
  <2>5. StampedPast' /\ ValidRecorded' /\ OnceWhileValid'
    BY <2>2 DEF StampedPast, ValidRecorded, OnceWhileValid
  <2> QED
    BY <2>3, <2>4, <2>5
<1>4. CASE Tick
  BY <1>4, AuthConstants
  DEF Tick, AuthInv, TypeOK, Known, KnownOf, IsForwarded, StampedPast, ValidRecorded, OnceWhileValid, Request
<1>5. CASE UNCHANGED vars
  BY <1>5 DEF vars, AuthInv, TypeOK, Known, KnownOf, IsForwarded, StampedPast, ValidRecorded, OnceWhileValid
<1> QED
  BY <1>1, <1>2, <1>3, <1>4, <1>5 DEF Next

\* Every reachable state of the node satisfies the invariant.
THEOREM AuthInvariant == Spec => []AuthInv
BY InitInv, NextInv, PTL DEF Spec

\* The variables keep their types.
THEOREM TypeCorrect == Spec => []TypeOK
<1>1. AuthInv => TypeOK
  BY DEF AuthInv
<1> QED
  BY <1>1, AuthInvariant, PTL

\* A delegation passes first_time at most once before it expires, however it is
\* delivered, on however many threads, and across restarts.
THEOREM AcceptedOnceWhileValid == Spec => []OnceWhileValid
<1>1. AuthInv => OnceWhileValid
  BY DEF AuthInv
<1> QED
  BY <1>1, AuthInvariant, PTL

\* Only authentic, trusted, unrevoked work ever runs.
THEOREM AcceptedAllowed == Spec => []AcceptedWasAllowed
<1>1. AuthInv => AcceptedWasAllowed
  BY DEF AuthInv, Known, KnownOf, Checked, AcceptedWasAllowed, IsForwarded
<1> QED
  BY <1>1, AuthInvariant, PTL

\* The size of the replay database: only first_time changes it.
LEMMA BoundStep == AuthInv /\ CacheBounded /\ [Next]_vars => CacheBounded'
<1> SUFFICES ASSUME AuthInv, CacheBounded, [Next]_vars PROVE CacheBounded'
  OBVIOUS
<1>1. ASSUME NEW t \in Threads, FirstTime(t) PROVE CacheBounded'
  <2> DEFINE live == Live(req[t].now)
  <2>1. live \subseteq recorded /\ IsFiniteSet(recorded)
    BY DEF Live, AuthInv, TypeOK
  <2>2. IsFiniteSet(live)
    BY <2>1, FS_Subset
  <2>3. Cardinality(live) \in Nat
    BY <2>2, FS_CardinalityType
  <2>4. Cardinality(live \cup {req[t].sig}) <= Cardinality(live) + 1
    <3> DEFINE sig == req[t].sig
    <3> HIDE DEF live, sig
    <3>1. \/ Cardinality(live \cup {sig}) = Cardinality(live)
          \/ Cardinality(live \cup {sig}) = Cardinality(live) + 1
      BY <2>2, FS_AddElement, Zenon
    <3>2. Cardinality(live \cup {sig}) <= Cardinality(live) + 1
      BY <2>3, <3>1
    <3> QED
      BY <3>2 DEF sig
  <2>5. Cardinality(live) < MaxEntries /\ recorded' = live \cup {req[t].sig}
    BY <1>1, <2>3, AuthConstants DEF FirstTime, Full
  <2>6. Cardinality(live \cup {req[t].sig}) \in Nat
    BY <2>2, FS_AddElement, FS_CardinalityType
  <2> HIDE DEF live
  <2> QED
    BY <2>3, <2>4, <2>5, <2>6, AuthConstants DEF CacheBounded
<1>2. CASE UNCHANGED recorded
  BY <1>2 DEF CacheBounded
<1>3. ASSUME NEW t \in Threads, Step(t) PROVE FirstTime(t) \/ UNCHANGED recorded
  BY <1>3 DEF Step, Arrive, Forwarded, LoadPeers, LoadRevocations, Verify,
              VerifyRefuses, Stamp, ReplayRefused, Unavailable, Run
<1> QED
  BY <1>1, <1>2, <1>3 DEF Next, vars, Crash, EditPolicy, Tick

\* The replay database never holds more than max_entries rows.
THEOREM CacheStaysBounded == Spec => []CacheBounded
<1>1. Init => CacheBounded
  BY FS_EmptySet, AuthConstants DEF Init, CacheBounded
<1> QED
  BY <1>1, BoundStep, AuthInvariant, PTL DEF Spec

\* Only an accepting first_time changes the replay database, and only by adding
\* the accepted signature and dropping expired ones.
LEMMA RecordStep ==
    AuthInv /\ [Next]_vars => [RecordedByAcceptanceStep /\ ValidKeptStep]_vars
<1> SUFFICES ASSUME AuthInv, Next PROVE RecordedByAcceptanceStep /\ ValidKeptStep
  OBVIOUS
<1>1. ASSUME NEW t \in Threads, FirstTime(t)
      PROVE  RecordedByAcceptanceStep /\ ValidKeptStep
  <2> DEFINE sig == req[t].sig
             now == req[t].now
  <2>1. /\ req[t] \in Request /\ req[t].at = "commit"
        /\ recorded' = Live(now) \cup {sig}
        /\ req' = [req EXCEPT ![t].at = "run"]
        /\ now <= clock /\ now \in Nat /\ clock \in Nat
    BY <1>1 DEF FirstTime, AuthInv, StampedPast, TypeOK, Request
  <2>2. sig \in Sigs /\ req[t].owner = Sender[sig]
    BY <2>1 DEF AuthInv, Known, KnownOf, Checked, IsForwarded, Request
  <2>3. req'[t].at = "run" /\ req'[t].sig = sig
    BY <2>1 DEF AuthInv, TypeOK, Request
  <2>4. \A s \in recorded' \ recorded : s = sig
    BY <2>1 DEF Live
  <2>5. RecordedByAcceptanceStep
    BY <2>2, <2>3, <2>4 DEF RecordedByAcceptanceStep
  <2>6. ValidKeptStep
    BY <2>1, AuthConstants DEF ValidKeptStep, Live, AuthInv, TypeOK
  <2> QED
    BY <2>5, <2>6
<1>2. CASE UNCHANGED recorded
  BY <1>2 DEF RecordedByAcceptanceStep, ValidKeptStep
<1>3. ASSUME NEW t \in Threads, Step(t) PROVE FirstTime(t) \/ UNCHANGED recorded
  BY <1>3 DEF Step, Arrive, Forwarded, LoadPeers, LoadRevocations, Verify,
              VerifyRefuses, Stamp, ReplayRefused, Unavailable, Run
<1> QED
  BY <1>1, <1>2, <1>3 DEF Next, vars, Crash, EditPolicy, Tick

\* A rejection writes nothing, and only the sender's request uses a signature up.
THEOREM RecordedOnlyWhenAccepted == Spec => RecordedOnlyByAcceptance
<1>1. AuthInv /\ [Next]_vars => [RecordedByAcceptanceStep]_vars
  BY RecordStep
<1> QED
  BY <1>1, AuthInvariant, PTL DEF Spec, RecordedOnlyByAcceptance

\* No valid signature is ever forgotten.
THEOREM ValidStaysRecorded == Spec => ValidNeverForgotten
<1>1. AuthInv /\ [Next]_vars => [ValidKeptStep]_vars
  BY RecordStep
<1> QED
  BY <1>1, AuthInvariant, PTL DEF Spec, ValidNeverForgotten
=============================================================================
